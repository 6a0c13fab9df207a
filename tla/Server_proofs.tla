---------------------------- MODULE Server_proofs ----------------------------
(***************************************************************************)
(* Proofs about wrapper-core, in two parts.  The first is for any texts    *)
(* and any tables: what the functions of server.c, and of the scripts that *)
(* build what it runs, make of their arguments.  The second is for any     *)
(* clients of the three services and any values of their constants: the    *)
(* process runs each service as the service's own module says, and startup *)
(* keeps its order.                                                        *)
(***************************************************************************)
EXTENDS Server, TextCalls, SequenceTheorems, WellFoundedInduction, TLAPS

-----------------------------------------------------------------------------
(***************************************************************************)
(* The functions.  Their loops are folds and their texts sequences of any  *)
(* length, so most of what follows is by induction, for which a set stands *)
(* in the place of a predicate: the set of the numbers, of the sequences   *)
(* or of the tables for which a statement holds.                           *)
(***************************************************************************)

\* Every set of numbers that is not empty has a least one.
LEMMA LeastNumber ==
  ASSUME NEW T \in SUBSET Nat, T # {}
  PROVE  Min(T) \in T /\ \A k \in T : Min(T) =< k
<1>1. PICK m \in T : \A k \in T : ~ (<<k, m>> \in OpToRel(<, Nat))
  BY NatLessThanWellFounded, WFMin, Zenon
<1>2. \A k \in T : ~(k < m)
  BY <1>1 DEF OpToRel
<1>3. \A k \in T : m =< k
  BY <1>2
<1> QED
  BY <1>3 DEF Min

\* Induction on numbers, with a set in the place of a predicate.
LEMMA NumberInduction ==
  ASSUME NEW T, 0 \in T, \A n \in Nat : n \in T => n + 1 \in T
  PROVE  Nat \subseteq T
<1> DEFINE C == {n \in Nat : n \notin T}
<1>1. SUFFICES ASSUME C # {} PROVE FALSE
  OBVIOUS
<1> DEFINE m == Min(C)
<1>2. m \in C /\ \A k \in C : m =< k
  BY <1>1, LeastNumber
<1> HIDE DEF m
<1>3. m - 1 \in Nat /\ m - 1 \in T
  BY <1>2
<1>4. (m - 1) + 1 \in T
  BY <1>3
<1> QED
  BY <1>2, <1>4

\* Induction on sequences.
LEMMA SequenceInduction ==
  ASSUME NEW E, NEW T, <<>> \in T,
         \A s \in Seq(E), e \in E : s \in T => Append(s, e) \in T
  PROVE  Seq(E) \subseteq T
<1> DEFINE C == {n \in Nat : \A s \in Seq(E) : Len(s) = n => s \in T}
<1>1. 0 \in C
  BY EmptySeq
<1>2. ASSUME NEW n \in Nat, n \in C PROVE n + 1 \in C
  <2>1. SUFFICES ASSUME NEW s \in Seq(E), Len(s) = n + 1 PROVE s \in T
    OBVIOUS
  <2>2. PICK front \in Seq(E), last \in E : s = Append(front, last)
    BY <2>1, SequenceEmptyOrAppend
  <2>3. Len(front) = n
    BY <2>1, <2>2, AppendProperties
  <2> QED
    BY <1>2, <2>2, <2>3
<1>3. Nat \subseteq C
  <2> HIDE DEF C
  <2> QED
    BY <1>1, <1>2, NumberInduction
<1> QED
  BY <1>3, LenProperties

-----------------------------------------------------------------------------
(* Loops. *)

\* step and base are a loop over elements of E that keeps an element of S.
IsLoop(S, E, step, base) == base \in S /\ step \in [S -> [E -> S]]

\* What the loop keeps after each of the first n elements of seq.
IsRun(run, S, step, base, seq, n) ==
  /\ run \in [0..n -> S]
  /\ run[0] = base
  /\ \A i \in 1..n : run[i] = step[run[i - 1]][seq[i]]

\* Every loop has a run over any number of elements.
LEMMA RunExists ==
  ASSUME NEW S, NEW E, NEW step, NEW base, IsLoop(S, E, step, base),
         NEW n \in Nat, NEW seq \in [1..n -> E]
  PROVE  \E run : IsRun(run, S, step, base, seq, n)
<1> DEFINE T == {k \in Nat : k =< n => \E run : IsRun(run, S, step, base, seq, k)}
<1>1. 0 \in T
  <2>1. IsRun([i \in 0..0 |-> base], S, step, base, seq, 0)
    BY DEF IsRun, IsLoop
  <2> QED
    BY <2>1
<1>2. ASSUME NEW k \in Nat, k \in T PROVE k + 1 \in T
  <2>1. SUFFICES ASSUME k + 1 =< n PROVE \E run : IsRun(run, S, step, base, seq, k + 1)
    OBVIOUS
  <2>2. PICK run : IsRun(run, S, step, base, seq, k)
    BY <1>2, <2>1
  <2> DEFINE new == step[run[k]][seq[k + 1]]
             longer == [i \in 0..k + 1 |-> IF i = k + 1 THEN new ELSE run[i]]
  <2>3. seq[k + 1] \in E /\ run[k] \in S
    BY <2>1, <2>2 DEF IsRun
  <2>4. new \in S
    BY <2>3 DEF IsLoop
  <2>5. longer \in [0..k + 1 -> S] /\ longer[0] = base
    BY <2>2, <2>4 DEF IsRun
  <2>6. ASSUME NEW i \in 1..k + 1 PROVE longer[i] = step[longer[i - 1]][seq[i]]
    <3>1. CASE i = k + 1
      BY <3>1
    <3>2. CASE i \in 1..k
      <4>1. /\ i \in 0..k + 1 /\ i # k + 1
            /\ i - 1 \in 0..k + 1 /\ i - 1 # k + 1
        BY <3>2
      <4>2. longer[i] = run[i] /\ longer[i - 1] = run[i - 1]
        BY <4>1
      <4>3. run[i] = step[run[i - 1]][seq[i]]
        BY <2>2, <3>2 DEF IsRun
      <4> HIDE DEF longer
      <4> QED
        BY <4>2, <4>3
    <3> QED
      BY <3>1, <3>2
  <2>7. IsRun(longer, S, step, base, seq, k + 1)
    BY <2>5, <2>6 DEF IsRun
  <2> QED
    BY <2>7
<1>3. n \in T
  <2> HIDE DEF T
  <2> QED
    BY <1>1, <1>2, NumberInduction
<1> QED
  BY <1>3

\* The loop runs in one way only, and Fold is what it keeps in the end.
LEMMA FoldIsRun ==
  ASSUME NEW S, NEW E, NEW step, NEW base, IsLoop(S, E, step, base), NEW seq \in Seq(E),
         NEW run, IsRun(run, S, step, base, seq, Len(seq))
  PROVE  Fold(step, base, seq) = run[Len(seq)]
<1> DEFINE n == Len(seq)
           Body(f) == [i \in 0..n |-> IF i = 0 THEN base ELSE step[f[i - 1]][seq[i]]]
           after == CHOOSE f : f = Body(f)
<1>1. n \in Nat
  BY LenProperties
<1>2. run = Body(run)
  BY <1>1 DEF IsRun
<1>3. after = Body(after)
  <2> HIDE DEF Body
  <2> QED
    BY <1>2, Zenon
<1> HIDE DEF after
<1> DEFINE T == {k \in Nat : k =< n => after[k] = run[k]}
<1>4. 0 \in T
  <2>1. Body(after)[0] = base
    <3> HIDE DEF n
    <3>1. 0 \in 0..n
      BY ONLY <1>1
    <3> QED
      BY <3>1
  <2>2. run[0] = base
    BY Zenon DEF IsRun
  <2> HIDE DEF Body, n
  <2>3. after[0] = run[0]
    BY ONLY <1>3, <2>1, <2>2
  <2>4. 0 \in Nat
    BY ONLY <1>1
  <2> QED
    BY <2>3, <2>4, Zenon
<1>5. ASSUME NEW k \in Nat, k \in T PROVE k + 1 \in T
  <2>1. SUFFICES ASSUME k + 1 =< n PROVE after[k + 1] = run[k + 1]
    OBVIOUS
  <2>2. k + 1 \in 1..n /\ (k + 1) - 1 = k
    BY <1>1, <2>1
  <2>3. after[k] = run[k]
    BY <1>5, <2>1, <1>1
  <2>4. Body(after)[k + 1] = step[after[(k + 1) - 1]][seq[k + 1]]
    BY <2>2
  <2>5. run[k + 1] = step[run[(k + 1) - 1]][seq[k + 1]]
    BY <2>2 DEF IsRun
  <2> HIDE DEF Body
  <2>6. after[k + 1] = step[after[(k + 1) - 1]][seq[k + 1]]
    BY ONLY <1>3, <2>4
  <2> QED
    BY ONLY <2>2, <2>3, <2>5, <2>6
<1>6. n \in T
  <2> HIDE DEF T, n
  <2>1. Nat \subseteq T
    BY ONLY <1>4, <1>5, NumberInduction
  <2> QED
    BY ONLY <1>1, <2>1
<1> QED
  BY <1>1, <1>6 DEF Fold, after

\* A loop over nothing keeps what it began with.
LEMMA FoldEmpty ==
  ASSUME NEW S, NEW E, NEW step, NEW base, IsLoop(S, E, step, base)
  PROVE  Fold(step, base, <<>>) = base
<1>1. <<>> \in Seq(E) /\ Len(<<>>) = 0
  OBVIOUS
<1>2. IsRun([i \in 0..0 |-> base], S, step, base, <<>>, Len(<<>>))
  BY <1>1 DEF IsRun, IsLoop
<1> QED
  BY <1>1, <1>2, FoldIsRun

\* What a loop keeps is of its type.
LEMMA FoldType ==
  ASSUME NEW S, NEW E, NEW step, NEW base, IsLoop(S, E, step, base), NEW seq \in Seq(E)
  PROVE  Fold(step, base, seq) \in S
<1>1. Len(seq) \in Nat /\ seq \in [1..Len(seq) -> E]
  BY LenProperties
<1>2. PICK run : IsRun(run, S, step, base, seq, Len(seq))
  BY <1>1, RunExists
<1>3. Fold(step, base, seq) = run[Len(seq)]
  BY <1>2, FoldIsRun
<1> QED
  BY <1>1, <1>2, <1>3 DEF IsRun

\* One element more is one round more.
LEMMA FoldAppend ==
  ASSUME NEW S, NEW E, NEW step, NEW base, IsLoop(S, E, step, base), NEW seq \in Seq(E),
         NEW e \in E
  PROVE  Fold(step, base, Append(seq, e)) = step[Fold(step, base, seq)][e]
<1> DEFINE n == Len(seq)
           longer == Append(seq, e)
<1>1. n \in Nat /\ seq \in [1..n -> E]
  BY LenProperties
<1>2. /\ longer \in Seq(E) /\ Len(longer) = n + 1 /\ longer[n + 1] = e
      /\ \A i \in 1..n : longer[i] = seq[i]
  BY AppendProperties
<1>3. longer \in [1..n + 1 -> E]
  BY <1>2, LenProperties
<1> HIDE DEF longer
<1>4. PICK run : IsRun(run, S, step, base, longer, n + 1)
  BY <1>1, <1>3, RunExists
<1>5. Fold(step, base, longer) = run[n + 1]
  BY <1>2, <1>4, FoldIsRun
<1> DEFINE part == [i \in 0..n |-> run[i]]
<1>6. IsRun(part, S, step, base, seq, n)
  <2>1. part \in [0..n -> S] /\ part[0] = base
    BY <1>1, <1>4 DEF IsRun
  <2>2. ASSUME NEW i \in 1..n PROVE part[i] = step[part[i - 1]][seq[i]]
    BY <1>1, <1>2, <1>4 DEF IsRun
  <2> QED
    BY <2>1, <2>2 DEF IsRun
<1>7. Fold(step, base, seq) = run[n]
  BY <1>1, <1>6, FoldIsRun
<1>8. run[n + 1] = step[run[n]][e]
  BY <1>1, <1>2, <1>4 DEF IsRun
<1> QED
  BY <1>5, <1>7, <1>8 DEF longer

\* FirstOf is the first place of a byte of the set, and 0 if there is none.
LEMMA FirstOfFacts ==
  ASSUME NEW C, NEW E, NEW seq \in Seq(E)
  PROVE  /\ FirstOf(seq, C) \in 0..Len(seq)
         /\ FirstOf(seq, C) # 0 => seq[FirstOf(seq, C)] \in C
         /\ \A i \in 1..Len(seq) : seq[i] \in C => FirstOf(seq, C) # 0 /\ FirstOf(seq, C) =< i
<1> DEFINE I == {i \in 1..Len(seq) : seq[i] \in C}
           first == IF I # {} THEN Min(I) ELSE 0
<1>1. FirstOf(seq, C) = first
  BY DEF FirstOf, SelectInSeq
<1>2. Len(seq) \in Nat /\ I \in SUBSET Nat
  BY LenProperties
<1>3. I # {} => Min(I) \in I /\ \A i \in I : Min(I) =< i
  BY <1>2, LeastNumber
<1> HIDE DEF first
<1>4. first \in 0..Len(seq) /\ (first # 0 => seq[first] \in C)
  BY <1>2, <1>3 DEF first
<1>5. ASSUME NEW i \in 1..Len(seq), seq[i] \in C PROVE first # 0 /\ first =< i
  BY <1>2, <1>3, <1>5 DEF first
<1> QED
  BY <1>1, <1>4, <1>5

\* The smaller of two numbers.
LEMMA ShorterOf ==
  ASSUME NEW a \in Int, NEW b \in Int
  PROVE  Min({a, b}) = IF a =< b THEN a ELSE b
BY DEF Min

\* The start of a sequence.
LEMMA StartOf ==
  ASSUME NEW E, NEW seq \in Seq(E), NEW n \in 0..Len(seq)
  PROVE  /\ SubSeq(seq, 1, n) \in Seq(E)
         /\ Len(SubSeq(seq, 1, n)) = n
         /\ \A i \in 1..n : SubSeq(seq, 1, n)[i] = seq[i]
BY LenProperties, SubSeqProperties

\* read_two_factor_code takes the first line if it has the length of a code.
LEMMA CodeJudged ==
  ASSUME NEW file \in Seq(Byte)
  PROVE  LET end == FirstOf(file, {"\r", "\n", NUL})
             first == IF end = 0 THEN file ELSE SubSeq(file, 1, end - 1)
         IN ReadTwoFactorCode(file) = IF Len(first) = CodeLength THEN first ELSE NULL
<1> DEFINE ends == {"\r", "\n", NUL}
           newline == FirstOf(file, {"\n"})
           stop == IF newline = 0 THEN Len(file) ELSE newline
           limit == Min({stop, FgetsLimit})
           line == SubSeq(file, 1, limit)
           mark == FirstOf(line, ends)
           code == IF mark = 0 THEN line ELSE SubSeq(line, 1, mark - 1)
           eol == FirstOf(file, ends)
           head == IF eol = 0 THEN file ELSE SubSeq(file, 1, eol - 1)
<1>1. FgetsLimit \in Nat /\ FgetsLimit > CodeLength /\ CodeLength \in Nat /\ Len(file) \in Nat
  BY TextAssumption, LenProperties DEF FgetsLimit
<1>2. newline \in 0..Len(file) /\ eol \in 0..Len(file)
  BY FirstOfFacts
<1>3. stop \in Nat /\ limit \in 0..Len(file) /\ limit = IF stop =< FgetsLimit THEN stop ELSE FgetsLimit
  BY <1>1, <1>2, ShorterOf
<1>4. ReadTwoFactorCode(file) = IF Len(code) = CodeLength THEN code ELSE NULL
  BY DEF ReadTwoFactorCode
<1>5. line \in Seq(Byte) /\ Len(line) = limit /\ \A i \in 1..limit : line[i] = file[i]
  BY <1>3, StartOf
<1>6. newline # 0 => eol # 0 /\ eol =< newline
  <2>1. newline # 0 => file[newline] \in ends /\ newline \in 1..Len(file)
    BY <1>2, FirstOfFacts
  <2> QED
    BY <2>1, FirstOfFacts
<1>7. mark \in 0..limit /\ (mark # 0 => line[mark] \in ends)
  BY <1>5, FirstOfFacts
<1>8. \A i \in 1..limit : line[i] \in ends => mark # 0 /\ mark =< i
  BY <1>5, FirstOfFacts
<1>9. /\ eol # 0 => file[eol] \in ends
      /\ \A i \in 1..Len(file) : file[i] \in ends => eol # 0 /\ eol =< i
  BY FirstOfFacts
<1> HIDE DEF mark, eol, newline, ends, limit, line
<1>10. ASSUME eol # 0, eol =< limit PROVE code = head
  <2>1. mark = eol
    BY <1>2, <1>3, <1>5, <1>7, <1>8, <1>9, <1>10
  <2>2. eol - 1 \in 0..Len(file) /\ eol - 1 \in 0..Len(line)
    BY <1>1, <1>2, <1>3, <1>5, <1>10
  <2>3. /\ SubSeq(line, 1, eol - 1) \in Seq(Byte) /\ Len(SubSeq(line, 1, eol - 1)) = eol - 1
        /\ \A i \in 1..eol - 1 : SubSeq(line, 1, eol - 1)[i] = line[i]
    BY <1>5, <2>2, StartOf
  <2>4. /\ SubSeq(file, 1, eol - 1) \in Seq(Byte) /\ Len(SubSeq(file, 1, eol - 1)) = eol - 1
        /\ \A i \in 1..eol - 1 : SubSeq(file, 1, eol - 1)[i] = file[i]
    BY <2>2, StartOf
  <2>5. \A i \in 1..eol - 1 : line[i] = file[i]
    BY <1>5, <2>2
  <2>6. \A i \in 1..eol - 1 : SubSeq(line, 1, eol - 1)[i] = SubSeq(file, 1, eol - 1)[i]
    BY <2>3, <2>4, <2>5
  <2>7. SubSeq(line, 1, eol - 1) = SubSeq(file, 1, eol - 1)
    BY <2>3, <2>4, <2>6, SeqEqual
  <2> QED
    BY <1>10, <2>1, <2>7
<1>11. ASSUME eol = 0 \/ eol > limit
       PROVE  code = head \/ (Len(code) # CodeLength /\ Len(head) # CodeLength)
  <2>1. mark = 0
    BY <1>2, <1>3, <1>5, <1>7, <1>9, <1>11
  <2>2. CASE limit = Len(file)
    <3>1. eol = 0
      BY <1>2, <1>11, <2>2
    <3>2. line = file
      BY <1>5, <2>2, SeqEqual
    <3> QED
      BY <2>1, <3>1, <3>2
  <2>3. CASE limit # Len(file)
    <3>1. limit = FgetsLimit
      BY <1>2, <1>3, <1>6, <1>11, <2>3
    <3>2. eol # 0 => Len(SubSeq(file, 1, eol - 1)) = eol - 1
      BY <1>2, StartOf
    <3>3. Len(code) # CodeLength
      BY <1>1, <1>5, <2>1, <3>1
    <3>4. Len(head) # CodeLength
      BY <1>1, <1>2, <1>3, <1>11, <2>3, <3>1, <3>2
    <3> QED
      BY <3>3, <3>4
  <2> QED
    BY <2>2, <2>3
<1>12. code = head \/ (Len(code) # CodeLength /\ Len(head) # CodeLength)
  <2> HIDE DEF code, head
  <2>1. eol \in Int /\ limit \in Int
    BY <1>2, <1>3
  <2> QED
    BY <1>10, <1>11, <2>1
<1>13. ReadTwoFactorCode(file) = IF Len(head) = CodeLength THEN head ELSE NULL
  <2> HIDE DEF code, head
  <2> QED
    BY <1>4, <1>12
<1> QED
  BY <1>13 DEF eol, ends

-----------------------------------------------------------------------------

\* strtoul gives the number of the digits, or an error if it does not fit.
LEMMA DigitValue == \A d \in DOMAIN Digit : Digit[d] \in 0..9
BY DEF Digit

\* strtoul is the number that the digits are, and an error if that is above ULONG_MAX.
LEMMA StrtoulIsDecimal ==
  ASSUME NEW text \in Seq(DOMAIN Digit)
  PROVE  /\ Decimal(text) \in Nat
         /\ Strtoul(text) = IF Decimal(text) =< UlongMax THEN Decimal(text) ELSE NULL
<1> DEFINE exact == [n \in Nat |-> [d \in DOMAIN Digit |-> 10 * n + Digit[d]]]
           bounded == [n \in Nat \cup {NULL} |-> [d \in DOMAIN Digit |->
             IF n = NULL \/ 10 * n + Digit[d] > UlongMax THEN NULL ELSE 10 * n + Digit[d]]]
           E == DOMAIN Digit
           T == {t \in Seq(E) : /\ Decimal(t) \in Nat
                                /\ Strtoul(t) = IF Decimal(t) =< UlongMax THEN Decimal(t) ELSE NULL}
<1>1. IsLoop(Nat, E, exact, 0)
  BY DigitValue DEF IsLoop
<1>2. IsLoop(Nat \cup {NULL}, E, bounded, 0)
  BY DigitValue DEF IsLoop
<1>3. \A t : Decimal(t) = Fold(exact, 0, t) /\ Strtoul(t) = Fold(bounded, 0, t)
  BY DEF Decimal, Strtoul
<1>4. <<>> \in T
  <2> HIDE DEF exact, bounded, E
  <2>1. Fold(exact, 0, <<>>) = 0
    BY <1>1, FoldEmpty
  <2>2. Fold(bounded, 0, <<>>) = 0
    BY <1>2, FoldEmpty
  <2>3. Decimal(<<>>) = 0 /\ Strtoul(<<>>) = 0
    BY <1>3, <2>1, <2>2
  <2> QED
    BY <2>3, TextAssumption, EmptySeq
<1>5. ASSUME NEW t \in Seq(E), NEW d \in E, t \in T PROVE Append(t, d) \in T
  <2> DEFINE n == Decimal(t)
  <2>1. Fold(exact, 0, Append(t, d)) = exact[Fold(exact, 0, t)][d]
    <3> HIDE DEF exact, bounded, E, T
    <3> QED
      BY <1>1, FoldAppend
  <2>2. Fold(bounded, 0, Append(t, d)) = bounded[Fold(bounded, 0, t)][d]
    <3> HIDE DEF exact, bounded, E, T
    <3> QED
      BY <1>2, FoldAppend
  <2>3. n \in Nat /\ Digit[d] \in 0..9
    BY <1>5, DigitValue
  <2>4. Decimal(Append(t, d)) = 10 * n + Digit[d]
    BY <1>3, <2>1, <2>3
  <2>5. Strtoul(Append(t, d)) = bounded[IF n =< UlongMax THEN n ELSE NULL][d]
    BY <1>3, <1>5, <2>2
  <2> HIDE DEF n
  <2>6. Strtoul(Append(t, d)) = IF 10 * n + Digit[d] =< UlongMax THEN 10 * n + Digit[d] ELSE NULL
    <3>1. n # NULL /\ UlongMax \in Nat
      BY <2>3, TextAssumption
    <3>2. bounded[n][d] = IF 10 * n + Digit[d] > UlongMax THEN NULL ELSE 10 * n + Digit[d]
      BY <2>3, <3>1
    <3>3. bounded[NULL][d] = NULL
      OBVIOUS
    <3> HIDE DEF exact, bounded, E, T
    <3> DEFINE m == 10 * n + Digit[d]
    <3>4. m \in Nat /\ m >= n
      BY <2>3
    <3> HIDE DEF m
    <3>5. Strtoul(Append(t, d)) = IF m =< UlongMax THEN m ELSE NULL
      <4>1. CASE n =< UlongMax
        BY <2>5, <3>1, <3>2, <3>4, <4>1 DEF m
      <4>2. CASE ~(n =< UlongMax)
        BY <2>3, <2>5, <3>1, <3>3, <3>4, <4>2
      <4> QED
        BY <4>1, <4>2
    <3> QED
      BY <3>5 DEF m
  <2> QED
    BY <2>3, <2>4, <2>6, AppendProperties
<1>6. Seq(E) \subseteq T
  <2> HIDE DEF T, E
  <2> QED
    BY <1>4, <1>5, SequenceInduction
<1> QED
  BY <1>6

\* An id is accepted if it is a number from 1 to ULONG_MAX, and as that number.
LEMMA NumberJudged ==
  ASSUME NEW text \in Seq(Chars)
  PROVE  ParsePositiveDecimalUlong(text) =
           IF /\ \A i \in 1..Len(text) : text[i] \in DOMAIN Digit
              /\ Decimal(text) =< UlongMax
           THEN Decimal(text) ELSE 0
<1> DEFINE digits == \A i \in 1..Len(text) : text[i] \in DOMAIN Digit
           parsed == Strtoul(text)
           number == Decimal(text)
           refused == text = <<>> \/ \E i \in 1..Len(text) : text[i] \notin DOMAIN Digit
<1>1. ParsePositiveDecimalUlong(text) =
        IF refused THEN 0 ELSE IF parsed = NULL THEN 0 ELSE parsed
  BY DEF ParsePositiveDecimalUlong
<1>2. refused <=> text = <<>> \/ ~digits
  OBVIOUS
<1>3. digits => /\ number \in Nat
                /\ parsed = IF number =< UlongMax THEN number ELSE NULL
  <2>1. digits => text \in Seq(DOMAIN Digit)
    BY LenProperties, SeqDef
  <2> QED
    BY <2>1, StrtoulIsDecimal
<1>4. text = <<>> => number = 0
  <2> DEFINE exact == [n \in Nat |-> [d \in DOMAIN Digit |-> 10 * n + Digit[d]]]
  <2>1. IsLoop(Nat, DOMAIN Digit, exact, 0)
    BY DigitValue DEF IsLoop
  <2>2. Decimal(text) = Fold(exact, 0, text)
    BY DEF Decimal
  <2> HIDE DEF exact
  <2> QED
    BY <2>1, <2>2, FoldEmpty
<1> HIDE DEF digits, parsed, number, refused
<1>5. ParsePositiveDecimalUlong(text) = IF digits /\ number =< UlongMax THEN number ELSE 0
  BY <1>1, <1>2, <1>3, <1>4, TextAssumption
<1> QED
  BY <1>5 DEF digits, number

\* The arguments of the last call are some that the program can pass.
CallOK ==
  /\ call.fn = "extract" => call.members \in Seq(Members)
  /\ call.fn = "escape" =>
       call.storefront \in Seq(Chars) /\ call.dev \in Seq(Chars) /\ call.music \in Seq(Chars)
  /\ call.fn = "pass" => call.raw \in Raws
  /\ call.fn = "headers" =>
       call.pieces \in Seq(Seq(Byte) \ {<<>>}) /\ call.size \in Nat \ {0}
  /\ call.fn = "number" => call.text \in Seq(Chars)
  /\ call.fn = "code" => call.text \in Seq(Byte)
  /\ call.fn = "tzdata" => call.files \in [{"GMT", "posixrules"} -> Seq(Byte)]
  /\ call.fn = "elf" => call.slots \in Seq(B!Entry)

\* A call has the arguments that the program can pass.
LEMMA CallsTyped == CallSpec => []CallOK
<1> USE DEF CallOK
<1>1. CallInit => CallOK
  BY DEF CallInit
<1>2. CallOK /\ [Call]_call => CallOK'
  <2> SUFFICES ASSUME CallOK, [Call]_call PROVE CallOK'
    OBVIOUS
  <2>1. CASE UNCHANGED call
    BY <2>1
  <2>2. ASSUME NEW members \in Seq(Members), Extract(members) PROVE CallOK'
    BY <2>2 DEF Extract
  <2>3. ASSUME NEW s \in Seq(Chars), NEW d \in Seq(Chars), NEW m \in Seq(Chars), Escape(s, d, m)
        PROVE  CallOK'
    BY <2>3 DEF Escape
  <2>4. ASSUME NEW raw \in Raws, Pass(raw) PROVE CallOK'
    BY <2>4 DEF Pass
  <2>5. ASSUME NEW pieces \in Seq(Seq(Byte) \ {<<>>}), NEW size \in Nat \ {0},
               ReadHeaders(pieces, size)
        PROVE  CallOK'
    BY <2>5 DEF ReadHeaders
  <2>6. ASSUME NEW text \in Seq(Chars), ReadNumber(text) PROVE CallOK'
    BY <2>6 DEF ReadNumber
  <2>7. ASSUME NEW file \in Seq(Byte), ReadCode(file) PROVE CallOK'
    BY <2>7 DEF ReadCode
  <2>8. ASSUME NEW files \in [{"GMT", "posixrules"} -> Seq(Byte)], BuildTzdata(files)
        PROVE  CallOK'
    BY <2>8 DEF BuildTzdata
  <2>9. ASSUME NEW slots \in Seq(B!Entry), PatchElf(slots) PROVE CallOK'
    BY <2>9 DEF PatchElf
  <2> QED
    BY <2>1, <2>2, <2>3, <2>4, <2>5, <2>6, <2>7, <2>8, <2>9 DEF Call
<1> QED
  BY <1>1, <1>2, PTL DEF CallSpec

\* parse_positive_decimal_ulong and read_two_factor_code accept exactly the ids and
\* codes that they should, for any text.
THEOREM TextsJudged == CallSpec => []InputTextsJudged
<1>1. CallOK => InputTextsJudged
  BY NumberJudged, CodeJudged DEF CallOK, InputTextsJudged
<1> QED
  BY <1>1, CallsTyped, PTL

\* One sequence behind the other.
Glue(E) == [s \in Seq(E) |-> [t \in Seq(E) |-> s \o t]]

\* FlattenSeq is a loop that glues.
LEMMA GlueIsLoop == ASSUME NEW E PROVE IsLoop(Seq(E), Seq(E), Glue(E), <<>>)
BY ConcatProperties, EmptySeq DEF IsLoop, Glue

\* FlattenSeq as a loop from the left.
LEMMA FlattenIsFold ==
  ASSUME NEW E, NEW ss \in Seq(Seq(E))
  PROVE  FlattenSeq(ss) = Fold(Glue(E), <<>>, ss)
<1> DEFINE n == Len(ss)
           Body(f) == [i \in 1..n |-> IF i = 1 THEN ss[i] ELSE f[i - 1] \o ss[i]]
           flat == CHOOSE f : f = Body(f)
<1>1. n \in Nat /\ ss \in [1..n -> Seq(E)]
  BY LenProperties
<1>2. IsLoop(Seq(E), Seq(E), Glue(E), <<>>)
  BY GlueIsLoop
<1>3. CASE n = 0
  <2>1. ss = <<>>
    BY <1>3, EmptySeq
  <2>2. FlattenSeq(ss) = <<>>
    BY <1>3, <2>1 DEF FlattenSeq
  <2> QED
    BY <1>2, <2>1, <2>2, FoldEmpty
<1>4. CASE n # 0
  <2>1. PICK run : IsRun(run, Seq(E), Glue(E), <<>>, ss, n)
    <3> HIDE DEF n
    <3> QED
      BY <1>1, <1>2, RunExists
  <2>2. Fold(Glue(E), <<>>, ss) = run[n]
    BY <1>2, <2>1, FoldIsRun
  <2>3. ASSUME NEW i \in 1..n PROVE run[i] = run[i - 1] \o ss[i]
    <3> HIDE DEF n
    <3>1. i - 1 \in 0..n /\ ss[i] \in Seq(E)
      BY <1>1
    <3>2. run \in [0..n -> Seq(E)] /\ run[i] = Glue(E)[run[i - 1]][ss[i]]
      BY <2>1 DEF IsRun
    <3>3. run[i - 1] \in Seq(E)
      BY <3>1, <3>2
    <3> QED
      BY <3>1, <3>2, <3>3 DEF Glue
  <2>4. run[1] = ss[1]
    <3> HIDE DEF n
    <3>1. 1 \in 1..n /\ 1 - 1 = 0 /\ run[0] = <<>>
      BY <1>1, <1>4, <2>1 DEF IsRun
    <3>2. run[1] = run[1 - 1] \o ss[1] /\ ss[1] \in Seq(E)
      BY <1>1, <2>3, <3>1
    <3> QED
      BY <3>1, <3>2, ConcatEmptySeq
  <2> DEFINE part == [i \in 1..n |-> run[i]]
  <2>5. part = Body(part)
    <3> HIDE DEF n
    <3>1. ASSUME NEW i \in 1..n
          PROVE  run[i] = IF i = 1 THEN ss[i] ELSE part[i - 1] \o ss[i]
      <4>1. i # 1 => i - 1 \in 1..n
        BY <1>1
      <4> QED
        BY <2>3, <2>4, <4>1
    <3> HIDE DEF part
    <3>2. [i \in 1..n |-> run[i]] = Body(part)
      BY <3>1
    <3> QED
      BY <3>2 DEF part
  <2>6. flat = Body(flat)
    BY <2>5, Zenon
  <2> HIDE DEF flat
  <2> DEFINE T == {k \in Nat : k + 1 =< n => flat[k + 1] = run[k + 1]}
  <2>7. 0 \in T
    <3>1. 1 =< n => flat[1] = Body(flat)[1] /\ Body(flat)[1] = ss[1]
      BY <1>1, <2>6
    <3>2. 1 =< n => run[1] = ss[1]
      BY <1>1, <2>4
    <3> HIDE DEF Body, n
    <3>3. 0 \in Nat /\ (0 + 1 =< n => flat[0 + 1] = run[0 + 1])
      BY ONLY <3>1, <3>2
    <3> QED
      BY <3>3, Zenon
  <2>8. ASSUME NEW k \in Nat, k \in T PROVE k + 1 \in T
    <3>1. SUFFICES ASSUME k + 2 =< n PROVE flat[k + 2] = run[k + 2]
      BY <1>1
    <3>2. k + 2 \in 1..n /\ (k + 2) - 1 = k + 1 /\ k + 2 # 1
      BY <1>1, <3>1
    <3>3. flat[k + 1] = run[k + 1]
      BY <1>1, <2>8, <3>1
    <3>4. Body(flat)[k + 2] = flat[(k + 2) - 1] \o ss[k + 2]
      BY <3>2
    <3>5. run[k + 2] = run[(k + 2) - 1] \o ss[k + 2]
      BY <2>3, <3>2
    <3> HIDE DEF Body
    <3>6. flat[k + 2] = flat[(k + 2) - 1] \o ss[k + 2]
      BY ONLY <2>6, <3>4
    <3> QED
      BY ONLY <3>2, <3>3, <3>5, <3>6
  <2>9. n - 1 \in T
    <3>1. Nat \subseteq T
      <4> HIDE DEF T, n
      <4> QED
        BY <2>7, <2>8, NumberInduction
    <3>2. n - 1 \in Nat
      BY <1>1, <1>4
    <3> HIDE DEF T
    <3> QED
      BY <3>1, <3>2
  <2>10. flat[n] = run[n]
    BY <1>1, <1>4, <2>9
  <2>11. FlattenSeq(ss) = flat[n]
    BY <1>4 DEF FlattenSeq, flat
  <2> QED
    BY <2>2, <2>10, <2>11
<1> QED
  BY <1>3, <1>4

\* Of nothing, nothing.
LEMMA FlattenEmpty == FlattenSeq(<<>>) = <<>>
BY DEF FlattenSeq

\* The operators that BuildScripts has of its own are the same.
LEMMA InstanceFlatten == \A ss : B!FlattenSeq(ss) = FlattenSeq(ss)
BY DEF B!FlattenSeq, FlattenSeq

\* The pieces of texts make a text.
LEMMA FlattenType ==
  ASSUME NEW E, NEW ss \in Seq(Seq(E)) PROVE FlattenSeq(ss) \in Seq(E)
BY FlattenIsFold, GlueIsLoop, FoldType

\* One piece more stands at the end.
LEMMA FlattenAppend ==
  ASSUME NEW E, NEW ss \in Seq(Seq(E)), NEW s \in Seq(E)
  PROVE  FlattenSeq(Append(ss, s)) = FlattenSeq(ss) \o s
<1>1. Append(ss, s) \in Seq(Seq(E))
  BY AppendProperties
<1>2. FlattenSeq(Append(ss, s)) = Fold(Glue(E), <<>>, Append(ss, s))
  BY <1>1, FlattenIsFold
<1>3. Fold(Glue(E), <<>>, Append(ss, s)) = Glue(E)[Fold(Glue(E), <<>>, ss)][s]
  BY GlueIsLoop, FoldAppend
<1>4. Fold(Glue(E), <<>>, ss) = FlattenSeq(ss) /\ FlattenSeq(ss) \in Seq(E)
  BY FlattenIsFold, FlattenType
<1> QED
  BY <1>2, <1>3, <1>4 DEF Glue

\* Two pieces stand one behind the other.
LEMMA FlattenTwo ==
  ASSUME NEW E, NEW s \in Seq(E), NEW t \in Seq(E)
  PROVE  FlattenSeq(<<s, t>>) = s \o t
<1>1. <<s, t>> = Append(Append(<<>>, s), t) /\ <<>> \in Seq(Seq(E)) /\ Append(<<>>, s) \in Seq(Seq(E))
  BY EmptySeq, AppendProperties
<1>2. FlattenSeq(Append(<<>>, s)) = <<>> \o s
  BY FlattenAppend, FlattenEmpty, <1>1
<1>3. FlattenSeq(<<s, t>>) = (<<>> \o s) \o t
  BY FlattenAppend, <1>1, <1>2
<1> QED
  BY <1>3, ConcatEmptySeq

-----------------------------------------------------------------------------
(* build_tzdata.py *)

\* The entries keep the order of zone_sources, which is that of their names.
LEMMA ZonesPlaced ==
  ASSUME NEW files \in [{"GMT", "posixrules"} -> Seq(Byte)]
  PROVE  B!Sorted(B!Placed(files)) =
           << [name |-> "GMT", data |-> files["GMT"], offset |-> 0],
              [name |-> "posixrules", data |-> files["posixrules"], offset |-> Len(files["GMT"])] >>
<1> DEFINE Z == B!ZoneNames
           Body(f) == [i \in 1..Len(Z) |-> IF i = 1 THEN 0 ELSE f[i - 1] + Len(files[Z[i - 1]])]
           current == CHOOSE f : f = Body(f)
           gmt == [name |-> "GMT", data |-> files["GMT"], offset |-> 0]
           rules == [name |-> "posixrules", data |-> files["posixrules"],
                     offset |-> Len(files["GMT"])]
           zones == <<gmt, rules>>
           Fits(s) == /\ \A i \in 1..Len(zones) : \E j \in 1..Len(zones) : s[j] = zones[i]
                      /\ \A i, j \in 1..Len(zones) : B!Before(s[i], s[j]) => i < j
<1>1. Len(Z) = 2 /\ Z[1] = "GMT" /\ Z[2] = "posixrules"
  BY DEF B!ZoneNames
<1>2. Len(files["GMT"]) \in Nat
  BY LenProperties
<1> HIDE DEF Z
<1>3. current = Body(current)
  <2> DEFINE w == [i \in 1..2 |-> IF i = 1 THEN 0 ELSE Len(files["GMT"])]
  <2>1. ASSUME NEW i \in 1..2
        PROVE  w[i] = IF i = 1 THEN 0 ELSE w[i - 1] + Len(files[Z[i - 1]])
    BY <1>1, <1>2
  <2> HIDE DEF w
  <2>2. w = Body(w)
    BY <1>1, <2>1 DEF w
  <2> QED
    BY <2>2, Zenon
<1> HIDE DEF current
<1>4. current[1] = 0 /\ current[2] = Len(files["GMT"])
  BY <1>1, <1>2, <1>3
<1>5. B!Placed(files) =
        [i \in 1..Len(Z) |-> [name |-> Z[i], data |-> files[Z[i]], offset |-> current[i]]]
  BY DEF B!Placed, current, Z
<1>6. B!Placed(files) = zones
  BY <1>1, <1>4, <1>5
<1> HIDE DEF gmt, rules
<1>7. gmt.name = "GMT" /\ rules.name = "posixrules"
  BY DEF gmt, rules
<1>8. \A a, b : B!Before(a, b) <=> a.name = "GMT" /\ b.name # "GMT"
  BY DEF B!Before
<1>9. zones \in [1..2 -> {gmt, rules}] /\ Fits(zones)
  BY <1>7, <1>8
<1>10. B!Sorted(zones) = CHOOSE s \in [1..2 -> {gmt, rules}] : Fits(s)
  <2>1. Len(zones) = 2 /\ {zones[i] : i \in 1..Len(zones)} = {gmt, rules}
    OBVIOUS
  <2> QED
    BY <2>1 DEF B!Sorted
<1> DEFINE sorted == B!Sorted(zones)
<1>11. sorted \in [1..2 -> {gmt, rules}] /\ Fits(sorted)
  BY <1>9, <1>10
<1> HIDE DEF sorted
<1>12. sorted[1] = gmt /\ sorted[2] = rules
  <2>1. Len(zones) = 2 /\ zones[1] = gmt /\ zones[2] = rules
    OBVIOUS
  <2>2. /\ \A i \in 1..2 : \E j \in 1..2 : sorted[j] = zones[i]
        /\ \A i, j \in 1..2 : B!Before(sorted[i], sorted[j]) => i < j
    BY <1>11, <2>1
  <2>3. B!Before(gmt, rules) /\ gmt # rules
    BY <1>7, <1>8
  <2> HIDE DEF zones
  <2>4. sorted[1] = gmt \/ sorted[2] = gmt
    BY <2>1, <2>2
  <2>5. sorted[1] = rules \/ sorted[2] = rules
    BY <2>1, <2>2
  <2> QED
    BY <2>2, <2>3, <2>4, <2>5
<1>13. sorted = zones
  BY <1>11, <1>12
<1> QED
  BY <1>6, <1>13 DEF sorted, gmt, rules

\* What stands at a place of a sequence, cut out of it.
LEMMA PartOf ==
  ASSUME NEW E, NEW all \in Seq(E), NEW part \in Seq(E), NEW k \in Nat,
         k + Len(part) =< Len(all), \A i \in 1..Len(part) : all[k + i] = part[i]
  PROVE  SubSeq(all, k + 1, k + Len(part)) = part
<1> DEFINE m == k + 1
           n == k + Len(part)
           piece == SubSeq(all, m, n)
<1>1. Len(part) \in Nat /\ Len(all) \in Nat /\ m \in Int /\ n \in Int
  BY LenProperties
<1>2. \A i \in m..n : all[i] \in E
  BY <1>1, ElementOfSeq
<1>3. m =< n <=> Len(part) # 0
  BY <1>1
<1>4. n - m + 1 = Len(part)
  BY <1>1
<1>5. \A i \in 1..Len(part) : m + i - 1 = k + i
  BY <1>1
<1> HIDE DEF m, n
<1>6. /\ piece \in Seq(E) /\ Len(piece) = IF m =< n THEN n - m + 1 ELSE 0
      /\ \A i \in 1..n - m + 1 : piece[i] = all[m + i - 1]
  BY <1>1, <1>2, SubSeqProperties
<1>7. Len(piece) = Len(part) /\ \A i \in 1..Len(part) : piece[i] = part[i]
  BY <1>3, <1>4, <1>5, <1>6
<1>8. piece = part
  BY <1>6, <1>7, SeqEqual
<1> QED
  BY <1>8 DEF m, n

\* The second and the third of three sequences.
LEMMA PartOfThree ==
  ASSUME NEW E, NEW s \in Seq(E), NEW t \in Seq(E), NEW u \in Seq(E)
  PROVE  /\ SubSeq(s \o (t \o u), Len(s) + 1, Len(s) + Len(t)) = t
         /\ SubSeq(s \o (t \o u), Len(s) + Len(t) + 1, Len(s) + Len(t) + Len(u)) = u
<1> DEFINE all == s \o (t \o u)
<1>1. /\ Len(s) \in Nat /\ Len(t) \in Nat /\ Len(u) \in Nat
      /\ all \in Seq(E) /\ Len(all) = Len(s) + (Len(t) + Len(u))
      /\ \A i \in 1..Len(t) : all[Len(s) + i] = t[i]
      /\ \A i \in 1..Len(u) : all[Len(s) + Len(t) + i] = u[i]
  <2>1. Len(s) \in Nat /\ Len(t) \in Nat /\ Len(u) \in Nat
    BY LenProperties
  <2>2. /\ t \o u \in Seq(E) /\ Len(t \o u) = Len(t) + Len(u)
        /\ \A i \in 1..Len(t) + Len(u) : (t \o u)[i] = IF i =< Len(t) THEN t[i] ELSE u[i - Len(t)]
    BY ConcatProperties
  <2> DEFINE v == t \o u
  <2> HIDE DEF v
  <2>3. /\ s \o v \in Seq(E) /\ Len(s \o v) = Len(s) + Len(v)
        /\ \A i \in 1..Len(s) + Len(v) : (s \o v)[i] = IF i =< Len(s) THEN s[i] ELSE v[i - Len(s)]
    BY <2>2, ConcatProperties DEF v
  <2> QED
    BY <2>1, <2>2, <2>3 DEF v
<1> HIDE DEF all
<1>2. SubSeq(all, Len(s) + 1, Len(s) + Len(t)) = t
  <2>1. Len(s) + Len(t) =< Len(all)
    BY <1>1
  <2> QED
    BY <1>1, <2>1, PartOf
<1>3. SubSeq(all, (Len(s) + Len(t)) + 1, (Len(s) + Len(t)) + Len(u)) = u
  <2>1. Len(s) + Len(t) \in Nat /\ (Len(s) + Len(t)) + Len(u) =< Len(all)
    BY <1>1
  <2> QED
    BY <1>1, <2>1, PartOf
<1> QED
  BY <1>2, <1>3 DEF all

\* The data of a zone lies where its entry of the index says.
LEMMA ZonesFound ==
  ASSUME NEW files \in [{"GMT", "posixrules"} -> Seq(Byte)]
  PROVE  LET built == B!Tzdata(files)
         IN IF \E z \in DOMAIN files : Len(files[z]) < MinLength THEN built = NULL
            ELSE /\ {built.index[i].name : i \in 1..Len(built.index)} = DOMAIN files
                 /\ \A i \in 1..Len(built.index) :
                      LET entry == built.index[i]
                          start == built.dataOffset + entry.offset
                      IN SubSeq(built.bytes, start + 1, start + entry.length) = files[entry.name]
                 /\ built.zoneTabOffset = Len(built.bytes)
<1> DEFINE built == B!Tzdata(files)
           a == files["GMT"]
           b == files["posixrules"]
           zones == << [name |-> "GMT", data |-> a, offset |-> 0],
                       [name |-> "posixrules", data |-> b, offset |-> Len(a)] >>
           dataOffset == HeaderSize + 2 * EntrySize
           head == [i \in 1..dataOffset |-> "header or index"]
           bytes == head \o (a \o b)
           index == << [name |-> "GMT", offset |-> 0, length |-> Len(a)],
                       [name |-> "posixrules", offset |-> Len(a), length |-> Len(b)] >>
           tooShort == \E z \in DOMAIN files : Len(files[z]) < MinLength
           E == Byte \cup {"header or index"}
<1>1. /\ a \in Seq(E) /\ b \in Seq(E) /\ Len(a) \in Nat /\ Len(b) \in Nat
      /\ dataOffset \in Nat /\ head \in Seq(E) /\ Len(head) = dataOffset
  <2>1. dataOffset \in Nat
    BY ScriptAssumption
  <2> HIDE DEF dataOffset
  <2>2. head \in [1..dataOffset -> E]
    OBVIOUS
  <2>3. head \in Seq(E) /\ Len(head) = dataOffset
    <3> HIDE DEF head, E
    <3> QED
      BY <2>1, <2>2
  <2>4. a \in Seq(E) /\ b \in Seq(E)
    BY SeqMonotonic
  <2> QED
    BY <2>1, <2>3, <2>4, LenProperties
<1> HIDE DEF E
<1>2. B!Sorted(B!Placed(files)) = zones
  BY ZonesPlaced
<1>3. tooShort <=> \E i \in 1..Len(B!ZoneNames) : Len(files[B!ZoneNames[i]]) < MinLength
  BY DEF B!ZoneNames
<1>4. Len(zones) = 2 /\ zones[1].data = a /\ zones[2].data = b
  OBVIOUS
<1>5. FlattenSeq([i \in 1..Len(zones) |-> zones[i].data]) = a \o b
  <2>1. [i \in 1..Len(zones) |-> zones[i].data] = <<a, b>>
    BY <1>4
  <2> HIDE DEF a, b, zones
  <2> QED
    BY <1>1, <2>1, FlattenTwo
<1>6. [i \in 1..Len(zones) |-> [name |-> zones[i].name, offset |-> zones[i].offset,
                                length |-> Len(zones[i].data)]] = index
  OBVIOUS
<1>7. built = IF tooShort THEN NULL
              ELSE [bytes |-> bytes, index |-> index, dataOffset |-> dataOffset,
                    zoneTabOffset |-> dataOffset + Len(a \o b)]
  <2> DEFINE offset == HeaderSize + Len(zones) * EntrySize
             data == FlattenSeq([i \in 1..Len(zones) |-> zones[i].data])
  <2>1. built = IF \E i \in 1..Len(B!ZoneNames) : Len(files[B!ZoneNames[i]]) < MinLength THEN NULL
                ELSE [bytes |-> [i \in 1..offset |-> "header or index"] \o data,
                      index |-> [i \in 1..Len(zones) |->
                                   [name |-> zones[i].name, offset |-> zones[i].offset,
                                    length |-> Len(zones[i].data)]],
                      dataOffset |-> offset,
                      zoneTabOffset |-> offset + Len(data)]
    <3> HIDE DEF zones
    <3> QED
      BY <1>2, InstanceFlatten, Zenon DEF B!Tzdata
  <2>2. offset = dataOffset
    BY <1>4
  <2>3. data = a \o b
    BY <1>5
  <2> HIDE DEF zones, index, a, b, tooShort, offset, data, dataOffset, built
  <2> QED
    BY <1>3, <1>6, <2>1, <2>2, <2>3
<1>8. bytes \in Seq(E) /\ Len(bytes) = dataOffset + Len(a \o b) /\ Len(a \o b) = Len(a) + Len(b)
  <2> HIDE DEF head, a, b, dataOffset
  <2> QED
    BY <1>1, ConcatProperties
<1>9. SubSeq(bytes, dataOffset + 1, dataOffset + Len(a)) = a
  <2> HIDE DEF head, a, b, dataOffset
  <2> QED
    BY <1>1, PartOfThree
<1>10. SubSeq(bytes, dataOffset + Len(a) + 1, dataOffset + Len(a) + Len(b)) = b
  <2> HIDE DEF head, a, b, dataOffset
  <2> QED
    BY <1>1, PartOfThree
<1> HIDE DEF bytes, dataOffset, a, b, tooShort, head, zones
<1>11. ASSUME ~tooShort
       PROVE  /\ {built.index[i].name : i \in 1..Len(built.index)} = DOMAIN files
              /\ \A i \in 1..Len(built.index) :
                    LET entry == built.index[i]
                        start == built.dataOffset + entry.offset
                    IN SubSeq(built.bytes, start + 1, start + entry.length) = files[entry.name]
              /\ built.zoneTabOffset = Len(built.bytes)
  <2>1. /\ built.bytes = bytes /\ built.index = index /\ built.dataOffset = dataOffset
        /\ built.zoneTabOffset = dataOffset + Len(a \o b)
    BY <1>7, <1>11
  <2> HIDE DEF built
  <2>2. Len(index) = 2 /\ {index[i].name : i \in 1..2} = {"GMT", "posixrules"}
    OBVIOUS
  <2>3. ASSUME NEW i \in 1..2
        PROVE  SubSeq(bytes, dataOffset + index[i].offset + 1, dataOffset + index[i].offset + index[i].length)
                 = files[index[i].name]
    <3>1. CASE i = 1
      <4>1. index[i].offset = 0 /\ index[i].length = Len(a) /\ files[index[i].name] = a
        BY <3>1 DEF a
      <4>2. dataOffset + 0 = dataOffset
        <5>1. dataOffset \in Nat
          BY <1>1
        <5> QED
          BY <5>1
      <4> HIDE DEF index
      <4> QED
        BY <1>9, <4>1, <4>2
    <3>2. CASE i = 2
      <4>1. /\ index[i].offset = Len(a) /\ index[i].length = Len(b)
            /\ files[index[i].name] = b
        BY <3>2 DEF b
      <4> HIDE DEF index
      <4> QED
        BY <1>10, <4>1
    <3> HIDE DEF index
    <3> QED
      BY <3>1, <3>2
  <2> HIDE DEF index
  <2> QED
    BY <1>8, <2>1, <2>2, <2>3
<1> QED
  BY <1>7, <1>11 DEF tooShort

\* Whatever the two zone files hold, the index of build_tzdata.py leads to their data.
THEOREM ZonesOwnTheirData == CallSpec => []ZonesOwnData
<1>1. CallOK => ZonesOwnData
  BY ZonesFound DEF CallOK, ZonesOwnData
<1> QED
  BY <1>1, CallsTyped, PTL

-----------------------------------------------------------------------------
(* patch_elf.py *)

\* The loops of BuildScripts are those of Folding.
LEMMA InstanceFold == \A step, base, seq : B!Fold(step, base, seq) = Fold(step, base, seq)
BY DEF B!Fold, Fold

\* Live ends before the first DT_NULL.
LEMMA LiveEnds ==
  ASSUME NEW S, NEW slots \in Seq(S), NEW n \in 1..Len(slots), slots[n].tag = "NULL",
         \A i \in 1..n - 1 : slots[i].tag # "NULL"
  PROVE  B!Live(slots) = SubSeq(slots, 1, n - 1)
<1> DEFINE I == {i \in 1..Len(slots) : slots[i].tag = "NULL"}
<1>1. B!Live(slots) = SubSeq(slots, 1, (IF I # {} THEN Min(I) ELSE 0) - 1)
  <2>1. B!Min(I) = Min(I)
    BY DEF B!Min, Min
  <2> QED
    BY <2>1 DEF B!Live, B!SelectInSeq
<1>2. Len(slots) \in Nat
  BY LenProperties
<1>3. I \in SUBSET Nat /\ n \in I
  BY <1>2
<1>4. Min(I) \in I /\ \A k \in I : Min(I) =< k
  BY <1>3, LeastNumber
<1>5. Min(I) = n
  BY <1>2, <1>3, <1>4
<1> QED
  BY <1>1, <1>3, <1>5

\* The live entries end before the first DT_NULL.
LEMMA FirstNull ==
  ASSUME NEW S, NEW slots \in Seq(S), \E i \in 1..Len(slots) : slots[i].tag = "NULL"
  PROVE  \E n \in 1..Len(slots) : slots[n].tag = "NULL" /\ \A i \in 1..n - 1 : slots[i].tag # "NULL"
<1> DEFINE I == {i \in 1..Len(slots) : slots[i].tag = "NULL"}
<1>1. Len(slots) \in Nat /\ I \in SUBSET Nat /\ I # {}
  BY LenProperties
<1>2. Min(I) \in I /\ \A k \in I : Min(I) =< k
  BY <1>1, LeastNumber
<1>3. \A i \in 1..Min(I) - 1 : i \in 1..Len(slots) /\ ~(Min(I) =< i)
  BY <1>1, <1>2
<1> QED
  BY <1>2, <1>3

\* Taking PIE out changes no tag and leaves nothing to take out.
LEMMA UnpieFacts ==
  ASSUME NEW e \in B!Entry
  PROVE  /\ B!Unpie(e) \in B!Entry /\ B!Unpie(e).tag = e.tag
         /\ B!Unpie(e).value = IF e.tag = "FLAGS_1" THEN e.value \ {"PIE"} ELSE e.value
         /\ B!Unpie(B!Unpie(e)) = B!Unpie(e)
<1>1. e = [tag |-> e.tag, value |-> e.value] /\ e.value \subseteq STRING /\ e.tag \in STRING
  BY DEF B!Entry
<1>2. CASE e.tag = "FLAGS_1"
  <2>1. B!Unpie(e) = [tag |-> e.tag, value |-> e.value \ {"PIE"}]
    BY <1>1, <1>2 DEF B!Unpie, B!Entry
  <2>2. (e.value \ {"PIE"}) \ {"PIE"} = e.value \ {"PIE"}
    OBVIOUS
  <2>3. B!Unpie(B!Unpie(e)) = [tag |-> e.tag, value |-> (e.value \ {"PIE"}) \ {"PIE"}]
    BY <1>2, <2>1 DEF B!Unpie
  <2> QED
    BY <1>1, <1>2, <2>1, <2>2, <2>3 DEF B!Entry
<1>3. CASE e.tag # "FLAGS_1"
  BY <1>3 DEF B!Unpie
<1> QED
  BY <1>2, <1>3

\* from says which entry of s each entry of u was made of, all that are kept and
\* in their order.
Origin(from, u, s) ==
  LET kept == {i \in 1..Len(s) : s[i].tag \notin B!RemoveTags}
  IN /\ from \in [1..Len(u) -> kept]
     /\ \A k \in kept : \E i \in 1..Len(u) : from[i] = k
     /\ \A i, j \in 1..Len(u) : i < j => from[i] < from[j]
     /\ \A i \in 1..Len(u) : u[i] = B!Unpie(s[from[i]])

\* The loop of patch_elf.py keeps a sequence of entries.
LEMMA UpdateIsLoop == IsLoop(Seq(B!Entry), B!Entry, B!Update, <<>>)
BY UnpieFacts, AppendProperties, EmptySeq DEF IsLoop, B!Update

\* One entry more is dropped, or added without PIE.
LEMMA UpdatedStep ==
  ASSUME NEW s \in Seq(B!Entry), NEW e \in B!Entry
  PROVE  B!Updated(Append(s, e)) = IF e.tag \in B!RemoveTags THEN B!Updated(s)
                                   ELSE Append(B!Updated(s), B!Unpie(e))
<1>1. B!Updated(Append(s, e)) = B!Update[B!Updated(s)][e]
  BY UpdateIsLoop, FoldAppend, InstanceFold DEF B!Updated
<1>2. B!Updated(s) \in Seq(B!Entry)
  BY UpdateIsLoop, FoldType, InstanceFold DEF B!Updated
<1> QED
  BY <1>1, <1>2 DEF B!Update

\* What the loop keeps of the entries: those not removed, in order, without PIE.
LEMMA UpdatedFacts ==
  ASSUME NEW entries \in Seq(B!Entry)
  PROVE  LET u == B!Updated(entries)
         IN /\ u \in Seq(B!Entry) /\ Len(u) =< Len(entries)
            /\ \E from : Origin(from, u, entries)
<1> DEFINE T == {s \in Seq(B!Entry) : /\ B!Updated(s) \in Seq(B!Entry)
                                      /\ Len(B!Updated(s)) =< Len(s)
                                      /\ \E from : Origin(from, B!Updated(s), s)}
<1>1. <<>> \in T
  <2>1. B!Updated(<<>>) = <<>>
    BY UpdateIsLoop, FoldEmpty, InstanceFold DEF B!Updated
  <2>2. <<>> \in Seq(B!Entry) /\ Len(<<>>) = 0
    BY EmptySeq
  <2>3. Origin([i \in 1..0 |-> 0], <<>>, <<>>)
    BY DEF Origin
  <2>4. \E from : Origin(from, B!Updated(<<>>), <<>>)
    BY <2>1, <2>3
  <2>5. Len(B!Updated(<<>>)) =< Len(<<>>)
    BY <2>1, <2>2
  <2> QED
    BY <2>1, <2>2, <2>4, <2>5
<1>2. ASSUME NEW s \in Seq(B!Entry), NEW e \in B!Entry, s \in T PROVE Append(s, e) \in T
  <2> DEFINE u == B!Updated(s)
             longer == Append(s, e)
             n == Len(s)
             m == Len(u)
  <2>1. PICK from : Origin(from, u, s)
    BY <1>2
  <2>2. u \in Seq(B!Entry) /\ m =< n /\ m \in Nat /\ n \in Nat
    BY <1>2, LenProperties
  <2>3. /\ longer \in Seq(B!Entry) /\ Len(longer) = n + 1 /\ longer[n + 1] = e
        /\ \A i \in 1..n : longer[i] = s[i]
    BY AppendProperties
  <2> DEFINE kept == {i \in 1..n : s[i].tag \notin B!RemoveTags}
  <2>4. /\ from \in [1..m -> kept]
        /\ \A k \in kept : \E i \in 1..m : from[i] = k
        /\ \A i, j \in 1..m : i < j => from[i] < from[j]
        /\ \A i \in 1..m : u[i] = B!Unpie(s[from[i]])
    BY <2>1 DEF Origin
  <2> HIDE DEF longer, u, n, m
  <2>5. CASE e.tag \in B!RemoveTags
    <3>1. B!Updated(longer) = u
      BY <2>5, UpdatedStep DEF longer, u
    <3>2. {i \in 1..Len(longer) : longer[i].tag \notin B!RemoveTags} = kept
      BY <2>2, <2>3, <2>5
    <3>3. \A i \in 1..m : u[i] = B!Unpie(longer[from[i]])
      BY <2>3, <2>4
    <3> HIDE DEF kept
    <3>4. Origin(from, u, longer)
      BY <2>4, <3>2, <3>3 DEF Origin, m
    <3> QED
      BY <2>2, <2>3, <3>1, <3>4 DEF longer, m
  <2>6. CASE e.tag \notin B!RemoveTags
    <3> DEFINE v == Append(u, B!Unpie(e))
               from2 == [i \in 1..m + 1 |-> IF i = m + 1 THEN n + 1 ELSE from[i]]
               kept2 == {i \in 1..Len(longer) : longer[i].tag \notin B!RemoveTags}
    <3>1. B!Updated(longer) = v
      BY <2>6, UpdatedStep DEF longer, u
    <3>2. /\ v \in Seq(B!Entry) /\ Len(v) = m + 1 /\ v[m + 1] = B!Unpie(e)
          /\ \A i \in 1..m : v[i] = u[i]
      <4> DEFINE f == B!Unpie(e)
      <4>1. f \in B!Entry
        BY UnpieFacts
      <4> HIDE DEF f
      <4>2. /\ Append(u, f) \in Seq(B!Entry) /\ Len(Append(u, f)) = Len(u) + 1
            /\ Append(u, f)[Len(u) + 1] = f /\ \A i \in 1..Len(u) : Append(u, f)[i] = u[i]
        BY <2>2, <4>1, AppendProperties
      <4> QED
        BY <4>2 DEF m, f
    <3>3. kept2 = kept \cup {n + 1}
      BY <2>2, <2>3, <2>6
    <3>4. \A k \in kept : k \in 1..n
      OBVIOUS
    <3> HIDE DEF kept, kept2, v
    <3>5. from2 \in [1..m + 1 -> kept2]
      BY <2>2, <2>4, <3>3
    <3>6. \A k \in kept2 : \E i \in 1..m + 1 : from2[i] = k
      <4> SUFFICES ASSUME NEW k \in kept2 PROVE \E i \in 1..m + 1 : from2[i] = k
        OBVIOUS
      <4>1. CASE k = n + 1
        BY <2>2, <4>1
      <4>2. CASE k \in kept
        <5>1. PICK i \in 1..m : from[i] = k
          BY <2>4, <4>2
        <5>2. i \in 1..m + 1 /\ i # m + 1
          BY <2>2
        <5> QED
          BY <5>1, <5>2
      <4> QED
        BY <3>3, <4>1, <4>2
    <3>7. \A i, j \in 1..m + 1 : i < j => from2[i] < from2[j]
      <4> SUFFICES ASSUME NEW i \in 1..m + 1, NEW j \in 1..m + 1, i < j
                   PROVE  from2[i] < from2[j]
        OBVIOUS
      <4>1. i \in 1..m /\ from[i] \in 1..n /\ from2[i] = from[i]
        BY <2>2, <2>4, <3>4
      <4>2. CASE j = m + 1
        BY <2>2, <4>1, <4>2
      <4>3. CASE j # m + 1
        <5>1. j \in 1..m
          BY <2>2, <4>3
        <5> QED
          BY <2>4, <4>1, <4>3, <5>1
      <4> QED
        BY <4>2, <4>3
    <3>8. \A i \in 1..m + 1 : v[i] = B!Unpie(longer[from2[i]])
      <4> SUFFICES ASSUME NEW i \in 1..m + 1 PROVE v[i] = B!Unpie(longer[from2[i]])
        OBVIOUS
      <4>1. CASE i = m + 1
        BY <2>3, <3>2, <4>1
      <4>2. CASE i # m + 1
        <5>1. i \in 1..m /\ from2[i] = from[i] /\ from[i] \in 1..n
          BY <2>2, <2>4, <3>4, <4>2
        <5> QED
          BY <2>3, <2>4, <3>2, <5>1
      <4> QED
        BY <4>1, <4>2
    <3> HIDE DEF from2
    <3>9. Origin(from2, v, longer)
      BY <3>2, <3>5, <3>6, <3>7, <3>8 DEF Origin, kept2
    <3>10. Len(v) =< Len(longer)
      BY <2>2, <2>3, <3>2
    <3> QED
      BY <2>3, <3>1, <3>2, <3>9, <3>10 DEF longer
  <2> QED
    BY <2>5, <2>6
<1>3. Seq(B!Entry) \subseteq T
  <2> HIDE DEF T
  <2> QED
    BY <1>1, <1>2, SequenceInduction
<1> QED
  BY <1>3

\* What patch_elf_file makes of any dynamic table.
LEMMA Patched ==
  ASSUME NEW slots \in Seq(B!Entry)
  PROVE  LET after == B!PatchElfFile(slots)
             old == B!Live(slots)
             new == B!Live(after.slots)
             kept == {i \in 1..Len(old) : old[i].tag \notin B!RemoveTags}
         IN /\ after.how # "patched" => after.slots = slots
            /\ after.how # "failed" =>
                 /\ Len(after.slots) = Len(slots)
                 /\ \E from \in [1..Len(new) -> kept] :
                      /\ \A k \in kept : \E i \in 1..Len(new) : from[i] = k
                      /\ \A i, j \in 1..Len(new) : i < j => from[i] < from[j]
                      /\ \A i \in 1..Len(new) :
                           /\ new[i].tag = old[from[i]].tag
                           /\ new[i].value = IF new[i].tag = "FLAGS_1"
                                             THEN old[from[i]].value \ {"PIE"}
                                             ELSE old[from[i]].value
            /\ after.how = "patched" =>
                 /\ \A i \in Len(new) + 1..Len(slots) : after.slots[i] = B!NullEntry
                 /\ B!PatchElfFile(after.slots).how = "kept"
<1> DEFINE after == B!PatchElfFile(slots)
           old == B!Live(slots)
           new == B!Live(after.slots)
           kept == {i \in 1..Len(old) : old[i].tag \notin B!RemoveTags}
           ShownBy(from) ==
             /\ from \in [1..Len(new) -> kept]
             /\ \A k \in kept : \E i \in 1..Len(new) : from[i] = k
             /\ \A i, j \in 1..Len(new) : i < j => from[i] < from[j]
             /\ \A i \in 1..Len(new) :
                  /\ new[i].tag = old[from[i]].tag
                  /\ new[i].value = IF new[i].tag = "FLAGS_1" THEN old[from[i]].value \ {"PIE"}
                                    ELSE old[from[i]].value
           ends == \E i \in 1..Len(slots) : slots[i].tag = "NULL"
           updated == B!Updated(old)
           padding == [i \in 1..Len(slots) - Len(updated) |-> B!NullEntry]
<1>1. ~ends => after = [slots |-> slots, how |-> "failed"]
  BY DEF B!PatchElfFile
<1>2. ends /\ ~B!Changed(old) => after = [slots |-> slots, how |-> "kept"]
  BY DEF B!PatchElfFile
<1>3. ends /\ B!Changed(old) => after = [slots |-> updated \o padding, how |-> "patched"]
  BY DEF B!PatchElfFile
<1>4. Len(slots) \in Nat
  BY LenProperties
<1>5. ASSUME ends
      PROVE  /\ old \in Seq(B!Entry) /\ Len(old) \in Nat /\ Len(old) < Len(slots)
             /\ \A i \in 1..Len(old) : old[i].tag # "NULL" /\ old[i] \in B!Entry
  <2>1. PICK n \in 1..Len(slots) : slots[n].tag = "NULL" /\ \A i \in 1..n - 1 : slots[i].tag # "NULL"
    BY <1>5, FirstNull
  <2>2. old = SubSeq(slots, 1, n - 1)
    BY <2>1, LiveEnds
  <2>3. n - 1 \in 0..Len(slots)
    BY <1>4
  <2>4. /\ SubSeq(slots, 1, n - 1) \in Seq(B!Entry) /\ Len(SubSeq(slots, 1, n - 1)) = n - 1
        /\ \A i \in 1..n - 1 : SubSeq(slots, 1, n - 1)[i] = slots[i]
    BY <2>3, StartOf
  <2> HIDE DEF old
  <2>5. old \in Seq(B!Entry) /\ Len(old) = n - 1 /\ \A i \in 1..n - 1 : old[i].tag # "NULL"
    BY <2>1, <2>2, <2>4
  <2> QED
    BY <1>4, <2>5, ElementOfSeq
<1> HIDE DEF old, after, updated, padding, ends
<1>6. ASSUME ends, ~B!Changed(old) PROVE \E from : ShownBy(from)
  <2> DEFINE same == [i \in 1..Len(old) |-> i]
  <2>1. \A i \in 1..Len(old) : old[i].tag \notin B!RemoveTags /\ B!Unpie(old[i]) = old[i]
    BY <1>6 DEF B!Changed
  <2>2. new = old
    BY <1>2, <1>6 DEF old
  <2>3. kept = 1..Len(old)
    BY <2>1
  <2>4. ASSUME NEW i \in 1..Len(old)
        PROVE  old[i].value = IF old[i].tag = "FLAGS_1" THEN old[i].value \ {"PIE"} ELSE old[i].value
    BY <1>5, <1>6, <2>1, UnpieFacts
  <2> HIDE DEF new, kept
  <2>5. ShownBy(same)
    BY <2>2, <2>3, <2>4
  <2> QED
    BY <2>5
<1>7. ASSUME ends, B!Changed(old)
      PROVE  /\ Len(after.slots) = Len(slots)
             /\ \E from : ShownBy(from)
             /\ \A i \in Len(new) + 1..Len(slots) : after.slots[i] = B!NullEntry
             /\ B!PatchElfFile(after.slots).how = "kept"
  <2> DEFINE S == B!Entry \cup {B!NullEntry}
             m == Len(updated)
             n == Len(slots)
             out == updated \o padding
  <2>1. updated \in Seq(B!Entry) /\ m =< Len(old) /\ m \in Nat
    BY <1>5, <1>7, UpdatedFacts, LenProperties DEF updated
  <2>2. PICK from : Origin(from, updated, old)
    BY <1>5, <1>7, UpdatedFacts DEF updated
  <2>3. /\ from \in [1..m -> kept]
        /\ \A k \in kept : \E i \in 1..m : from[i] = k
        /\ \A i, j \in 1..m : i < j => from[i] < from[j]
        /\ \A i \in 1..m : updated[i] = B!Unpie(old[from[i]])
    BY <2>2 DEF Origin
  <2>4. ASSUME NEW i \in 1..m
        PROVE  /\ updated[i].tag = old[from[i]].tag
               /\ updated[i].value = IF updated[i].tag = "FLAGS_1" THEN old[from[i]].value \ {"PIE"}
                                     ELSE old[from[i]].value
               /\ updated[i].tag # "NULL" /\ updated[i].tag \notin B!RemoveTags
               /\ B!Unpie(updated[i]) = updated[i]
    <3>1. from[i] \in kept
      BY <2>3
    <3>2. from[i] \in 1..Len(old) /\ old[from[i]].tag \notin B!RemoveTags
      BY <3>1
    <3>3. old[from[i]] \in B!Entry /\ old[from[i]].tag # "NULL"
      BY <1>5, <1>7, <3>2
    <3>4. updated[i] = B!Unpie(old[from[i]])
      BY <2>3
    <3> QED
      BY <3>2, <3>3, <3>4, UnpieFacts
  <2>5. n - m \in Nat /\ n - m > 0 /\ n \in Nat
    BY <1>4, <1>5, <1>7, <2>1
  <2>6. updated \in Seq(S) /\ padding \in Seq(S) /\ Len(padding) = n - m
    <3>1. updated \in Seq(S)
      BY <2>1, SeqMonotonic
    <3>2. padding \in [1..n - m -> S]
      BY DEF padding
    <3> HIDE DEF S, n, m
    <3> QED
      BY <2>5, <3>1, <3>2
  <2>7. \A i \in 1..n - m : padding[i] = B!NullEntry
    BY DEF padding
  <2> HIDE DEF n, S
  <2>8. /\ out \in Seq(S) /\ Len(out) = n
        /\ \A i \in 1..m : out[i] = updated[i]
        /\ \A i \in m + 1..n : out[i] = B!NullEntry
    <3>1. /\ out \in Seq(S) /\ Len(out) = m + Len(padding)
          /\ \A i \in 1..m + Len(padding) : out[i] = IF i =< m THEN updated[i] ELSE padding[i - m]
      BY <2>6, ConcatProperties
    <3> HIDE DEF out, m
    <3>2. ASSUME NEW i \in m + 1..n PROVE i - m \in 1..n - m /\ ~(i =< m) /\ i \in 1..m + (n - m)
      BY <2>1, <2>5
    <3>3. m + Len(padding) = n /\ m + (n - m) = n
      BY <2>1, <2>5, <2>6
    <3>4. ASSUME NEW i \in 1..m PROVE out[i] = updated[i]
      <4>1. i \in 1..n /\ i =< m
        BY <2>1, <2>5
      <4> QED
        BY <3>1, <3>3, <4>1
    <3>5. ASSUME NEW i \in m + 1..n PROVE out[i] = B!NullEntry
      BY <2>7, <3>1, <3>2, <3>3
    <3> QED
      BY <3>1, <3>3, <3>4, <3>5
  <2>9. after.slots = out /\ after.how = "patched"
    BY <1>3, <1>7
  <2> HIDE DEF out, m
  <2>10. B!NullEntry.tag = "NULL"
    BY DEF B!NullEntry
  <2>11. B!Live(out) = updated
    <3>1. m + 1 \in 1..Len(out) /\ out[m + 1].tag = "NULL" /\ (m + 1) - 1 = m
      BY <2>1, <2>5, <2>8, <2>10
    <3>2. \A i \in 1..m : out[i].tag # "NULL"
      BY <2>4, <2>8
    <3>3. B!Live(out) = SubSeq(out, 1, m)
      BY <2>8, <3>1, <3>2, LiveEnds
    <3>4. m \in 0..Len(out)
      BY <2>1, <2>5, <2>8
    <3>5. /\ SubSeq(out, 1, m) \in Seq(S) /\ Len(SubSeq(out, 1, m)) = m
          /\ \A i \in 1..m : SubSeq(out, 1, m)[i] = out[i]
      BY <2>8, <3>4, StartOf
    <3>6. SubSeq(out, 1, m) = updated
      BY <2>6, <2>8, <3>5, SeqEqual DEF m
    <3> QED
      BY <3>3, <3>6
  <2>12. ShownBy(from)
    BY <2>3, <2>4, <2>9, <2>11 DEF m
  <2>13. B!PatchElfFile(out).how = "kept"
    <3>1. ~B!Changed(B!Live(out))
      BY <2>4, <2>11 DEF B!Changed, m
    <3>2. \E i \in 1..Len(out) : out[i].tag = "NULL"
      BY <2>1, <2>5, <2>8, <2>10
    <3> QED
      BY <3>1, <3>2 DEF B!PatchElfFile
  <2>14. Len(after.slots) = Len(slots) /\ \A i \in Len(new) + 1..Len(slots) : after.slots[i] = B!NullEntry
    BY <2>8, <2>9, <2>11 DEF n, m
  <2> QED
    BY <2>9, <2>12, <2>13, <2>14
<1>8. after.how # "patched" => after.slots = slots
  BY <1>1, <1>2, <1>3
<1>9. after.how # "failed" => Len(after.slots) = Len(slots) /\ \E from : ShownBy(from)
  <2> HIDE DEF ShownBy
  <2> QED
    BY <1>1, <1>2, <1>6, <1>7
<1>10. after.how = "patched" =>
         /\ \A i \in Len(new) + 1..Len(slots) : after.slots[i] = B!NullEntry
         /\ B!PatchElfFile(after.slots).how = "kept"
  <2> HIDE DEF ShownBy, new
  <2> QED
    BY <1>1, <1>2, <1>7
<1> QED
  BY <1>8, <1>9, <1>10 DEF after, old

\* patch_elf.py keeps the live entries and is done after one run, for any table.
THEOREM PatchedOnce == CallSpec => []PatchOnce
<1>1. CallOK => PatchOnce
  BY Patched DEF CallOK, PatchOnce
<1> QED
  BY <1>1, CallsTyped, PTL

-----------------------------------------------------------------------------
(* read_http_headers *)

\* A C string is the start of its buffer up to the first NUL.
LEMMA CStringFacts ==
  ASSUME NEW E, NEW buffer \in Seq(E)
  PROVE  /\ CString(buffer) \in Seq(E) /\ Len(CString(buffer)) =< Len(buffer)
         /\ \A i \in 1..Len(CString(buffer)) : CString(buffer)[i] = buffer[i] /\ buffer[i] # NUL
         /\ \A n \in 0..Len(buffer) :
              (\A i \in 1..n : buffer[i] # NUL) => n =< Len(CString(buffer))
<1> DEFINE end == FirstOf(buffer, {NUL})
<1>1. CString(buffer) = IF end = 0 THEN buffer ELSE SubSeq(buffer, 1, end - 1)
  BY DEF CString
<1>2. /\ end \in 0..Len(buffer) /\ (end # 0 => buffer[end] = NUL)
      /\ \A i \in 1..Len(buffer) : buffer[i] = NUL => end # 0 /\ end =< i
  BY FirstOfFacts
<1>3. Len(buffer) \in Nat
  BY LenProperties
<1> HIDE DEF end
<1>4. CASE end = 0
  BY <1>1, <1>2, <1>3, <1>4
<1>5. CASE end # 0
  <2>1. end - 1 \in 0..Len(buffer)
    BY <1>2, <1>3, <1>5
  <2>2. /\ SubSeq(buffer, 1, end - 1) \in Seq(E) /\ Len(SubSeq(buffer, 1, end - 1)) = end - 1
        /\ \A i \in 1..end - 1 : SubSeq(buffer, 1, end - 1)[i] = buffer[i]
    BY <2>1, StartOf
  <2>3. \A i \in 1..end - 1 : buffer[i] # NUL
    BY <1>2, <1>3, <1>5
  <2>4. ASSUME NEW n \in 0..Len(buffer), \A i \in 1..n : buffer[i] # NUL PROVE n =< end - 1
    BY <1>2, <1>3, <1>5, <2>4
  <2> DEFINE c == SubSeq(buffer, 1, end - 1)
  <2>5. CString(buffer) = c
    BY <1>1, <1>5
  <2>6. end - 1 =< Len(buffer)
    BY <2>1
  <2>7. /\ c \in Seq(E) /\ Len(c) =< Len(buffer)
        /\ \A i \in 1..Len(c) : c[i] = buffer[i] /\ buffer[i] # NUL
        /\ \A n \in 0..Len(buffer) : (\A i \in 1..n : buffer[i] # NUL) => n =< Len(c)
    <3> HIDE DEF c
    <3> QED
      BY <2>2, <2>3, <2>4, <2>6 DEF c
  <2> QED
    BY <2>5, <2>7
<1> QED
  BY <1>4, <1>5

\* The verdict depends on the first five bytes alone.
Allowed(buffer) ==
  /\ Len(buffer) >= 5
  /\ buffer[1] \in {"GET", "POST"} /\ buffer[2] = " " /\ buffer[3] = "/" /\ buffer[4] = " "
  /\ buffer[5] = "HTTP/"

\* The verdict on a request depends on its first five words only.
LEMMA AllowedByStart ==
  ASSUME NEW E, NEW buffer \in Seq(E)
  PROVE  IsAccountRequestAllowed(buffer) <=> Allowed(buffer)
<1> DEFINE c == CString(buffer)
           line(method) == <<method, " ", "/", " ", "HTTP/">>
<1>1. c \in Seq(E) /\ Len(c) =< Len(buffer) /\ Len(c) \in Nat /\ Len(buffer) \in Nat
  BY CStringFacts, LenProperties
<1>2. \A i \in 1..Len(c) : c[i] = buffer[i]
  BY CStringFacts
<1>3. \A n \in 0..Len(buffer) : (\A i \in 1..n : buffer[i] # NUL) => n =< Len(c)
  BY CStringFacts
<1>4. IsAccountRequestAllowed(buffer) <=> \E method \in {"GET", "POST"} : IsPrefix(line(method), c)
  BY DEF IsAccountRequestAllowed
<1> HIDE DEF c
<1>5. ASSUME NEW method
      PROVE  IsPrefix(line(method), c) <=>
               /\ Len(c) >= 5 /\ c[1] = method /\ c[2] = " " /\ c[3] = "/" /\ c[4] = " "
               /\ c[5] = "HTTP/"
  <2> DEFINE l == line(method)
             E2 == E \cup {method, " ", "/", "HTTP/"}
             d == SubSeq(c, 1, 5)
  <2>1. /\ l \in Seq(E2) /\ Len(l) = 5 /\ l[1] = method /\ l[2] = " " /\ l[3] = "/" /\ l[4] = " "
        /\ l[5] = "HTTP/"
    OBVIOUS
  <2>2. c \in Seq(E2)
    BY <1>1, SeqMonotonic
  <2> HIDE DEF l, E2
  <2>3. SubSeq(l, 1, 5) = l
    BY <2>1, SubSeqFull
  <2>4. IsPrefix(l, c) <=> 5 =< Len(c) /\ l = d
    BY <2>1, <2>3 DEF IsPrefix
  <2>5. ASSUME 5 =< Len(c)
        PROVE  l = d <=> c[1] = method /\ c[2] = " " /\ c[3] = "/" /\ c[4] = " " /\ c[5] = "HTTP/"
    <3>1. 5 \in 0..Len(c)
      BY <1>1, <2>5
    <3>2. d \in Seq(E2) /\ Len(d) = 5 /\ \A i \in 1..5 : d[i] = c[i]
      BY <2>2, <3>1, StartOf
    <3> HIDE DEF d
    <3>3. d[1] = c[1] /\ d[2] = c[2] /\ d[3] = c[3] /\ d[4] = c[4] /\ d[5] = c[5]
      BY <3>2
    <3>4. ASSUME l[1] = d[1], l[2] = d[2], l[3] = d[3], l[4] = d[4], l[5] = d[5] PROVE l = d
      <4>1. \A i \in 1..5 : l[i] = d[i]
        BY <3>4
      <4> QED
        BY <2>1, <3>2, <4>1, SeqEqual
    <3> QED
      BY <2>1, <3>3, <3>4
  <2> QED
    BY <1>1, <2>4, <2>5 DEF l
<1>6. ASSUME Allowed(buffer) PROVE 5 =< Len(c)
  <2>1. \A i \in 1..5 : buffer[i] # NUL
    <3> SUFFICES ASSUME NEW i \in 1..5 PROVE buffer[i] # NUL
      OBVIOUS
    <3>1. i = 1 \/ i = 2 \/ i = 3 \/ i = 4 \/ i = 5
      OBVIOUS
    <3> QED
      BY <1>6, <3>1 DEF Allowed, NUL
  <2>2. 5 \in 0..Len(buffer)
    <3>1. Len(buffer) >= 5
      BY <1>6 DEF Allowed
    <3> QED
      BY <1>1, <3>1
  <2> QED
    BY <1>3, <2>1, <2>2
<1>7. 5 =< Len(c) =>
        c[1] = buffer[1] /\ c[2] = buffer[2] /\ c[3] = buffer[3] /\ c[4] = buffer[4] /\ c[5] = buffer[5]
  BY <1>1, <1>2
<1>8. 5 =< Len(c) => 5 =< Len(buffer)
  BY <1>1
<1> HIDE DEF line
<1> QED
  BY <1>1, <1>4, <1>5, <1>6, <1>7, <1>8 DEF Allowed

\* strstr finds the first place, if there is one.
LEMMA StrstrFound ==
  ASSUME NEW E, NEW text \in Seq(E), NEW t, Len(t) \in Nat
  PROVE  LET pos == Strstr(text, t)
         IN /\ pos \in Nat
            /\ pos # 0 => /\ pos \in 1..Len(text) - Len(t) + 1
                          /\ SubSeq(text, pos, pos + Len(t) - 1) = t
            /\ \A i \in 1..Len(text) - Len(t) + 1 :
                 SubSeq(text, i, i + Len(t) - 1) = t => pos # 0 /\ pos =< i
<1> DEFINE last == Len(text) - Len(t) + 1
           Here(i) == SubSeq(text, i, i + Len(t) - 1) = t
           starts == {i \in 1..last : Here(i)}
           pos == Strstr(text, t)
<1>1. pos = IF starts = {} THEN 0 ELSE Min(starts)
  BY DEF Strstr
<1>2. last \in Int
  BY LenProperties
<1> SUFFICES /\ pos \in Nat
             /\ pos # 0 => pos \in 1..last /\ Here(pos)
             /\ \A i \in 1..last : Here(i) => pos # 0 /\ pos =< i
  OBVIOUS
<1> HIDE DEF pos, last, Here
<1>3. starts \in SUBSET Nat
  BY <1>2
<1>4. CASE starts = {}
  BY <1>1, <1>4
<1>5. CASE starts # {}
  <2>1. pos \in starts /\ \A i \in starts : pos =< i
    BY <1>1, <1>3, <1>5, LeastNumber
  <2> QED
    BY <1>2, <2>1
<1> QED
  BY <1>4, <1>5

\* A blank line needs a line feed.
LEMMA BlankLineHasFeed ==
  ASSUME NEW E, NEW buffer \in Seq(E), HasBlankLine(buffer)
  PROVE  \E i \in 1..Len(buffer) : buffer[i] = "\n"
<1> DEFINE c == CString(buffer)
           has(t) == Strstr(c, t) # 0
<1>1. c \in Seq(E) /\ Len(c) =< Len(buffer) /\ Len(c) \in Nat /\ Len(buffer) \in Nat
  BY CStringFacts, LenProperties
<1>2. \A i \in 1..Len(c) : c[i] = buffer[i]
  BY CStringFacts
<1>3. Strstr(c, <<"\r", "\n", "\r", "\n">>) # 0 \/ Strstr(c, <<"\n", "\n">>) # 0
  BY DEF HasBlankLine
<1> HIDE DEF c
<1>4. ASSUME NEW t, Len(t) \in Nat, NEW j \in 1..Len(t), t[j] = "\n", Strstr(c, t) # 0
      PROVE  \E i \in 1..Len(c) : c[i] = "\n"
  <2> DEFINE pos == Strstr(c, t)
  <2>1. pos \in 1..Len(c) - Len(t) + 1 /\ SubSeq(c, pos, pos + Len(t) - 1) = t
    BY <1>1, <1>4, StrstrFound
  <2> HIDE DEF pos
  <2>2. pos \in Nat \ {0} /\ pos + Len(t) - 1 =< Len(c) /\ pos + j - 1 \in 1..Len(c)
    BY <1>1, <1>4, <2>1
  <2>3. \A i \in pos..pos + Len(t) - 1 : c[i] \in E
    BY <1>1, <1>4, <2>2, ElementOfSeq
  <2>4. j \in 1..(pos + Len(t) - 1) - pos + 1
    BY <1>4, <2>2
  <2>5. SubSeq(c, pos, pos + Len(t) - 1)[j] = c[pos + j - 1]
    BY <1>4, <2>2, <2>3, <2>4, SubSeqProperties
  <2> QED
    BY <1>4, <2>1, <2>2, <2>5
<1>5. \E i \in 1..Len(c) : c[i] = "\n"
  <2>1. CASE Strstr(c, <<"\r", "\n", "\r", "\n">>) # 0
    <3> DEFINE t == <<"\r", "\n", "\r", "\n">>
    <3>1. Len(t) \in Nat /\ 2 \in 1..Len(t) /\ t[2] = "\n"
      OBVIOUS
    <3> HIDE DEF t
    <3> QED
      BY <1>4, <2>1, <3>1 DEF t
  <2>2. CASE Strstr(c, <<"\n", "\n">>) # 0
    <3> DEFINE t == <<"\n", "\n">>
    <3>1. Len(t) \in Nat /\ 2 \in 1..Len(t) /\ t[2] = "\n"
      OBVIOUS
    <3> HIDE DEF t
    <3> QED
      BY <1>4, <2>2, <3>1 DEF t
  <2> QED
    BY <1>3, <2>1, <2>2
<1> QED
  BY <1>1, <1>2, <1>5

\* A request is judged by its first line: what is read up to a blank line is
\* judged as all of it.
LEMMA VerdictKept ==
  ASSUME NEW E, NEW room \in Seq(E), NEW k \in 0..Len(room),
         k = Len(room) \/ HasBlankLine(SubSeq(room, 1, k))
  PROVE  IsAccountRequestAllowed(SubSeq(room, 1, k)) <=> IsAccountRequestAllowed(room)
<1> DEFINE got == SubSeq(room, 1, k)
<1>1. got \in Seq(E) /\ Len(got) = k /\ \A i \in 1..k : got[i] = room[i]
  BY StartOf
<1>2. Len(room) \in Nat
  BY LenProperties
<1>3. IsAccountRequestAllowed(got) <=> Allowed(got)
  BY <1>1, AllowedByStart
<1>4. IsAccountRequestAllowed(room) <=> Allowed(room)
  BY AllowedByStart
<1> HIDE DEF got
<1>5. CASE k >= 5
  <2>1. /\ got[1] = room[1] /\ got[2] = room[2] /\ got[3] = room[3] /\ got[4] = room[4]
        /\ got[5] = room[5]
    BY <1>1, <1>2, <1>5
  <2>2. Len(got) >= 5 /\ Len(room) >= 5
    BY <1>1, <1>2, <1>5
  <2> QED
    BY <1>3, <1>4, <2>1, <2>2 DEF got, Allowed
<1>6. CASE k < 5
  <2>1. ~Allowed(got)
    <3>1. ~(Len(got) >= 5)
      BY <1>1, <1>6
    <3> QED
      BY <3>1 DEF Allowed
  <2>2. CASE k = Len(room)
    <3>1. ~(Len(room) >= 5)
      BY <1>6, <2>2
    <3>2. ~Allowed(room)
      BY <3>1 DEF Allowed
    <3> QED
      BY <1>3, <1>4, <2>1, <3>2 DEF got
  <2>3. CASE HasBlankLine(got)
    <3>1. PICK i \in 1..k : got[i] = "\n"
      BY <1>1, <2>3, BlankLineHasFeed
    <3>2. room[i] = "\n" /\ (i = 1 \/ i = 2 \/ i = 3 \/ i = 4)
      BY <1>1, <1>2, <1>6, <3>1
    <3>3. ~Allowed(room)
      BY <3>2 DEF Allowed
    <3> QED
      BY <1>3, <1>4, <2>1, <3>3 DEF got
  <2> QED
    BY <2>2, <2>3 DEF got
<1> QED
  BY <1>2, <1>5, <1>6

\* n is a place where the text that the pieces make up was cut.
Cut(pieces, n) == \E i \in 1..Len(pieces) : n = Len(FlattenSeq(SubSeq(pieces, 1, i)))

\* The cuts of one piece more.
LEMMA CutFacts ==
  ASSUME NEW E, NEW pieces \in Seq(Seq(E)), NEW piece \in Seq(E)
  PROVE  /\ \A n : Cut(pieces, n) => n \in Nat
         /\ \A n : Cut(Append(pieces, piece), n) <=>
              Cut(pieces, n) \/ n = Len(FlattenSeq(pieces)) + Len(piece)
         /\ pieces # <<>> => Cut(pieces, Len(FlattenSeq(pieces)))
<1> DEFINE longer == Append(pieces, piece)
           m == Len(pieces)
<1>1. /\ longer \in Seq(Seq(E)) /\ Len(longer) = m + 1 /\ m \in Nat
      /\ \A i \in 1..m : longer[i] = pieces[i]
  BY AppendProperties, LenProperties
<1>2. Len(FlattenSeq(longer)) = Len(FlattenSeq(pieces)) + Len(piece)
  BY FlattenAppend, FlattenType, ConcatProperties
<1> HIDE DEF longer
<1>3. ASSUME NEW i \in 1..m PROVE SubSeq(longer, 1, i) = SubSeq(pieces, 1, i)
  <2>1. i \in 0..m /\ i \in 0..Len(longer)
    BY <1>1
  <2>2. /\ SubSeq(longer, 1, i) \in Seq(Seq(E)) /\ SubSeq(pieces, 1, i) \in Seq(Seq(E))
        /\ Len(SubSeq(longer, 1, i)) = i /\ Len(SubSeq(pieces, 1, i)) = i
        /\ \A j \in 1..i : SubSeq(longer, 1, i)[j] = longer[j]
        /\ \A j \in 1..i : SubSeq(pieces, 1, i)[j] = pieces[j]
    BY <1>1, <2>1, StartOf
  <2>3. \A j \in 1..i : SubSeq(longer, 1, i)[j] = SubSeq(pieces, 1, i)[j]
    BY <1>1, <2>2
  <2> QED
    BY <2>2, <2>3, SeqEqual
<1>4. SubSeq(longer, 1, m + 1) = longer /\ SubSeq(pieces, 1, m) = pieces
  BY <1>1, SubSeqFull
<1>5. ASSUME NEW n, Cut(pieces, n) PROVE n \in Nat
  <2>1. PICK i \in 1..m : n = Len(FlattenSeq(SubSeq(pieces, 1, i)))
    BY <1>5 DEF Cut
  <2>2. i \in 0..m
    BY <1>1
  <2> QED
    BY <2>1, <2>2, StartOf, FlattenType, LenProperties
<1>6. ASSUME NEW n
      PROVE  Cut(longer, n) <=> Cut(pieces, n) \/ n = Len(FlattenSeq(longer))
  <2>1. 1..Len(longer) = 1..m \cup {m + 1}
    BY <1>1
  <2> QED
    BY <1>1, <1>3, <1>4, <2>1 DEF Cut
<1>7. ASSUME pieces # <<>> PROVE Cut(pieces, Len(FlattenSeq(pieces)))
  <2>1. m \in 1..m
    BY <1>1, <1>7, EmptySeq
  <2> QED
    BY <1>4, <2>1 DEF Cut
<1> QED
  BY <1>2, <1>5, <1>6, <1>7 DEF longer

\* No cut lies behind the end.
LEMMA CutBound ==
  ASSUME NEW E, NEW pieces \in Seq(Seq(E)), NEW n, Cut(pieces, n)
  PROVE  n =< Len(FlattenSeq(pieces))
<1> DEFINE T == {ss \in Seq(Seq(E)) : \A m : Cut(ss, m) => m =< Len(FlattenSeq(ss))}
<1>1. <<>> \in T
  <2>1. ASSUME NEW m PROVE ~Cut(<<>>, m)
    BY DEF Cut
  <2> QED
    BY <2>1, EmptySeq
<1>2. ASSUME NEW ss \in Seq(Seq(E)), NEW s \in Seq(E), ss \in T PROVE Append(ss, s) \in T
  <2>1. Len(FlattenSeq(Append(ss, s))) = Len(FlattenSeq(ss)) + Len(s)
    BY FlattenAppend, FlattenType, ConcatProperties
  <2>2. Len(FlattenSeq(ss)) \in Nat /\ Len(s) \in Nat
    BY FlattenType, LenProperties
  <2>3. ASSUME NEW m, Cut(Append(ss, s), m) PROVE m =< Len(FlattenSeq(Append(ss, s)))
    <3>1. CASE m = Len(FlattenSeq(ss)) + Len(s)
      BY <2>1, <2>2, <3>1
    <3>2. CASE Cut(ss, m)
      <4>1. m \in Nat /\ m =< Len(FlattenSeq(ss))
        BY <1>2, <3>2, CutFacts
      <4> QED
        BY <2>1, <2>2, <4>1
    <3> QED
      BY <2>3, <3>1, <3>2, CutFacts
  <2> QED
    BY <2>3, AppendProperties
<1>3. Seq(Seq(E)) \subseteq T
  <2> HIDE DEF T
  <2> QED
    BY <1>1, <1>2, SequenceInduction
<1> QED
  BY <1>3

\* The start of a text that was put together.
LEMMA StartOfConcat ==
  ASSUME NEW E, NEW s \in Seq(E), NEW t \in Seq(E)
  PROVE  /\ \A n \in 0..Len(s) : SubSeq(s \o t, 1, n) = SubSeq(s, 1, n)
         /\ \A n \in 0..Len(t) : SubSeq(s \o t, 1, Len(s) + n) = s \o SubSeq(t, 1, n)
<1> DEFINE all == s \o t
<1>1. all \in Seq(E) /\ Len(all) = Len(s) + Len(t) /\ Len(s) \in Nat /\ Len(t) \in Nat
  BY ConcatProperties, LenProperties
<1>2. \A i \in 1..Len(s) + Len(t) : all[i] = IF i =< Len(s) THEN s[i] ELSE t[i - Len(s)]
  BY ConcatProperties
<1> HIDE DEF all
<1>3. ASSUME NEW n \in 0..Len(s) PROVE SubSeq(all, 1, n) = SubSeq(s, 1, n)
  <2>1. n \in 0..Len(all)
    BY <1>1
  <2>2. /\ SubSeq(all, 1, n) \in Seq(E) /\ Len(SubSeq(all, 1, n)) = n
        /\ SubSeq(s, 1, n) \in Seq(E) /\ Len(SubSeq(s, 1, n)) = n
    BY <1>1, <2>1, StartOf
  <2>3. ASSUME NEW i \in 1..n PROVE SubSeq(all, 1, n)[i] = SubSeq(s, 1, n)[i]
    <3>1. SubSeq(all, 1, n)[i] = all[i] /\ SubSeq(s, 1, n)[i] = s[i]
      BY <1>1, <2>1, StartOf
    <3>2. i \in 1..Len(s) + Len(t) /\ i =< Len(s)
      BY <1>1
    <3> QED
      BY <1>2, <3>1, <3>2
  <2> QED
    BY <2>2, <2>3, SeqEqual
<1>4. ASSUME NEW n \in 0..Len(t) PROVE SubSeq(all, 1, Len(s) + n) = s \o SubSeq(t, 1, n)
  <2> DEFINE u == SubSeq(t, 1, n)
             v == SubSeq(all, 1, Len(s) + n)
  <2>1. Len(s) + n \in 0..Len(all)
    BY <1>1
  <2>2. v \in Seq(E) /\ Len(v) = Len(s) + n /\ \A i \in 1..Len(s) + n : v[i] = all[i]
    BY <1>1, <2>1, StartOf
  <2>3. u \in Seq(E) /\ Len(u) = n /\ \A i \in 1..n : u[i] = t[i]
    BY StartOf
  <2> HIDE DEF u, v
  <2>4. /\ s \o u \in Seq(E) /\ Len(s \o u) = Len(s) + n
        /\ \A i \in 1..Len(s) + n : (s \o u)[i] = IF i =< Len(s) THEN s[i] ELSE u[i - Len(s)]
    BY <2>3, ConcatProperties
  <2>5. ASSUME NEW i \in 1..Len(s) + n PROVE v[i] = (s \o u)[i]
    <3>1. i \in 1..Len(s) + Len(t)
      BY <1>1
    <3>2. v[i] = IF i =< Len(s) THEN s[i] ELSE t[i - Len(s)]
      BY <1>2, <2>2, <3>1
    <3>3. i > Len(s) => i - Len(s) \in 1..n
      BY <1>1
    <3>4. i \in Int /\ Len(s) \in Int
      BY <1>1
    <3> QED
      BY <2>3, <2>4, <3>2, <3>3, <3>4
  <2>6. v = s \o u
    BY <2>2, <2>4, <2>5, SeqEqual
  <2> QED
    BY <2>6 DEF u, v
<1> QED
  BY <1>3, <1>4 DEF all

\* An empty buffer has no blank line.
LEMMA NoBlankLineInNothing == ~HasBlankLine(<<>>)
<1>1. <<>> \in Seq(Byte) /\ Len(<<>>) = 0
  BY EmptySeq
<1>2. ASSUME HasBlankLine(<<>>) PROVE FALSE
  <2>1. \E i \in 1..Len(<<>>) : <<>>[i] = "\n"
    BY <1>1, <1>2, BlankLineHasFeed, Zenon
  <2> QED
    BY <1>1, <2>1
<1> QED
  BY <1>2

\* How much of the text made of the pieces is in the buffer: up to the first cut
\* behind a blank line, if there is one, but no more than there is room for.
ReadTo(pieces, size, k) ==
  LET text == FlattenSeq(pieces)
      limit == Min({Len(text), size - 1})
      Stop(n) == Cut(pieces, n) /\ n < limit /\ HasBlankLine(SubSeq(text, 1, n))
  IN (k = limit \/ Stop(k)) /\ k =< limit /\ \A n : Stop(n) => k =< n

\* How much of it is in the buffer after one more piece.
ReadMore(pieces, piece, size, k) ==
  LET text == FlattenSeq(pieces)
      more == Min({Len(piece), size - 1 - k})
      stopped == HasBlankLine(SubSeq(text, 1, k)) \/ k + 1 >= size
  IN /\ stopped =>
          /\ ReadTo(Append(pieces, piece), size, k)
          /\ SubSeq(text \o piece, 1, k) = SubSeq(text, 1, k)
     /\ ~stopped =>
          /\ ReadTo(Append(pieces, piece), size, k + more)
          /\ SubSeq(text \o piece, 1, k + more) = SubSeq(text, 1, k) \o SubSeq(piece, 1, more)

\* Where reading has got with one piece more.
LEMMA ReadToNext ==
  ASSUME NEW E, NEW pieces \in Seq(Seq(E)), NEW piece \in Seq(E), piece # <<>>,
         NEW size \in Nat \ {0}, NEW k \in Nat, ReadTo(pieces, size, k)
  PROVE  ReadMore(pieces, piece, size, k)
<1> DEFINE text == FlattenSeq(pieces)
           text2 == text \o piece
           t == Len(text)
           p == Len(piece)
           limit == Min({t, size - 1})
           limit2 == Min({t + p, size - 1})
           Blank(n) == HasBlankLine(SubSeq(text, 1, n))
           Blank2(n) == HasBlankLine(SubSeq(text2, 1, n))
           Stop(n) == Cut(pieces, n) /\ n < limit /\ Blank(n)
           Stop2(n) == (Cut(pieces, n) \/ n = t + p) /\ n < limit2 /\ Blank2(n)
           more == Min({p, size - 1 - k})
           Fits(j) == (j = limit2 \/ Stop2(j)) /\ j =< limit2 /\ \A n : Stop2(n) => j =< n
<1>1. /\ text \in Seq(E) /\ t \in Nat /\ p \in Nat \ {0}
      /\ text2 \in Seq(E) /\ Len(text2) = t + p
  BY FlattenType, LenProperties, EmptySeq, ConcatProperties
<1>2. FlattenSeq(Append(pieces, piece)) = text2
  BY FlattenAppend
<1>3. ASSUME NEW n \in 0..t PROVE SubSeq(text2, 1, n) = SubSeq(text, 1, n)
  BY <1>1, StartOfConcat
<1>4. (k = limit \/ Stop(k)) /\ k =< limit /\ \A n : Stop(n) => k =< n
  BY DEF ReadTo
<1>5. ASSUME NEW j, Fits(j)
      PROVE  ReadTo(Append(pieces, piece), size, j)
  <2>1. \A n : Cut(Append(pieces, piece), n) <=> Cut(pieces, n) \/ n = t + p
    BY CutFacts
  <2> QED
    BY <1>1, <1>2, <1>5, <2>1 DEF ReadTo
<1>6. /\ limit = IF t =< size - 1 THEN t ELSE size - 1
      /\ limit2 = IF t + p =< size - 1 THEN t + p ELSE size - 1
      /\ more = IF p =< size - 1 - k THEN p ELSE size - 1 - k
  <2>1. t \in Int /\ size - 1 \in Int /\ t + p \in Int /\ p \in Int /\ size - 1 - k \in Int
    BY <1>1
  <2> HIDE DEF t, p
  <2>2. limit = IF t =< size - 1 THEN t ELSE size - 1
    BY <2>1, ShorterOf
  <2>3. limit2 = IF t + p =< size - 1 THEN t + p ELSE size - 1
    BY <2>1, ShorterOf
  <2>4. more = IF p =< size - 1 - k THEN p ELSE size - 1 - k
    BY <2>1, ShorterOf
  <2> QED
    BY <2>2, <2>3, <2>4
<1>7. \A n : Cut(pieces, n) => n \in Nat /\ n =< t
  BY CutFacts, CutBound
<1>8. t > 0 => Cut(pieces, t)
  BY CutFacts, FlattenEmpty, EmptySeq
<1> HIDE DEF text, text2, t, p, limit, limit2, more
<1>9. k =< t
  BY <1>1, <1>4, <1>6
<1>10. ASSUME NEW n \in 0..t PROVE Blank2(n) <=> Blank(n)
  BY <1>3
<1>11. t = 0 => ~Blank(t)
  <2>1. t = 0 => SubSeq(text, 1, t) = <<>>
    BY <1>1, SubSeqEmpty
  <2> QED
    BY <2>1, NoBlankLineInNothing
<1>12. ASSUME NEW n, Stop2(n), n < limit PROVE Stop(n)
  BY <1>1, <1>6, <1>7, <1>10, <1>12
<1> HIDE DEF Blank, Blank2
<1>13. ASSUME Blank(k) \/ k + 1 >= size
       PROVE  ReadTo(Append(pieces, piece), size, k) /\ SubSeq(text2, 1, k) = SubSeq(text, 1, k)
  <2>1. limit \in Nat /\ limit =< limit2 /\ limit2 \in Nat
    BY <1>1, <1>6
  <2>2. k = limit2 \/ Stop2(k)
    <3>1. CASE k + 1 >= size
      BY <1>1, <1>4, <1>6, <3>1
    <3>2. CASE ~(k + 1 >= size) /\ Stop(k)
      BY <1>1, <1>6, <1>9, <1>10, <2>1, <3>2
    <3>3. CASE ~(k + 1 >= size) /\ k = limit
      <4>1. k = t /\ k < limit2
        BY <1>1, <1>6, <3>3
      <4>2. Blank(t) /\ t > 0
        BY <1>1, <1>11, <1>13, <3>3, <4>1
      <4>3. Cut(pieces, t) /\ Blank2(t)
        BY <1>1, <1>8, <1>10, <4>2
      <4> QED
        BY <4>1, <4>3
    <3> QED
      BY <1>4, <3>1, <3>2, <3>3
  <2>3. k =< limit2
    BY <1>4, <2>1
  <2>4. ASSUME NEW n, Stop2(n) PROVE k =< n
    <3>1. n \in Nat
      BY <1>1, <1>7, <2>4
    <3>2. CASE n < limit
      <4>1. Stop(n)
        BY <1>12, <2>4, <3>2
      <4> QED
        BY <1>4, <4>1
    <3>3. CASE ~(n < limit)
      BY <1>4, <2>1, <3>1, <3>3
    <3> QED
      BY <3>2, <3>3
  <2> HIDE DEF Stop, Stop2
  <2>5. ReadTo(Append(pieces, piece), size, k)
    <3>1. Fits(k)
      BY <2>2, <2>3, <2>4
    <3> HIDE DEF Fits
    <3> QED
      BY <1>5, <3>1
  <2>6. k \in 0..t
    BY <1>1, <1>9
  <2> QED
    BY <1>3, <2>5, <2>6
<1>14. ASSUME ~Blank(k), ~(k + 1 >= size)
       PROVE  /\ ReadTo(Append(pieces, piece), size, k + more)
              /\ SubSeq(text2, 1, k + more) = SubSeq(text, 1, k) \o SubSeq(piece, 1, more)
  <2>1. k = limit /\ k = t
    BY <1>1, <1>4, <1>6, <1>14
  <2>2. k + more = limit2 /\ limit2 \in Nat /\ more \in 0..p /\ limit2 =< t + p
    BY <1>1, <1>6, <1>14, <2>1
  <2>3. ASSUME NEW n, Stop2(n) PROVE FALSE
    <3>1. Cut(pieces, n) /\ n =< t /\ n \in Nat
      BY <1>1, <1>7, <2>2, <2>3
    <3>2. CASE n = t
      BY <1>10, <1>14, <2>1, <2>3, <3>1, <3>2
    <3>3. CASE n < t
      <4>1. Stop(n)
        BY <1>12, <2>1, <2>3, <3>3
      <4> QED
        BY <1>4, <2>1, <3>1, <3>3, <4>1
    <3> QED
      BY <1>1, <3>1, <3>2, <3>3
  <2> HIDE DEF Stop, Stop2
  <2>4. ReadTo(Append(pieces, piece), size, k + more)
    <3>1. Fits(k + more)
      BY <2>2, <2>3
    <3> HIDE DEF Fits
    <3> QED
      BY <1>5, <3>1
  <2>5. SubSeq(text, 1, t) = text
    BY <1>1, SubSeqFull DEF t
  <2>6. SubSeq(text2, 1, Len(text) + more) = text \o SubSeq(piece, 1, more)
    <3>1. more \in 0..Len(piece) /\ text \in Seq(E)
      BY <1>1, <2>2 DEF p
    <3> HIDE DEF more
    <3>2. SubSeq(text \o piece, 1, Len(text) + more) = text \o SubSeq(piece, 1, more)
      BY <3>1, StartOfConcat
    <3> QED
      BY <3>2 DEF text2
  <2> QED
    BY <2>1, <2>4, <2>5, <2>6 DEF t
<1> HIDE DEF Stop, Stop2
<1> QED
  BY <1>13, <1>14 DEF text, text2, t, p, more, Blank, ReadMore

\* What read_http_headers keeps.
Got == [buffer : Seq(Byte), done : BOOLEAN]
\* The state before the first read.
NothingRead == [buffer |-> <<>>, done |-> FALSE]

\* What one read does, while there is room and after it.
LEMMA ReadPieceStep ==
  ASSUME NEW size \in Nat \ {0}, NEW got \in Got, NEW piece \in Seq(Byte)
  PROVE  LET n == Len(got.buffer)
             all == got.buffer \o SubSeq(piece, 1, Min({Len(piece), size - 1 - n}))
             next == ReadPiece(size)[got][piece]
         IN /\ next \in Got
            /\ got.done \/ n + 1 >= size => next = got
            /\ ~got.done /\ ~(n + 1 >= size) => next = [buffer |-> all, done |-> HasBlankLine(all)]
<1> DEFINE n == Len(got.buffer)
           more == Min({Len(piece), size - 1 - n})
           new == SubSeq(piece, 1, more)
           all == got.buffer \o new
           next == ReadPiece(size)[got][piece]
<1>1. next = IF got.done \/ n + 1 >= size THEN got ELSE [buffer |-> all, done |-> HasBlankLine(all)]
  BY DEF ReadPiece, Searched, Got
<1>2. n \in Nat /\ Len(piece) \in Nat /\ got.buffer \in Seq(Byte) /\ got.done \in BOOLEAN
  BY LenProperties DEF Got
<1>3. ASSUME ~(n + 1 >= size) PROVE all \in Seq(Byte)
  <2>1. size - 1 - n \in Nat
    BY <1>2, <1>3
  <2> HIDE DEF n
  <2>2. more = IF Len(piece) =< size - 1 - n THEN Len(piece) ELSE size - 1 - n
    <3>1. Len(piece) \in Int /\ size - 1 - n \in Int
      BY <1>2, <2>1
    <3> QED
      BY <3>1, ShorterOf
  <2> HIDE DEF more
  <2>3. more \in 0..Len(piece)
    BY <1>2, <2>1, <2>2
  <2>4. new \in Seq(Byte)
    BY <2>3, StartOf
  <2> QED
    BY <1>2, <2>4, ConcatProperties
<1>4. HasBlankLine(all) \in BOOLEAN
  BY DEF HasBlankLine
<1> HIDE DEF all, next, n
<1>5. next \in Got
  BY <1>1, <1>3, <1>4 DEF Got
<1> QED
  BY <1>1, <1>5 DEF all, next, n, more, new

\* Reading is a loop over the pieces.
LEMMA ReadPieceIsLoop ==
  ASSUME NEW size \in Nat \ {0}
  PROVE  IsLoop(Got, Seq(Byte), ReadPiece(size), NothingRead)
<1>1. NothingRead \in Got
  BY EmptySeq DEF NothingRead, Got
<1>2. ASSUME NEW got \in Got, NEW piece \in Seq(Byte) PROVE ReadPiece(size)[got][piece] \in Got
  BY ReadPieceStep
<1>3. ReadPiece(size) \in [Got -> [Seq(Byte) -> Got]]
  <2>1. DOMAIN ReadPiece(size) = Got /\ ReadPiece(size) = [got \in Got |-> ReadPiece(size)[got]]
    BY DEF ReadPiece, Got
  <2>2. ASSUME NEW got \in Got
        PROVE  ReadPiece(size)[got] = [piece \in Seq(Byte) |-> ReadPiece(size)[got][piece]]
    BY DEF ReadPiece, Got
  <2>3. ASSUME NEW got \in Got PROVE ReadPiece(size)[got] \in [Seq(Byte) -> Got]
    BY <1>2, <2>2
  <2> QED
    BY <2>1, <2>3
<1> QED
  BY <1>1, <1>3 DEF IsLoop

\* After any pieces the buffer holds the text up to where reading has got.
LEMMA PiecesRead ==
  ASSUME NEW size \in Nat \ {0}, NEW pieces \in Seq(Seq(Byte) \ {<<>>})
  PROVE  \E k \in Nat : /\ ReadTo(pieces, size, k)
                        /\ ReadHttpHeaders(pieces, size) = SubSeq(FlattenSeq(pieces), 1, k)
<1> DEFINE P == Seq(Byte) \ {<<>>}
           Kept(ss) == Fold(ReadPiece(size), NothingRead, ss)
           Good(ss) == \E k \in Nat : /\ ReadTo(ss, size, k)
                                      /\ Kept(ss).buffer = SubSeq(FlattenSeq(ss), 1, k)
                                      /\ Kept(ss).done = HasBlankLine(Kept(ss).buffer)
           T == {ss \in Seq(P) : Good(ss)}
<1>1. IsLoop(Got, Seq(Byte), ReadPiece(size), NothingRead)
  BY ReadPieceIsLoop
<1>2. ASSUME NEW ss \in Seq(P) PROVE ss \in Seq(Seq(Byte))
  BY SeqMonotonic
<1>3. <<>> \in T
  <2>1. Kept(<<>>) = NothingRead
    BY <1>1, FoldEmpty
  <2>2. FlattenSeq(<<>>) = <<>> /\ Len(<<>>) = 0
    BY FlattenEmpty
  <2>3. SubSeq(<<>>, 1, 0) = <<>>
    BY SubSeqEmpty
  <2>4. ReadTo(<<>>, size, 0)
    <3>1. size - 1 \in Nat
      OBVIOUS
    <3>2. Min({0, size - 1}) = 0
      BY <3>1, ShorterOf
    <3>3. \A n : ~Cut(<<>>, n)
      BY DEF Cut
    <3>4. Min({Len(FlattenSeq(<<>>)), size - 1}) = 0
      BY <2>2, <3>2
    <3> QED
      BY <3>3, <3>4 DEF ReadTo
  <2>5. Kept(<<>>).done = HasBlankLine(Kept(<<>>).buffer) /\ Kept(<<>>).buffer = <<>>
    <3>1. HasBlankLine(<<>>) = FALSE
      BY NoBlankLineInNothing DEF HasBlankLine
    <3>2. Kept(<<>>).buffer = <<>> /\ Kept(<<>>).done = FALSE
      BY <2>1 DEF NothingRead
    <3> HIDE DEF Kept
    <3> QED
      BY <3>1, <3>2
  <2>6. <<>> \in Seq(P)
    BY EmptySeq
  <2> HIDE DEF Kept, P
  <2>7. Good(<<>>)
    BY <2>2, <2>3, <2>4, <2>5
  <2> QED
    BY <2>6, <2>7
<1>4. ASSUME NEW ss \in Seq(P), NEW piece \in P, ss \in T PROVE Append(ss, piece) \in T
  <2> DEFINE g == Kept(ss)
             longer == Append(ss, piece)
             text == FlattenSeq(ss)
  <2>1. PICK k \in Nat : /\ ReadTo(ss, size, k) /\ g.buffer = SubSeq(text, 1, k)
                         /\ g.done = HasBlankLine(g.buffer)
    BY <1>4
  <2>2. ss \in Seq(Seq(Byte)) /\ piece \in Seq(Byte) /\ piece # <<>>
    BY <1>2
  <2>3. g \in Got
    BY <1>1, <2>2, FoldType
  <2>4. Kept(longer) = ReadPiece(size)[g][piece]
    BY <1>1, <2>2, FoldAppend
  <2>5. Len(g.buffer) = k
    <3>1. text \in Seq(Byte) /\ Len(text) \in Nat
      BY <2>2, FlattenType, LenProperties
    <3>2. k =< Min({Len(text), size - 1})
      BY <2>1 DEF ReadTo
    <3>3. Min({Len(text), size - 1}) = IF Len(text) =< size - 1 THEN Len(text) ELSE size - 1
      <4>1. Len(text) \in Int /\ size - 1 \in Int
        BY <3>1
      <4> HIDE DEF text
      <4> QED
        BY <4>1, ShorterOf
    <3>4. k \in 0..Len(text)
      BY <3>1, <3>2, <3>3
    <3> QED
      BY <2>1, <3>1, <3>4, StartOf
  <2>6. FlattenSeq(longer) = text \o piece
    BY <2>2, FlattenAppend
  <2>7. longer \in Seq(P)
    BY AppendProperties
  <2> DEFINE more == Min({Len(piece), size - 1 - k})
             all == g.buffer \o SubSeq(piece, 1, more)
             next == ReadPiece(size)[g][piece]
  <2>8. /\ g.done \/ k + 1 >= size => next = g
        /\ ~g.done /\ ~(k + 1 >= size) => next = [buffer |-> all, done |-> HasBlankLine(all)]
    BY <2>2, <2>3, <2>5, ReadPieceStep
  <2>9. /\ HasBlankLine(SubSeq(text, 1, k)) \/ k + 1 >= size =>
             ReadTo(longer, size, k) /\ SubSeq(text \o piece, 1, k) = SubSeq(text, 1, k)
        /\ ~(HasBlankLine(SubSeq(text, 1, k)) \/ k + 1 >= size) =>
             /\ ReadTo(longer, size, k + more)
             /\ SubSeq(text \o piece, 1, k + more) = SubSeq(text, 1, k) \o SubSeq(piece, 1, more)
    <3>1. ReadMore(ss, piece, size, k)
      <4> HIDE DEF g, Kept, P, T
      <4> QED
        BY <2>1, <2>2, ReadToNext
    <3> QED
      BY <3>1 DEF ReadMore
  <2>10. k + more \in Nat \/ k + 1 >= size
    <3>1. Len(piece) \in Nat
      BY <2>2, LenProperties
    <3>2. more = IF Len(piece) =< size - 1 - k THEN Len(piece) ELSE size - 1 - k
      <4>1. Len(piece) \in Int /\ size - 1 - k \in Int
        BY <3>1
      <4> QED
        BY <4>1, ShorterOf
    <3> HIDE DEF more
    <3> QED
      BY <3>1, <3>2
  <2> HIDE DEF g, longer, text, more, next, P, Kept, T
  <2>11. Kept(longer) = next
    BY <2>4 DEF next
  <2>12. CASE HasBlankLine(SubSeq(text, 1, k)) \/ k + 1 >= size
    <3>1. next = g
      BY <2>1, <2>8, <2>12
    <3>2. /\ ReadTo(longer, size, k) /\ Kept(longer).buffer = SubSeq(FlattenSeq(longer), 1, k)
          /\ Kept(longer).done = HasBlankLine(Kept(longer).buffer)
      BY <2>1, <2>6, <2>9, <2>11, <2>12, <3>1
    <3> QED
      BY <2>7, <3>2 DEF T, longer
  <2>13. CASE ~HasBlankLine(SubSeq(text, 1, k)) /\ ~(k + 1 >= size)
    <3>1. next = [buffer |-> all, done |-> HasBlankLine(all)]
      BY <2>1, <2>8, <2>13
    <3>2. ReadTo(longer, size, k + more) /\ all = SubSeq(FlattenSeq(longer), 1, k + more)
      BY <2>1, <2>6, <2>9, <2>13
    <3> HIDE DEF all
    <3>3. /\ ReadTo(longer, size, k + more)
          /\ Kept(longer).buffer = SubSeq(FlattenSeq(longer), 1, k + more)
          /\ Kept(longer).done = HasBlankLine(Kept(longer).buffer)
      <4>1. Kept(longer).buffer = all /\ Kept(longer).done = HasBlankLine(all)
        BY <2>11, <3>1
      <4> QED
        BY <3>2, <4>1
    <3> QED
      BY <2>7, <2>10, <2>13, <3>3 DEF T, longer
  <2> QED
    BY <2>12, <2>13 DEF longer
<1>5. Seq(P) \subseteq T
  <2> HIDE DEF T, P
  <2> QED
    BY <1>3, <1>4, SequenceInduction
<1>6. ReadHttpHeaders(pieces, size) = Kept(pieces).buffer
  BY DEF ReadHttpHeaders, NothingRead
<1> HIDE DEF Kept
<1> QED
  BY <1>5, <1>6

\* Reading stops where it should, and the request is judged as all of it would be.
LEMMA HeadersRead ==
  ASSUME NEW size \in Nat \ {0}, NEW pieces \in Seq(Seq(Byte) \ {<<>>})
  PROVE  LET text == FlattenSeq(pieces)
             room == SubSeq(text, 1, Min({Len(text), size - 1}))
             cuts == {Len(FlattenSeq(SubSeq(pieces, 1, i))) : i \in 1..Len(pieces)}
             stops == {n \in cuts : n < Len(room) /\ HasBlankLine(SubSeq(text, 1, n))}
             got == ReadHttpHeaders(pieces, size)
         IN /\ got = SubSeq(text, 1, Min(stops \cup {Len(room)}))
            /\ IsAccountRequestAllowed(got) <=> IsAccountRequestAllowed(room)
<1> DEFINE text == FlattenSeq(pieces)
           limit == Min({Len(text), size - 1})
           room == SubSeq(text, 1, limit)
           cuts == {Len(FlattenSeq(SubSeq(pieces, 1, i))) : i \in 1..Len(pieces)}
           stops == {n \in cuts : n < Len(room) /\ HasBlankLine(SubSeq(text, 1, n))}
           got == ReadHttpHeaders(pieces, size)
<1>1. text \in Seq(Byte) /\ Len(text) \in Nat /\ pieces \in Seq(Seq(Byte))
  BY SeqMonotonic, FlattenType, LenProperties
<1>2. PICK k \in Nat : ReadTo(pieces, size, k) /\ got = SubSeq(text, 1, k)
  BY PiecesRead
<1>3. limit = IF Len(text) =< size - 1 THEN Len(text) ELSE size - 1
  <2>1. Len(text) \in Int /\ size - 1 \in Int
    BY <1>1
  <2> HIDE DEF text
  <2> QED
    BY <2>1, ShorterOf
<1>4. limit \in 0..Len(text)
  BY <1>1, <1>3
<1>5. room \in Seq(Byte) /\ Len(room) = limit
  BY <1>1, <1>4, StartOf
<1>6. \A n : n \in cuts <=> Cut(pieces, n)
  BY DEF Cut
<1> HIDE DEF cuts
<1>7. /\ k = limit \/ (Cut(pieces, k) /\ k < limit /\ HasBlankLine(SubSeq(text, 1, k)))
      /\ k =< limit
      /\ \A n : Cut(pieces, n) /\ n < limit /\ HasBlankLine(SubSeq(text, 1, n)) => k =< n
  BY <1>2 DEF ReadTo
<1>8. \A n : n \in stops <=> Cut(pieces, n) /\ n < limit /\ HasBlankLine(SubSeq(text, 1, n))
  BY <1>5, <1>6
<1>9. \A n : Cut(pieces, n) => n \in Nat
  BY <1>1, CutFacts, EmptySeq
<1> HIDE DEF stops, room, limit, text, got
<1>10. Min(stops \cup {Len(room)}) = k
  <2> DEFINE bounds == stops \cup {limit}
  <2>1. bounds \in SUBSET Nat /\ bounds # {}
    BY <1>1, <1>4, <1>8, <1>9
  <2>2. k \in bounds /\ \A n \in bounds : k =< n
    BY <1>7, <1>8
  <2> HIDE DEF bounds
  <2>3. Min(bounds) \in bounds /\ \A n \in bounds : Min(bounds) =< n
    BY <2>1, LeastNumber
  <2>4. Min(bounds) = k
    <3> DEFINE j == Min(bounds)
    <3>1. j \in bounds /\ j =< k /\ k =< j
      BY <2>2, <2>3
    <3>2. j \in Nat
      BY <2>1, <2>3
    <3> HIDE DEF j
    <3>3. j = k
      BY <3>1, <3>2
    <3> QED
      BY <3>3 DEF j
  <2> QED
    BY <1>5, <2>4 DEF bounds
<1>11. SubSeq(room, 1, k) = got
  <2>1. k \in 0..limit /\ k \in 0..Len(text)
    BY <1>1, <1>4, <1>7
  <2>2. /\ SubSeq(room, 1, k) \in Seq(Byte) /\ Len(SubSeq(room, 1, k)) = k
        /\ \A i \in 1..k : SubSeq(room, 1, k)[i] = room[i]
    BY <1>5, <2>1, StartOf
  <2>3. SubSeq(text, 1, k) \in Seq(Byte) /\ Len(SubSeq(text, 1, k)) = k
        /\ \A i \in 1..k : SubSeq(text, 1, k)[i] = text[i]
    BY <1>1, <2>1, StartOf
  <2>4. \A i \in 1..limit : room[i] = text[i]
    BY <1>1, <1>4, StartOf DEF room
  <2>5. \A i \in 1..k : SubSeq(room, 1, k)[i] = SubSeq(text, 1, k)[i]
    BY <1>4, <2>1, <2>2, <2>3, <2>4
  <2>6. SubSeq(room, 1, k) = SubSeq(text, 1, k)
    BY <2>2, <2>3, <2>5, SeqEqual
  <2> QED
    BY <1>2, <2>6
<1>12. IsAccountRequestAllowed(got) <=> IsAccountRequestAllowed(room)
  <2>1. k \in 0..Len(room)
    BY <1>4, <1>5, <1>7
  <2>2. k = Len(room) \/ HasBlankLine(SubSeq(room, 1, k))
    BY <1>2, <1>5, <1>7, <1>11
  <2> QED
    BY <1>5, <1>11, <2>1, <2>2, VerdictKept
<1> QED
  BY <1>2, <1>10, <1>12 DEF stops, room, limit, text, got, cuts

\* read_http_headers stops where it should however the request is cut, for any request
\* and any size of the buffer.
THEOREM HeaderEndsFound == CallSpec => []HeaderEndFound
<1>1. CallOK => HeaderEndFound
  BY HeadersRead DEF CallOK, HeaderEndFound
<1> QED
  BY <1>1, CallsTyped, PTL

\* A loop over two sequences goes on with the second where the first left it.
LEMMA FoldConcat ==
  ASSUME NEW S, NEW E, NEW step, NEW base, IsLoop(S, E, step, base), NEW s \in Seq(E),
         NEW t \in Seq(E)
  PROVE  Fold(step, base, s \o t) = Fold(step, Fold(step, base, s), t)
<1> DEFINE mid == Fold(step, base, s)
           T == {u \in Seq(E) : Fold(step, base, s \o u) = Fold(step, mid, u)}
<1>1. IsLoop(S, E, step, mid)
  <2>1. mid \in S
    BY FoldType
  <2> QED
    BY <2>1 DEF IsLoop
<1> HIDE DEF mid
<1>2. <<>> \in T
  <2>1. s \o <<>> = s /\ <<>> \in Seq(E)
    BY ConcatEmptySeq, EmptySeq
  <2>2. Fold(step, mid, <<>>) = mid
    BY <1>1, FoldEmpty
  <2> QED
    BY <2>1, <2>2 DEF mid
<1>3. ASSUME NEW u \in Seq(E), NEW e \in E, u \in T PROVE Append(u, e) \in T
  <2>1. s \o Append(u, e) = Append(s \o u, e)
    <3>1. Append(u, e) = u \o <<e>> /\ <<e>> \in Seq(E)
      BY AppendIsConcat
    <3>2. s \o u \in Seq(E)
      BY ConcatProperties
    <3>3. Append(s \o u, e) = (s \o u) \o <<e>>
      BY <3>2, AppendIsConcat
    <3>4. (s \o u) \o <<e>> = s \o (u \o <<e>>)
      BY <3>1, ConcatAssociative
    <3> QED
      BY <3>1, <3>3, <3>4
  <2>2. s \o u \in Seq(E)
    BY ConcatProperties
  <2>3. Fold(step, base, Append(s \o u, e)) = step[Fold(step, base, s \o u)][e]
    <3> DEFINE v == s \o u
    <3>1. v \in Seq(E)
      BY <2>2
    <3> HIDE DEF v, T
    <3>2. Fold(step, base, Append(v, e)) = step[Fold(step, base, v)][e]
      BY <3>1, FoldAppend
    <3> QED
      BY <3>2 DEF v
  <2>4. Fold(step, mid, Append(u, e)) = step[Fold(step, mid, u)][e]
    BY <1>1, FoldAppend
  <2>5. Append(u, e) \in Seq(E)
    BY AppendProperties
  <2> QED
    BY <1>3, <2>1, <2>3, <2>4, <2>5
<1>4. Seq(E) \subseteq T
  <2> HIDE DEF T
  <2> QED
    BY <1>2, <1>3, SequenceInduction
<1> QED
  BY <1>4 DEF mid

\* A loop over one element is one round.
LEMMA FoldOne ==
  ASSUME NEW S, NEW E, NEW step, NEW base, IsLoop(S, E, step, base), NEW e \in E
  PROVE  Fold(step, base, <<e>>) = step[base][e]
<1> DEFINE z == <<>>
<1>1. z \in Seq(E) /\ <<e>> = Append(z, e)
  BY EmptySeq
<1>2. Fold(step, base, z) = base
  BY FoldEmpty
<1> HIDE DEF z
<1>3. Fold(step, base, Append(z, e)) = step[Fold(step, base, z)][e]
  BY <1>1, FoldAppend
<1> QED
  BY <1>1, <1>2, <1>3

-----------------------------------------------------------------------------
(* Reading JSON *)

\* The reader within a string of which it has the text, and between two strings.
In(s, done, text) == s \in Reading /\ s.mode = "in" /\ s.done = done /\ s.text = text
Out(s, done) == s \in Reading /\ s.mode = "out" /\ s.done = done

\* What it keeps after some more of the JSON text.
Read(s, json) == Fold(ReadByte, s, json)

\* The bytes that the code names are bytes.
LEMMA Named ==
  /\ NUL \in Byte /\ Quote \in Byte /\ Backslash \in Byte
  /\ DOMAIN Letter \subseteq Byte /\ DOMAIN Hex \subseteq Byte /\ "?" \in Byte /\ "u" \in Byte
  /\ \A b \in DOMAIN Letter : Letter[b] \in Byte /\ Letter[b] # "u"
  /\ "0" \in Byte /\ "1" \in Byte /\ "f" \in Byte /\ ":" \in Byte /\ "," \in Byte
  /\ "{" \in Byte /\ "}" \in Byte
BY ByteAssumption DEF NUL, Quote, Backslash, Letter, Hex

\* No two bytes are escaped alike, so an escape has one meaning.
LEMMA EscapesKnown ==
  /\ \A b : Unescaped(b) \in Byte /\ Shown(b) \in Byte \cup {b}
  /\ \A digits : Unhexed(digits) \in Byte
  /\ \A b \in DOMAIN Letter : Unescaped(Letter[b]) = b
  /\ \A b \in DOMAIN Hex : Unhexed(Hex[b]) = b
<1>1. \A b \in DOMAIN Letter : Unescaped(Letter[b]) = b
  <2> SUFFICES ASSUME NEW b \in DOMAIN Letter PROVE Unescaped(Letter[b]) = b
    OBVIOUS
  <2>1. \A c \in DOMAIN Letter : Letter[c] = Letter[b] => c = b
    BY DEF Letter, Quote, Backslash
  <2> QED
    BY <2>1 DEF Unescaped
<1>2. \A b \in DOMAIN Hex : Unhexed(Hex[b]) = b
  <2> SUFFICES ASSUME NEW b \in DOMAIN Hex PROVE Unhexed(Hex[b]) = b
    OBVIOUS
  <2>1. \A c \in DOMAIN Hex : Hex[c] = Hex[b] => c = b
    BY DEF Hex
  <2> QED
    BY <2>1 DEF Unhexed
<1>3. \A b : Unescaped(b) \in Byte /\ Shown(b) \in Byte \cup {b}
  BY Named DEF Unescaped, Shown
<1>4. \A digits : Unhexed(digits) \in Byte
  BY Named DEF Unhexed
<1> QED
  BY <1>1, <1>2, <1>3, <1>4

\* One byte, by the mode in which the reader is.
LEMMA AfterByteIs ==
  ASSUME NEW s \in Reading, NEW b \in Byte
  PROVE  /\ s.mode = "out" /\ b # Quote => AfterByte(s, b) = s
         /\ s.mode = "out" /\ b = Quote =>
              AfterByte(s, b) = [mode |-> "in", done |-> s.done, text |-> <<>>, digits |-> s.digits]
         /\ s.mode = "in" /\ b = Quote =>
              AfterByte(s, b) = [mode |-> "out", done |-> Append(s.done, s.text), text |-> s.text,
                                digits |-> s.digits]
         /\ s.mode = "in" /\ b = Backslash =>
              AfterByte(s, b) = [mode |-> "escape", done |-> s.done, text |-> s.text,
                                digits |-> s.digits]
         /\ s.mode = "in" /\ b \notin {Quote, Backslash} =>
              AfterByte(s, b) = [mode |-> "in", done |-> s.done, text |-> Append(s.text, Shown(b)),
                                digits |-> s.digits]
         /\ s.mode = "escape" /\ b = "u" =>
              AfterByte(s, b) = [mode |-> "hex", done |-> s.done, text |-> s.text, digits |-> <<>>]
         /\ s.mode = "escape" /\ b # "u" =>
              AfterByte(s, b) = [mode |-> "in", done |-> s.done,
                                text |-> Append(s.text, Unescaped(b)), digits |-> s.digits]
         /\ s.mode = "hex" /\ Len(s.digits) < 3 =>
              AfterByte(s, b) = [mode |-> "hex", done |-> s.done, text |-> s.text,
                                digits |-> Append(s.digits, b)]
         /\ s.mode = "hex" /\ ~(Len(s.digits) < 3) =>
              AfterByte(s, b) = [mode |-> "in", done |-> s.done,
                                text |-> Append(s.text, Unhexed(Append(s.digits, b))),
                                digits |-> s.digits]
<1>1. s = [mode |-> s.mode, done |-> s.done, text |-> s.text, digits |-> s.digits]
  BY DEF Reading
<1>2. CASE s.mode = "out"
  BY <1>1, <1>2 DEF AfterByte, Reading
<1>3. CASE s.mode = "in"
  BY <1>1, <1>3 DEF AfterByte, Reading, Quote, Backslash
<1>4. CASE s.mode = "escape"
  BY <1>1, <1>4 DEF AfterByte, Reading
<1>5. CASE s.mode = "hex"
  BY <1>1, <1>5 DEF AfterByte, Reading
<1> QED
  BY <1>2, <1>3, <1>4, <1>5 DEF Reading

\* A state of the reader, put together.
LEMMA ReadingOf ==
  ASSUME NEW mode \in {"out", "in", "escape", "hex"}, NEW done \in Seq(Seq(Byte)),
         NEW text \in Seq(Byte), NEW digits \in Seq(Byte)
  PROVE  [mode |-> mode, done |-> done, text |-> text, digits |-> digits] \in Reading
BY DEF Reading

\* The reader keeps its type.
LEMMA AfterByteType ==
  ASSUME NEW s \in Reading, NEW b \in Byte PROVE AfterByte(s, b) \in Reading
<1>1. /\ s.done \in Seq(Seq(Byte)) /\ s.text \in Seq(Byte) /\ s.digits \in Seq(Byte)
      /\ s.mode \in {"out", "in", "escape", "hex"}
  BY DEF Reading
<1>2. /\ Append(s.done, s.text) \in Seq(Seq(Byte)) /\ <<>> \in Seq(Byte)
      /\ Append(s.digits, b) \in Seq(Byte)
  BY <1>1, AppendProperties, EmptySeq
<1>3. ASSUME NEW c \in Byte PROVE Append(s.text, c) \in Seq(Byte)
  BY <1>1, AppendProperties
<1>4. Shown(b) \in Byte /\ Unescaped(b) \in Byte /\ \A d : Unhexed(d) \in Byte
  BY EscapesKnown
<1>5. CASE s.mode = "out"
  <2>1. CASE b # Quote
    BY <1>5, <2>1, AfterByteIs
  <2>2. CASE b = Quote
    <3>1. AfterByte(s, b) = [mode |-> "in", done |-> s.done,
                              text |-> <<>>, digits |-> s.digits]
      BY <1>5, <2>2, AfterByteIs
    <3> QED
      BY <1>1, <1>2, <1>3, <1>4, <3>1 DEF Reading
  <2> QED
    BY <2>1, <2>2
<1>6. CASE s.mode = "in"
  <2>1. CASE b = Quote
    <3>1. AfterByte(s, b) = [mode |-> "out", done |-> Append(s.done, s.text),
                              text |-> s.text, digits |-> s.digits]
      BY <1>6, <2>1, AfterByteIs
    <3> QED
      BY <1>1, <1>2, <1>3, <1>4, <3>1 DEF Reading
  <2>2. CASE b = Backslash
    <3>1. AfterByte(s, b) = [mode |-> "escape", done |-> s.done,
                              text |-> s.text, digits |-> s.digits]
      BY <1>6, <2>2, AfterByteIs
    <3> QED
      BY <1>1, <1>2, <1>3, <1>4, <3>1 DEF Reading
  <2>3. CASE b \notin {Quote, Backslash}
    <3>1. AfterByte(s, b) = [mode |-> "in", done |-> s.done,
                              text |-> Append(s.text, Shown(b)), digits |-> s.digits]
      BY <1>6, <2>3, AfterByteIs
    <3> QED
      BY <1>1, <1>2, <1>3, <1>4, <3>1 DEF Reading
  <2> QED
    BY <2>1, <2>2, <2>3
<1>7. CASE s.mode = "escape"
  <2>1. CASE b = "u"
    <3>1. AfterByte(s, b) = [mode |-> "hex", done |-> s.done,
                              text |-> s.text, digits |-> <<>>]
      BY <1>7, <2>1, AfterByteIs
    <3> QED
      BY <1>1, <1>2, <1>3, <1>4, <3>1 DEF Reading
  <2>2. CASE b # "u"
    <3>1. AfterByte(s, b) = [mode |-> "in", done |-> s.done,
                              text |-> Append(s.text, Unescaped(b)), digits |-> s.digits]
      BY <1>7, <2>2, AfterByteIs
    <3> QED
      BY <1>1, <1>2, <1>3, <1>4, <3>1 DEF Reading
  <2> QED
    BY <2>1, <2>2
<1>8. CASE s.mode = "hex"
  <2>1. CASE Len(s.digits) < 3
    <3>1. AfterByte(s, b) = [mode |-> "hex", done |-> s.done,
                              text |-> s.text, digits |-> Append(s.digits, b)]
      BY <1>8, <2>1, AfterByteIs
    <3> QED
      BY <1>1, <1>2, <1>3, <1>4, <3>1 DEF Reading
  <2>2. CASE ~(Len(s.digits) < 3)
    <3>1. AfterByte(s, b) = [mode |-> "in", done |-> s.done,
                              text |-> Append(s.text, Unhexed(Append(s.digits, b))), digits |-> s.digits]
      BY <1>8, <2>2, AfterByteIs
    <3> QED
      BY <1>1, <1>2, <1>3, <1>4, <3>1 DEF Reading
  <2> QED
    BY <2>1, <2>2
<1> QED
  BY <1>1, <1>5, <1>6, <1>7, <1>8

\* Reading is a loop over the bytes.
LEMMA ReadByteIsLoop == ASSUME NEW s \in Reading PROVE IsLoop(Reading, Byte, ReadByte, s)
BY AfterByteType DEF IsLoop, ReadByte

\* A sequence that is another one with an element behind it.
LEMMA AppendMakes ==
  ASSUME NEW E, NEW short \in Seq(E), NEW e \in E, NEW long \in Seq(E),
         Len(long) = Len(short) + 1, long[Len(short) + 1] = e,
         \A i \in 1..Len(short) : long[i] = short[i]
  PROVE  Append(short, e) = long
<1> DEFINE t == Append(short, e)
<1>1. /\ t \in Seq(E) /\ Len(t) = Len(short) + 1 /\ Len(short) \in Nat /\ t[Len(short) + 1] = e
      /\ \A i \in 1..Len(short) : t[i] = short[i]
  BY AppendProperties, LenProperties
<1> HIDE DEF t
<1>2. ASSUME NEW i \in 1..Len(t) PROVE t[i] = long[i]
  <2>1. i \in 1..Len(short) \/ i = Len(short) + 1
    BY <1>1
  <2> QED
    BY <1>1, <2>1
<1>3. t = long
  BY <1>1, <1>2, SeqEqual
<1> QED
  BY <1>3 DEF t

\* The same for short tuples, up to six elements.
LEMMA PairGrows ==
  ASSUME NEW E, NEW a \in E, NEW b \in E
  PROVE  Append(<<a>>, b) = <<a, b>>
<1> DEFINE short == <<a>>
           long == <<a, b>>
<1>1. short \in Seq(E) /\ long \in Seq(E) /\ Len(short) = 1 /\ Len(long) = 1 + 1
  OBVIOUS
<1>2. \A i \in 1..1 : long[i] = short[i]
  OBVIOUS
<1>3. long[1 + 1] = b
  OBVIOUS
<1> HIDE DEF short, long
<1>4. Append(short, b) = long
  BY <1>1, <1>2, <1>3, AppendMakes
<1> QED
  BY <1>4 DEF short, long

\* To three elements.
LEMMA TripleGrows ==
  ASSUME NEW E, NEW a \in E, NEW b \in E, NEW c \in E
  PROVE  Append(<<a, b>>, c) = <<a, b, c>>
<1> DEFINE short == <<a, b>>
           long == <<a, b, c>>
<1>1. short \in Seq(E) /\ long \in Seq(E) /\ Len(short) = 2 /\ Len(long) = 2 + 1
  OBVIOUS
<1>2. \A i \in 1..2 : long[i] = short[i]
  OBVIOUS
<1>3. long[2 + 1] = c
  OBVIOUS
<1> HIDE DEF short, long
<1>4. Append(short, c) = long
  BY <1>1, <1>2, <1>3, AppendMakes
<1> QED
  BY <1>4 DEF short, long

\* To four.
LEMMA QuadGrows ==
  ASSUME NEW E, NEW a \in E, NEW b \in E, NEW c \in E, NEW d \in E
  PROVE  Append(<<a, b, c>>, d) = <<a, b, c, d>>
<1> DEFINE short == <<a, b, c>>
           long == <<a, b, c, d>>
<1>1. short \in Seq(E) /\ long \in Seq(E) /\ Len(short) = 3 /\ Len(long) = 3 + 1
  OBVIOUS
<1>2. \A i \in 1..3 : long[i] = short[i]
  OBVIOUS
<1>3. long[3 + 1] = d
  OBVIOUS
<1> HIDE DEF short, long
<1>4. Append(short, d) = long
  BY <1>1, <1>2, <1>3, AppendMakes
<1> QED
  BY <1>4 DEF short, long

\* One byte more.
LEMMA ReadAppend ==
  ASSUME NEW s \in Reading, NEW a \in Seq(Byte), NEW b \in Byte
  PROVE  Read(s, Append(a, b)) = AfterByte(Read(s, a), b) /\ Read(s, a) \in Reading
<1>1. IsLoop(Reading, Byte, ReadByte, s)
  BY ReadByteIsLoop
<1>2. Fold(ReadByte, s, Append(a, b)) = ReadByte[Fold(ReadByte, s, a)][b]
  BY <1>1, FoldAppend
<1>3. Fold(ReadByte, s, a) \in Reading
  BY <1>1, FoldType
<1> QED
  BY <1>2, <1>3 DEF Read, ReadByte

\* Reading one byte.
LEMMA ReadOne ==
  ASSUME NEW s \in Reading, NEW b \in Byte
  PROVE  Read(s, <<b>>) = AfterByte(s, b)
<1>1. Fold(ReadByte, s, <<b>>) = ReadByte[s][b]
  BY ReadByteIsLoop, FoldOne
<1> QED
  BY <1>1 DEF Read, ReadByte

\* Reading goes on where it left off.
LEMMA ReadConcat ==
  ASSUME NEW s \in Reading, NEW a \in Seq(Byte), NEW b \in Seq(Byte)
  PROVE  Read(s, a \o b) = Read(Read(s, a), b) /\ Read(s, a) \in Reading
<1>1. IsLoop(Reading, Byte, ReadByte, s)
  BY ReadByteIsLoop
<1>2. Fold(ReadByte, s, a \o b) = Fold(ReadByte, Fold(ReadByte, s, a), b)
  BY <1>1, FoldConcat
<1>3. Fold(ReadByte, s, a) \in Reading
  BY <1>1, FoldType
<1> QED
  BY <1>2, <1>3 DEF Read

\* A quote between two strings opens one.
LEMMA ReadOpen ==
  ASSUME NEW s, NEW done, Out(s, done)
  PROVE  In(AfterByte(s, Quote), done, <<>>)
<1>1. Quote \in Byte /\ s \in Reading /\ s.mode = "out" /\ s.done = done
  BY Named DEF Out
<1>2. AfterByte(s, Quote) = [mode |-> "in", done |-> done, text |-> <<>>, digits |-> s.digits]
  BY <1>1, AfterByteIs
<1>3. AfterByte(s, Quote) \in Reading
  BY <1>1, AfterByteType
<1> QED
  BY <1>2, <1>3 DEF In

\* Any other byte between two strings is passed over.
LEMMA ReadOutside ==
  ASSUME NEW s, NEW done, Out(s, done), NEW b \in Byte, b # Quote
  PROVE  Out(AfterByte(s, b), done)
BY AfterByteIs, AfterByteType DEF Out

\* A quote in a string closes it.
LEMMA ReadClose ==
  ASSUME NEW s, NEW done, NEW text, In(s, done, text)
  PROVE  Out(AfterByte(s, Quote), Append(done, text))
<1>1. Quote \in Byte /\ s \in Reading /\ s.mode = "in" /\ s.done = done /\ s.text = text
  BY Named DEF In
<1>2. AfterByte(s, Quote) =
        [mode |-> "out", done |-> Append(done, text), text |-> text, digits |-> s.digits]
  BY <1>1, AfterByteIs
<1>3. AfterByte(s, Quote) \in Reading
  BY <1>1, AfterByteType
<1> QED
  BY <1>2, <1>3 DEF Out

\* A byte in a string stands for itself.
LEMMA ReadPlain ==
  ASSUME NEW s, NEW done, NEW text, In(s, done, text), NEW b \in Byte, b \notin {Quote, Backslash}
  PROVE  In(AfterByte(s, b), done, Append(text, Shown(b)))
BY AfterByteIs, AfterByteType DEF In

\* A backslash with a letter stands for a byte.
LEMMA ReadLetter ==
  ASSUME NEW s, NEW done, NEW text, In(s, done, text), NEW b \in Byte, b # "u"
  PROVE  In(AfterByte(AfterByte(s, Backslash), b), done, Append(text, Unescaped(b)))
<1> DEFINE t == AfterByte(s, Backslash)
<1>1. t \in Reading /\ t.mode = "escape" /\ t.done = done /\ t.text = text
  <2>1. /\ Backslash \in Byte /\ Quote # Backslash /\ s \in Reading /\ s.mode = "in"
        /\ s.done = done /\ s.text = text
    BY Named DEF In, Quote, Backslash
  <2>2. AfterByte(s, Backslash) =
          [mode |-> "escape", done |-> done, text |-> text, digits |-> s.digits]
    BY <2>1, AfterByteIs
  <2>3. AfterByte(s, Backslash) \in Reading
    BY <2>1, AfterByteType
  <2> QED
    BY <2>2, <2>3
<1> HIDE DEF t
<1>2. In(AfterByte(t, b), done, Append(text, Unescaped(b)))
  BY <1>1, AfterByteIs, AfterByteType DEF In
<1> QED
  BY <1>2 DEF t

\* So does a backslash with u and four digits.
LEMMA ReadHex ==
  ASSUME NEW s, NEW done, NEW text, In(s, done, text),
         NEW a \in Byte, NEW b \in Byte, NEW c \in Byte, NEW d \in Byte
  PROVE  LET t == AfterByte(AfterByte(s, Backslash), "u")
             u == AfterByte(AfterByte(AfterByte(t, a), b), c)
         IN In(AfterByte(u, d), done, Append(text, Unhexed(<<a, b, c, d>>)))
<1> DEFINE s1 == AfterByte(s, Backslash)
           s2 == AfterByte(s1, "u")
           s3 == AfterByte(s2, a)
           s4 == AfterByte(s3, b)
           s5 == AfterByte(s4, c)
           s6 == AfterByte(s5, d)
           Hexing(t, digits) == /\ t \in Reading /\ t.mode = "hex" /\ t.done = done /\ t.text = text
                                /\ t.digits = digits
<1>1. s1 \in Reading /\ s1.mode = "escape" /\ s1.done = done /\ s1.text = text
  <2>1. /\ Backslash \in Byte /\ Quote # Backslash /\ s \in Reading /\ s.mode = "in"
        /\ s.done = done /\ s.text = text
    BY Named DEF In, Quote, Backslash
  <2>2. AfterByte(s, Backslash) =
          [mode |-> "escape", done |-> done, text |-> text, digits |-> s.digits]
    BY <2>1, AfterByteIs
  <2>3. AfterByte(s, Backslash) \in Reading
    BY <2>1, AfterByteType
  <2> QED
    BY <2>2, <2>3
<1> HIDE DEF s1
<1>2. Hexing(s2, <<>>)
  <2>1. "u" \in Byte
    BY Named
  <2>2. s2 = [mode |-> "hex", done |-> done, text |-> text, digits |-> <<>>]
    BY <1>1, <2>1, AfterByteIs
  <2>3. s2 \in Reading
    BY <1>1, <2>1, AfterByteType
  <2> QED
    BY <2>2, <2>3
<1>3. ASSUME NEW t, NEW digits, Hexing(t, digits), Len(digits) < 3, NEW e \in Byte
      PROVE  Hexing(AfterByte(t, e), Append(digits, e))
  <2>1. AfterByte(t, e) = [mode |-> "hex", done |-> done, text |-> text, digits |-> Append(digits, e)]
    BY <1>3, AfterByteIs
  <2>2. AfterByte(t, e) \in Reading
    BY <1>3, AfterByteType
  <2> QED
    BY <2>1, <2>2
<1> HIDE DEF s2, Hexing
<1>4. Hexing(s3, <<a>>)
  <2> DEFINE z == <<>>
  <2>1. Len(z) < 3 /\ Append(z, a) = <<a>>
    OBVIOUS
  <2> HIDE DEF z
  <2> QED
    BY <1>2, <1>3, <2>1 DEF z
<1> HIDE DEF s3
<1>5. Hexing(s4, <<a, b>>)
  <2> DEFINE z == <<a>>
  <2>1. Len(z) < 3 /\ Append(z, b) = <<a, b>>
    <3>1. Len(z) < 3
      OBVIOUS
    <3>2. Append(z, b) = <<a, b>>
      BY PairGrows
    <3> QED
      BY <3>1, <3>2, Zenon
  <2>2. Hexing(s3, z)
    BY <1>4
  <2> HIDE DEF z
  <2> QED
    BY <1>3, <2>1, <2>2
<1> HIDE DEF s4
<1>6. Hexing(s5, <<a, b, c>>)
  <2> DEFINE z == <<a, b>>
  <2>1. Len(z) < 3 /\ Append(z, c) = <<a, b, c>>
    <3>1. Len(z) < 3
      OBVIOUS
    <3>2. Append(z, c) = <<a, b, c>>
      BY TripleGrows
    <3> QED
      BY <3>1, <3>2, Zenon
  <2>2. Hexing(s4, z)
    BY <1>5
  <2> HIDE DEF z
  <2> QED
    BY <1>3, <2>1, <2>2
<1> HIDE DEF s5
<1>7. In(s6, done, Append(text, Unhexed(<<a, b, c, d>>)))
  <2> DEFINE z == <<a, b, c>>
  <2>1. ~(Len(z) < 3) /\ Append(z, d) = <<a, b, c, d>>
    <3>1. ~(Len(z) < 3)
      OBVIOUS
    <3>2. Append(z, d) = <<a, b, c, d>>
      BY QuadGrows
    <3> QED
      BY <3>1, <3>2, Zenon
  <2>2. s5 \in Reading /\ s5.mode = "hex" /\ s5.done = done /\ s5.text = text /\ s5.digits = z
    BY <1>6 DEF Hexing
  <2> HIDE DEF z
  <2>3. s6 = [mode |-> "in", done |-> done, text |-> Append(text, Unhexed(Append(z, d))), digits |-> z]
    BY <2>1, <2>2, AfterByteIs
  <2>4. s6 \in Reading
    BY <2>2, AfterByteType
  <2> QED
    BY <2>1, <2>3, <2>4 DEF In
<1> QED
  BY <1>7 DEF s1, s2, s3, s4, s5

\* Three texts in a row, whichever two are put together first.
LEMMA Regroup ==
  ASSUME NEW s \in Seq(Byte), NEW t \in Seq(Byte), NEW u \in Seq(Byte)
  PROVE  (s \o t) \o u = s \o (t \o u)
BY ConcatAssociative

\* What is read of raw within a string stands for text, wherever it is read.
Spells(raw, text) ==
  \A s, done, before : In(s, done, before) => In(Read(s, raw), done, before \o text)

\* The parts of the reader within a string.
LEMMA InType ==
  ASSUME NEW s, NEW done, NEW text, In(s, done, text)
  PROVE  s \in Reading /\ text \in Seq(Byte) /\ done \in Seq(Seq(Byte))
BY DEF In, Reading

\* Reading nothing changes nothing.
LEMMA ReadNothing == ASSUME NEW s \in Reading PROVE Read(s, <<>>) = s
BY ReadByteIsLoop, FoldEmpty DEF Read

\* Nothing stands for nothing.
LEMMA SpellsNothing == Spells(<<>>, <<>>)
<1> SUFFICES ASSUME NEW s, NEW done, NEW before, In(s, done, before)
             PROVE  In(Read(s, <<>>), done, before \o <<>>)
  BY DEF Spells
<1>1. s \in Reading /\ before \in Seq(Byte)
  BY InType
<1>2. Read(s, <<>>) = s
  BY <1>1, ReadNothing
<1>3. before \o <<>> = before
  BY <1>1, ConcatEmptySeq
<1> QED
  BY <1>2, <1>3

\* Two texts in a row stand for what they stand for in a row.
LEMMA SpellsConcat ==
  ASSUME NEW r1 \in Seq(Byte), NEW r2 \in Seq(Byte), NEW t1 \in Seq(Byte), NEW t2 \in Seq(Byte),
         Spells(r1, t1), Spells(r2, t2)
  PROVE  Spells(r1 \o r2, t1 \o t2)
<1> SUFFICES ASSUME NEW s, NEW done, NEW before, In(s, done, before)
             PROVE  In(Read(s, r1 \o r2), done, before \o (t1 \o t2))
  BY DEF Spells
<1>1. s \in Reading /\ before \in Seq(Byte)
  BY InType
<1>2. Read(s, r1 \o r2) = Read(Read(s, r1), r2)
  BY <1>1, ReadConcat
<1>3. In(Read(s, r1), done, before \o t1)
  BY DEF Spells
<1>4. In(Read(Read(s, r1), r2), done, (before \o t1) \o t2)
  BY <1>3 DEF Spells
<1>5. (before \o t1) \o t2 = before \o (t1 \o t2)
  BY <1>1, Regroup
<1> QED
  BY <1>2, <1>4, <1>5

\* Enough that the reader adds one byte.
LEMMA SpellsOne ==
  ASSUME NEW raw, NEW b \in Byte,
         \A s, done, before : In(s, done, before) => In(Read(s, raw), done, Append(before, b))
  PROVE  Spells(raw, <<b>>)
<1> SUFFICES ASSUME NEW s, NEW done, NEW before, In(s, done, before)
             PROVE  In(Read(s, raw), done, before \o <<b>>)
  BY DEF Spells
<1>1. before \in Seq(Byte)
  BY InType
<1>2. Append(before, b) = before \o <<b>>
  BY <1>1, AppendIsConcat
<1> QED
  BY <1>2

\* Reading two bytes.
LEMMA ReadTwo ==
  ASSUME NEW s \in Reading, NEW a \in Byte, NEW b \in Byte
  PROVE  Read(s, <<a, b>>) = AfterByte(AfterByte(s, a), b) /\ Read(s, <<a, b>>) \in Reading
<1> DEFINE z == <<a>>
<1>1. z \in Seq(Byte) /\ Append(z, b) = <<a, b>>
  BY PairGrows
<1>2. Read(s, z) = AfterByte(s, a)
  BY ReadOne
<1> HIDE DEF z
<1>3. Read(s, Append(z, b)) = AfterByte(Read(s, z), b) /\ Read(s, z) \in Reading
  BY <1>1, ReadAppend
<1>4. AfterByte(Read(s, z), b) \in Reading
  BY <1>3, AfterByteType
<1> QED
  BY <1>1, <1>2, <1>3, <1>4

\* Reading four bytes.
LEMMA ReadFour ==
  ASSUME NEW s \in Reading, NEW a \in Byte, NEW b \in Byte, NEW c \in Byte, NEW d \in Byte
  PROVE  Read(s, <<a, b, c, d>>) = AfterByte(AfterByte(AfterByte(AfterByte(s, a), b), c), d)
<1> DEFINE y == <<a, b>>
           z == <<a, b, c>>
<1>1. y \in Seq(Byte) /\ z \in Seq(Byte)
  OBVIOUS
<1>2. Append(y, c) = z
  BY TripleGrows
<1>3. Append(z, d) = <<a, b, c, d>>
  BY QuadGrows
<1>4. Read(s, y) = AfterByte(AfterByte(s, a), b)
  BY ReadTwo
<1> HIDE DEF y, z
<1>5. Read(s, Append(y, c)) = AfterByte(Read(s, y), c)
  BY <1>1, ReadAppend
<1>6. Read(s, Append(z, d)) = AfterByte(Read(s, z), d)
  BY <1>1, ReadAppend
<1> QED
  BY <1>2, <1>3, <1>4, <1>5, <1>6

\* A backslash and a letter, wherever it is read.
LEMMA LetterSpells ==
  ASSUME NEW b \in DOMAIN Letter
  PROVE  Spells(<<Backslash, Letter[b]>>, <<b>>)
<1>1. b \in Byte /\ Letter[b] \in Byte /\ Letter[b] # "u" /\ Backslash \in Byte
  BY Named
<1>2. Unescaped(Letter[b]) = b
  BY EscapesKnown
<1>3. ASSUME NEW s, NEW done, NEW before, In(s, done, before)
      PROVE  In(Read(s, <<Backslash, Letter[b]>>), done, Append(before, b))
  <2>1. s \in Reading
    BY <1>3, InType
  <2>2. Read(s, <<Backslash, Letter[b]>>) = AfterByte(AfterByte(s, Backslash), Letter[b])
    BY <1>1, <2>1, ReadTwo
  <2>3. In(AfterByte(AfterByte(s, Backslash), Letter[b]), done, Append(before, Unescaped(Letter[b])))
    BY <1>1, <1>3, ReadLetter
  <2> QED
    BY <1>2, <2>2, <2>3
<1> QED
  BY <1>1, <1>3, SpellsOne

\* Four digits, none of them a quote or a backslash.
LEMMA HexDigits ==
  ASSUME NEW b \in DOMAIN Hex
  PROVE  \E p, q, u, v \in Byte \ {NUL, Quote, Backslash} : Hex[b] = <<p, q, u, v>>
<1>1. CASE b = "SOH"
  <2>1. Hex[b] = <<"0", "0", "0", "1">>
    BY <1>1 DEF Hex
  <2>2. "0" \in Byte \ {NUL, Quote, Backslash} /\ "1" \in Byte \ {NUL, Quote, Backslash}
    BY Named DEF NUL, Quote, Backslash
  <2> QED
    BY <2>1, <2>2
<1>2. CASE b = "US"
  <2>1. Hex[b] = <<"0", "0", "1", "f">>
    BY <1>2 DEF Hex
  <2>2. /\ "0" \in Byte \ {NUL, Quote, Backslash} /\ "1" \in Byte \ {NUL, Quote, Backslash}
        /\ "f" \in Byte \ {NUL, Quote, Backslash}
    BY Named DEF NUL, Quote, Backslash
  <2> QED
    BY <2>1, <2>2
<1> QED
  BY <1>1, <1>2 DEF Hex

\* A backslash, u and four digits, wherever they are read.
LEMMA HexSpells ==
  ASSUME NEW b \in DOMAIN Hex
  PROVE  Spells(<<Backslash, "u">> \o Hex[b], <<b>>)
<1>1. b \in Byte /\ "u" \in Byte /\ Backslash \in Byte
  BY Named
<1>2. PICK p \in Byte, q \in Byte, u \in Byte, v \in Byte : Hex[b] = <<p, q, u, v>>
  BY HexDigits
<1>3. Unhexed(<<p, q, u, v>>) = b
  BY <1>2, EscapesKnown
<1>4. ASSUME NEW s, NEW done, NEW before, In(s, done, before)
      PROVE  In(Read(s, <<Backslash, "u">> \o Hex[b]), done, Append(before, b))
  <2> DEFINE t == AfterByte(AfterByte(s, Backslash), "u")
             lead == <<Backslash, "u">>
             digits == <<p, q, u, v>>
  <2>1. s \in Reading
    BY <1>4, InType
  <2>2. Read(s, lead) = t /\ t \in Reading
    BY <1>1, <2>1, ReadTwo
  <2>3. lead \in Seq(Byte) /\ digits \in Seq(Byte)
    BY <1>1
  <2>4. In(AfterByte(AfterByte(AfterByte(AfterByte(t, p), q), u), v), done,
           Append(before, Unhexed(digits)))
    BY <1>4, ReadHex
  <2> HIDE DEF t
  <2>5. Read(t, digits) = AfterByte(AfterByte(AfterByte(AfterByte(t, p), q), u), v)
    BY <2>2, ReadFour
  <2> HIDE DEF lead, digits
  <2>6. Read(s, lead \o digits) = Read(Read(s, lead), digits)
    BY <2>1, <2>3, ReadConcat
  <2>7. In(Read(s, lead \o digits), done, Append(before, Unhexed(digits)))
    BY <2>2, <2>4, <2>5, <2>6
  <2>8. Unhexed(digits) = b /\ Hex[b] = digits
    BY <1>2, <1>3 DEF digits
  <2> QED
    BY <2>7, <2>8 DEF lead
<1> QED
  BY <1>1, <1>4, SpellsOne

\* A byte that needs no escape, wherever it is read.
LEMMA PlainSpells ==
  ASSUME NEW b \in Plain PROVE Spells(<<b>>, <<b>>)
<1>1. b \in Byte /\ b \notin {Quote, Backslash} /\ Shown(b) = b
  BY DEF Plain, Chars, Shown, Letter
<1>2. ASSUME NEW s, NEW done, NEW before, In(s, done, before)
      PROVE  In(Read(s, <<b>>), done, Append(before, b))
  <2>1. Read(s, <<b>>) = AfterByte(s, b)
    BY <1>1, <1>2, InType, ReadOne
  <2>2. In(AfterByte(s, b), done, Append(before, Shown(b)))
    BY <1>1, <1>2, ReadPlain
  <2> QED
    BY <1>1, <2>1, <2>2
<1> QED
  BY <1>1, <1>2, SpellsOne

\* To five.
LEMMA FiveGrow ==
  ASSUME NEW S, NEW a \in S, NEW b \in S, NEW c \in S, NEW d \in S, NEW e \in S
  PROVE  Append(<<a, b, c, d>>, e) = <<a, b, c, d, e>>
<1> DEFINE short == <<a, b, c, d>>
           long == <<a, b, c, d, e>>
<1>1. short \in Seq(S) /\ long \in Seq(S) /\ Len(short) = 4 /\ Len(long) = 4 + 1
  OBVIOUS
<1>2. \A i \in 1..4 : long[i] = short[i]
  OBVIOUS
<1>3. long[4 + 1] = e
  OBVIOUS
<1> HIDE DEF short, long
<1>4. Append(short, e) = long
  BY <1>1, <1>2, <1>3, AppendMakes
<1> QED
  BY <1>4 DEF short, long

\* To six.
LEMMA SixGrow ==
  ASSUME NEW S, NEW a \in S, NEW b \in S, NEW c \in S, NEW d \in S, NEW e \in S, NEW f \in S
  PROVE  Append(<<a, b, c, d, e>>, f) = <<a, b, c, d, e, f>>
<1> DEFINE short == <<a, b, c, d, e>>
           long == <<a, b, c, d, e, f>>
<1>1. short \in Seq(S) /\ long \in Seq(S) /\ Len(short) = 5 /\ Len(long) = 5 + 1
  OBVIOUS
<1>2. \A i \in 1..5 : long[i] = short[i]
  OBVIOUS
<1>3. long[5 + 1] = f
  OBVIOUS
<1> HIDE DEF short, long
<1>4. Append(short, f) = long
  BY <1>1, <1>2, <1>3, AppendMakes
<1> QED
  BY <1>4 DEF short, long

\* Reading five bytes.
LEMMA ReadFive ==
  ASSUME NEW s \in Reading, NEW a \in Byte, NEW b \in Byte, NEW c \in Byte, NEW d \in Byte,
         NEW e \in Byte
  PROVE  Read(s, <<a, b, c, d, e>>) =
           AfterByte(AfterByte(AfterByte(AfterByte(AfterByte(s, a), b), c), d), e)
<1> DEFINE z == <<a, b, c, d>>
<1>1. z \in Seq(Byte)
  OBVIOUS
<1>2. Append(z, e) = <<a, b, c, d, e>>
  BY FiveGrow
<1>3. Read(s, z) = AfterByte(AfterByte(AfterByte(AfterByte(s, a), b), c), d)
  BY ReadFour
<1> HIDE DEF z
<1>4. Read(s, Append(z, e)) = AfterByte(Read(s, z), e)
  BY <1>1, ReadAppend
<1> QED
  BY <1>2, <1>3, <1>4

\* A member read from between two strings.
LEMMA MemberRead ==
  ASSUME NEW s, NEW done, Out(s, done), NEW key \in Plain, NEW raw \in Seq(Byte),
         NEW text \in Seq(Byte), Spells(raw, text)
  PROVE  Out(Read(s, Member(key, raw)), Append(Append(done, <<key>>), text))
<1> DEFINE s1 == AfterByte(s, Quote)
           s2 == AfterByte(s1, key)
           s3 == AfterByte(s2, Quote)
           s4 == AfterByte(s3, ":")
           s5 == AfterByte(s4, Quote)
           lead == <<Quote, key, Quote, ":", Quote>>
           end == <<Quote>>
           more == Append(done, <<key>>)
<1>1. /\ key \in Byte /\ key \notin {Quote, Backslash} /\ Shown(key) = key
      /\ Quote \in Byte /\ ":" \in Byte /\ Quote # ":"
  <2>1. key \in Byte /\ key \notin {Quote, Backslash} /\ Shown(key) = key
    BY DEF Plain, Chars, Shown, Letter
  <2>2. Quote \in Byte /\ ":" \in Byte /\ Quote # ":"
    BY Named DEF Quote
  <2> QED
    BY <2>1, <2>2
<1>2. In(s1, done, <<>>)
  BY ReadOpen
<1>3. In(s2, done, <<key>>)
  <2>1. In(s2, done, Append(<<>>, Shown(key)))
    BY <1>1, <1>2, ReadPlain
  <2>2. Append(<<>>, key) = <<key>>
    OBVIOUS
  <2> QED
    BY <1>1, <2>1, <2>2
<1> HIDE DEF s1
<1>4. Out(s3, more)
  BY <1>3, ReadClose
<1> HIDE DEF s2, more
<1>5. Out(s4, more)
  BY <1>1, <1>4, ReadOutside
<1> HIDE DEF s3
<1>6. In(s5, more, <<>>)
  BY <1>5, ReadOpen
<1> HIDE DEF s4
<1>7. Read(s, lead) = s5
  <2>1. s \in Reading
    BY DEF Out
  <2>2. Read(s, lead) = AfterByte(AfterByte(AfterByte(AfterByte(AfterByte(s, Quote), key), Quote), ":"), Quote)
    BY <1>1, <2>1, ReadFive
  <2> QED
    BY <2>2 DEF s1, s2, s3, s4, s5
<1>8. lead \in Seq(Byte) /\ end \in Seq(Byte)
  BY <1>1
<1> HIDE DEF s5, lead
<1>9. In(Read(s5, raw), more, text)
  <2>1. In(Read(s5, raw), more, <<>> \o text)
    BY <1>6 DEF Spells
  <2>2. <<>> \o text = text
    BY ConcatEmptySeq
  <2> QED
    BY <2>1, <2>2
<1>10. Out(Read(Read(s5, raw), end), Append(more, text))
  <2>1. Read(Read(s5, raw), end) = AfterByte(Read(s5, raw), Quote)
    BY <1>1, <1>9, InType, ReadOne
  <2> QED
    BY <1>9, <2>1, ReadClose
<1> HIDE DEF end
<1>11. Read(s, (lead \o raw) \o end) = Read(Read(s5, raw), end)
  <2>1. s \in Reading /\ lead \o raw \in Seq(Byte)
    BY <1>8, ConcatProperties DEF Out
  <2>2. Read(s, lead \o raw) = Read(Read(s, lead), raw)
    BY <1>8, <2>1, ReadConcat
  <2>3. Read(s, (lead \o raw) \o end) = Read(Read(s, lead \o raw), end)
    BY <1>8, <2>1, ReadConcat
  <2> QED
    BY <1>7, <2>2, <2>3
<1>12. Member(key, raw) = (lead \o raw) \o end
  BY DEF Member, lead, end
<1> QED
  BY <1>10, <1>11, <1>12 DEF more

\* The text of a member is a text.
LEMMA MemberType ==
  ASSUME NEW key \in Byte, NEW raw \in Seq(Byte) PROVE Member(key, raw) \in Seq(Byte)
<1> DEFINE lead == <<Quote, key, Quote, ":", Quote>>
           end == <<Quote>>
<1>1. lead \in Seq(Byte) /\ end \in Seq(Byte)
  <2>1. Quote \in Byte /\ ":" \in Byte
    BY Named
  <2> QED
    BY <2>1
<1> HIDE DEF lead, end
<1>2. (lead \o raw) \o end \in Seq(Byte)
  BY <1>1, ConcatProperties
<1> QED
  BY <1>2 DEF Member, lead, end

\* A byte between two strings.
LEMMA OutsideRead ==
  ASSUME NEW s, NEW done, Out(s, done), NEW b \in Byte, b # Quote
  PROVE  Out(Read(s, <<b>>), done)
<1>1. Read(s, <<b>>) = AfterByte(s, b)
  BY ReadOne DEF Out
<1> QED
  BY <1>1, ReadOutside

\* Reading on from where the text before ended.
LEMMA OutMore ==
  ASSUME NEW s \in Reading, NEW a \in Seq(Byte), NEW b \in Seq(Byte), NEW done,
         Out(Read(Read(s, a), b), done)
  PROVE  a \o b \in Seq(Byte) /\ Out(Read(s, a \o b), done)
BY ReadConcat, ConcatProperties

\* The reader before the first byte.
Start == [mode |-> "out", done |-> <<>>, text |-> <<>>, digits |-> <<>>]

\* It begins between strings, with none read.
LEMMA StartOut == Start \in Reading /\ Out(Start, <<>>)
<1>1. <<>> \in Seq(Byte) /\ <<>> \in Seq(Seq(Byte))
  BY EmptySeq
<1> QED
  BY <1>1, ReadingOf DEF Start, Out

\* An object of three members, as the account port answers and as it is asked of Apple.
Triple(k1, r1, k2, r2, k3, r3) ==
  <<"{">> \o Member(k1, r1) \o <<",">> \o Member(k2, r2) \o <<",">> \o Member(k3, r3) \o <<"}">>

\* A reader gets the keys and values of three members.
LEMMA TripleRead ==
  ASSUME NEW k1 \in Plain, NEW r1 \in Seq(Byte), NEW t1 \in Seq(Byte), Spells(r1, t1),
         NEW k2 \in Plain, NEW r2 \in Seq(Byte), NEW t2 \in Seq(Byte), Spells(r2, t2),
         NEW k3 \in Plain, NEW r3 \in Seq(Byte), NEW t3 \in Seq(Byte), Spells(r3, t3)
  PROVE  Strings(Triple(k1, r1, k2, r2, k3, r3)) = << <<k1>>, t1, <<k2>>, t2, <<k3>>, t3 >>
<1> DEFINE open == <<"{">>
           comma == <<",">>
           close == <<"}">>
           m1 == Member(k1, r1)
           m2 == Member(k2, r2)
           m3 == Member(k3, r3)
           d1 == Append(Append(<<>>, <<k1>>), t1)
           d2 == Append(Append(d1, <<k2>>), t2)
           d3 == Append(Append(d2, <<k3>>), t3)
<1>1. k1 \in Byte /\ k2 \in Byte /\ k3 \in Byte
  BY DEF Plain, Chars
<1>2. /\ "{" \in Byte /\ "," \in Byte /\ "}" \in Byte
      /\ "{" # Quote /\ "," # Quote /\ "}" # Quote
  <2>1. "{" \in Byte /\ "," \in Byte /\ "}" \in Byte
    BY Named
  <2>2. "{" # Quote /\ "," # Quote /\ "}" # Quote
    BY DEF Quote
  <2> QED
    BY <2>1, <2>2
<1>3. open \in Seq(Byte) /\ comma \in Seq(Byte) /\ close \in Seq(Byte)
  <2>1. \A b \in Byte : <<b>> \in Seq(Byte)
    OBVIOUS
  <2> QED
    BY <1>2, <2>1
<1>4. m1 \in Seq(Byte) /\ m2 \in Seq(Byte) /\ m3 \in Seq(Byte)
  BY <1>1, MemberType
<1>5. \A s, done : Out(s, done) =>
        Out(Read(s, open), done) /\ Out(Read(s, comma), done) /\ Out(Read(s, close), done)
  BY <1>2, OutsideRead
<1>6. \A s, done : Out(s, done) =>
        /\ Out(Read(s, m1), Append(Append(done, <<k1>>), t1))
        /\ Out(Read(s, m2), Append(Append(done, <<k2>>), t2))
        /\ Out(Read(s, m3), Append(Append(done, <<k3>>), t3))
  BY MemberRead
<1> HIDE DEF open, comma, close, m1, m2, m3
<1>7. Start \in Reading
  BY StartOut
<1>8. open \in Seq(Byte) /\ Out(Read(Start, open), <<>>)
  BY <1>3, <1>5, StartOut
<1> DEFINE a1 == open \o m1
<1>9. a1 \in Seq(Byte) /\ Out(Read(Start, a1), d1)
  <2>1. Out(Read(Read(Start, open), m1), d1)
    BY <1>6, <1>8
  <2> QED
    BY <1>4, <1>7, <1>8, <2>1, OutMore
<1> HIDE DEF d1, a1
<1> DEFINE a2 == a1 \o comma
<1>10. a2 \in Seq(Byte) /\ Out(Read(Start, a2), d1)
  <2>1. Out(Read(Read(Start, a1), comma), d1)
    BY <1>5, <1>9
  <2> QED
    BY <1>3, <1>7, <1>9, <2>1, OutMore
<1> HIDE DEF a2
<1> DEFINE a3 == a2 \o m2
<1>11. a3 \in Seq(Byte) /\ Out(Read(Start, a3), d2)
  <2>1. Out(Read(Read(Start, a2), m2), d2)
    BY <1>6, <1>10
  <2> QED
    BY <1>4, <1>7, <1>10, <2>1, OutMore
<1> HIDE DEF d2, a3
<1> DEFINE a4 == a3 \o comma
<1>12. a4 \in Seq(Byte) /\ Out(Read(Start, a4), d2)
  <2>1. Out(Read(Read(Start, a3), comma), d2)
    BY <1>5, <1>11
  <2> QED
    BY <1>3, <1>7, <1>11, <2>1, OutMore
<1> HIDE DEF a4
<1> DEFINE a5 == a4 \o m3
<1>13. a5 \in Seq(Byte) /\ Out(Read(Start, a5), d3)
  <2>1. Out(Read(Read(Start, a4), m3), d3)
    BY <1>6, <1>12
  <2> QED
    BY <1>4, <1>7, <1>12, <2>1, OutMore
<1> HIDE DEF d3, a5
<1>14. Out(Read(Start, a5 \o close), d3)
  <2>1. Out(Read(Read(Start, a5), close), d3)
    BY <1>5, <1>13
  <2> QED
    BY <1>3, <1>7, <1>13, <2>1, OutMore
<1>15. Triple(k1, r1, k2, r2, k3, r3) = a5 \o close
  BY DEF Triple, a5, a4, a3, a2, a1, open, comma, close, m1, m2, m3
<1>16. Strings(a5 \o close) = d3
  BY <1>14 DEF Out, Read, Start, Strings
<1>17. d3 = << <<k1>>, t1, <<k2>>, t2, <<k3>>, t3 >>
  <2> DEFINE w1 == <<k1>>
             w2 == <<k2>>
             w3 == <<k3>>
  <2>1. /\ w1 \in Seq(Byte) /\ w2 \in Seq(Byte) /\ w3 \in Seq(Byte)
        /\ t1 \in Seq(Byte) /\ t2 \in Seq(Byte) /\ t3 \in Seq(Byte)
    BY <1>1
  <2>2. d3 = Append(Append(Append(Append(Append(Append(<<>>, w1), t1), w2), t2), w3), t3)
    BY DEF d1, d2, d3
  <2> HIDE DEF w1, w2, w3
  <2>3. Append(<<>>, w1) = <<w1>>
    OBVIOUS
  <2>4. Append(<<w1>>, t1) = <<w1, t1>>
    BY <2>1, PairGrows
  <2>5. Append(<<w1, t1>>, w2) = <<w1, t1, w2>>
    BY <2>1, TripleGrows
  <2>6. Append(<<w1, t1, w2>>, t2) = <<w1, t1, w2, t2>>
    BY <2>1, QuadGrows
  <2>7. Append(<<w1, t1, w2, t2>>, w3) = <<w1, t1, w2, t2, w3>>
    BY <2>1, FiveGrow
  <2>8. Append(<<w1, t1, w2, t2, w3>>, t3) = <<w1, t1, w2, t2, w3, t3>>
    BY ONLY <2>1, SixGrow, SMTT(30)
  <2>9. d3 = <<w1, t1, w2, t2, w3, t3>>
    BY <2>2, <2>3, <2>4, <2>5, <2>6, <2>7, <2>8, Zenon
  <2> QED
    BY <2>9 DEF w1, w2, w3
<1> QED
  BY <1>15, <1>16, <1>17

-----------------------------------------------------------------------------
(* json_escape_string *)

\* What is written for a byte stands for it and is as long as counted.
LEMMA EscapedSpells ==
  ASSUME NEW b \in Chars
  PROVE  /\ Escaped(b) \in Seq(Byte) /\ Spells(Escaped(b), <<b>>)
         /\ Len(Escaped(b)) = CASE b \in DOMAIN Letter -> 2 [] b \in DOMAIN Hex -> 6 [] OTHER -> 1
<1>1. b \notin DOMAIN Letter \/ b \notin DOMAIN Hex
  BY DEF Letter, Hex, Quote, Backslash
<1>2. CASE b \in DOMAIN Letter
  <2> DEFINE raw == <<Backslash, Letter[b]>>
  <2>1. Escaped(b) = raw
    BY <1>1, <1>2 DEF Escaped
  <2>2. raw \in Seq(Byte) /\ Len(raw) = 2
    <3>1. Backslash \in Byte /\ Letter[b] \in Byte
      BY <1>2, Named
    <3> QED
      BY <3>1
  <2>3. Spells(raw, <<b>>)
    BY <1>2, LetterSpells
  <2> HIDE DEF raw
  <2> QED
    BY <1>1, <1>2, <2>1, <2>2, <2>3
<1>3. CASE b \in DOMAIN Hex
  <2> DEFINE lead == <<Backslash, "u">>
             digits == Hex[b]
             raw == lead \o digits
  <2>1. Escaped(b) = raw
    BY <1>1, <1>3 DEF Escaped
  <2>2. raw \in Seq(Byte) /\ Len(raw) = 6
    <3>1. lead \in Seq(Byte) /\ Len(lead) = 2
      <4>1. Backslash \in Byte /\ "u" \in Byte
        BY Named
      <4> QED
        BY <4>1
    <3>2. digits \in Seq(Byte) /\ Len(digits) = 4
      <4>1. PICK p \in Byte, q \in Byte, u \in Byte, v \in Byte : Hex[b] = <<p, q, u, v>>
        BY <1>3, HexDigits
      <4> QED
        BY <4>1
    <3> HIDE DEF lead, digits
    <3>3. /\ lead \o digits \in Seq(Byte)
          /\ Len(lead \o digits) = Len(lead) + Len(digits)
      BY <3>1, <3>2, ConcatProperties
    <3> QED
      BY <3>1, <3>2, <3>3
  <2>3. Spells(raw, <<b>>)
    BY <1>3, HexSpells
  <2> HIDE DEF raw
  <2> QED
    BY <1>1, <1>3, <2>1, <2>2, <2>3
<1>4. CASE b \notin DOMAIN Letter \cup DOMAIN Hex
  <2>1. Escaped(b) = <<b>> /\ b \in Plain /\ b \in Byte
    BY <1>4 DEF Escaped, Plain, Chars
  <2>2. <<b>> \in Seq(Byte) /\ Len(<<b>>) = 1
    BY <2>1
  <2>3. Spells(<<b>>, <<b>>)
    BY <2>1, PlainSpells
  <2> QED
    BY <1>4, <2>1, <2>2, <2>3
<1> QED
  BY <1>2, <1>3, <1>4

\* json_escape_string on one byte more.
LEMMA EscapeAppend ==
  ASSUME NEW text \in Seq(Chars), NEW b \in Chars
  PROVE  /\ JsonEscapeString(text) \in Seq(Byte)
         /\ JsonEscapeString(Append(text, b)) = JsonEscapeString(text) \o Escaped(b)
<1> DEFINE longer == Append(text, b)
           parts == [i \in 1..Len(text) |-> Escaped(text[i])]
           more == [i \in 1..Len(longer) |-> Escaped(longer[i])]
           part == Escaped(b)
<1>1. part \in Seq(Byte) /\ \A c \in Chars : Escaped(c) \in Seq(Byte)
  BY EscapedSpells
<1>2. Len(text) \in Nat /\ \A i \in 1..Len(text) : text[i] \in Chars
  BY LenProperties
<1>3. /\ Len(longer) = Len(text) + 1 /\ longer[Len(text) + 1] = b
      /\ \A i \in 1..Len(text) : longer[i] = text[i]
  BY AppendProperties
<1>4. parts \in Seq(Seq(Byte)) /\ Len(parts) = Len(text)
  BY <1>1, <1>2
<1> HIDE DEF longer
<1>5. more \in Seq(Seq(Byte)) /\ Len(more) = Len(text) + 1
  <2>1. \A i \in 1..Len(text) + 1 : Escaped(longer[i]) \in Seq(Byte)
    <3> SUFFICES ASSUME NEW i \in 1..Len(text) + 1 PROVE Escaped(longer[i]) \in Seq(Byte)
      OBVIOUS
    <3>1. i \in 1..Len(text) \/ i = Len(text) + 1
      BY <1>2
    <3> QED
      BY <1>1, <1>2, <1>3, <3>1
  <2> QED
    BY <1>2, <1>3, <2>1
<1>6. more[Len(text) + 1] = part /\ \A i \in 1..Len(text) : more[i] = parts[i]
  BY <1>2, <1>3
<1>7. FlattenSeq(parts) = JsonEscapeString(text) /\ FlattenSeq(more) = JsonEscapeString(longer)
  BY DEF JsonEscapeString
<1> HIDE DEF parts, more, part
<1>8. Append(parts, part) = more
  BY <1>1, <1>4, <1>5, <1>6, AppendMakes
<1>9. FlattenSeq(Append(parts, part)) = FlattenSeq(parts) \o part
  BY <1>1, <1>4, FlattenAppend
<1>10. FlattenSeq(parts) \in Seq(Byte)
  BY <1>4, FlattenType
<1> QED
  BY <1>7, <1>8, <1>9, <1>10 DEF longer, part

\* What is counted for one byte more.
LEMMA LengthAppend ==
  ASSUME NEW text \in Seq(Chars), NEW b \in Chars
  PROVE  /\ EscapedLength(<<>>) = 0
         /\ EscapedLength(text) \in Nat
         /\ EscapedLength(Append(text, b)) = EscapedLength(text) + Len(Escaped(b))
<1> DEFINE Size(c) == CASE c \in DOMAIN Letter -> 2 [] c \in DOMAIN Hex -> 6 [] OTHER -> 1
           count == [n \in Nat |-> [c \in Byte |-> n + Size(c)]]
<1>1. \A c : Size(c) \in Nat
  OBVIOUS
<1>2. \A t : EscapedLength(t) = Fold(count, 0, t)
  BY DEF EscapedLength
<1>3. Size(b) = Len(Escaped(b))
  BY EscapedSpells
<1>4. text \in Seq(Byte) /\ b \in Byte
  BY SeqMonotonic DEF Chars
<1> HIDE DEF Size
<1>5. count \in [Nat -> [Byte -> Nat]] /\ \A n \in Nat, c \in Byte : count[n][c] = n + Size(c)
  BY <1>1
<1> HIDE DEF count
<1>6. IsLoop(Nat, Byte, count, 0)
  BY <1>5 DEF IsLoop
<1>7. Fold(count, 0, <<>>) = 0
  BY <1>6, FoldEmpty
<1>8. Fold(count, 0, text) \in Nat
  BY <1>4, <1>6, FoldType
<1>9. Fold(count, 0, Append(text, b)) = count[Fold(count, 0, text)][b]
  BY <1>4, <1>6, FoldAppend
<1> QED
  BY <1>2, <1>3, <1>4, <1>5, <1>7, <1>8, <1>9

\* json_escape_string on any text.
LEMMA EscapeSpells ==
  ASSUME NEW text \in Seq(Chars)
  PROVE  /\ JsonEscapeString(text) \in Seq(Byte) /\ text \in Seq(Byte)
         /\ Spells(JsonEscapeString(text), text)
         /\ Len(JsonEscapeString(text)) = EscapedLength(text)
<1> DEFINE T == {t \in Seq(Chars) : /\ JsonEscapeString(t) \in Seq(Byte)
                                    /\ Spells(JsonEscapeString(t), t)
                                    /\ Len(JsonEscapeString(t)) = EscapedLength(t)}
<1>1. <<>> \in T
  <2>1. JsonEscapeString(<<>>) = <<>>
    <3>1. [i \in 1..Len(<<>>) |-> Escaped(<<>>[i])] = <<>>
      OBVIOUS
    <3> QED
      BY <3>1, FlattenEmpty DEF JsonEscapeString
  <2>2. EscapedLength(<<>>) = 0
    <3>1. <<>> \in Seq(Chars) /\ \E b : b \in Chars
      <4>1. "u" \in Byte /\ "u" # NUL
        BY Named DEF NUL
      <4> QED
        BY <4>1, EmptySeq DEF Chars
    <3> QED
      BY <3>1, LengthAppend
  <2> QED
    BY <2>1, <2>2, SpellsNothing, EmptySeq
<1>2. ASSUME NEW t \in Seq(Chars), NEW b \in Chars, t \in T
      PROVE  Append(t, b) \in T
  <2> DEFINE raw == JsonEscapeString(t)
             part == Escaped(b)
  <2>1. JsonEscapeString(Append(t, b)) = raw \o part
    BY EscapeAppend
  <2>2. raw \in Seq(Byte) /\ Spells(raw, t) /\ Len(raw) = EscapedLength(t)
    BY <1>2
  <2>3. part \in Seq(Byte) /\ Spells(part, <<b>>)
    BY EscapedSpells
  <2>4. EscapedLength(Append(t, b)) = EscapedLength(t) + Len(part)
    BY LengthAppend
  <2>5. t \in Seq(Byte) /\ <<b>> \in Seq(Byte) /\ b \in Byte
    <3>1. b \in Byte /\ t \in Seq(Byte)
      BY SeqMonotonic DEF Chars
    <3> QED
      BY <3>1
  <2> HIDE DEF raw, part
  <2>6. Spells(raw \o part, t \o <<b>>)
    BY <2>2, <2>3, <2>5, SpellsConcat
  <2>7. t \o <<b>> = Append(t, b) /\ Append(t, b) \in Seq(Chars)
    BY AppendIsConcat, AppendProperties
  <2>8. raw \o part \in Seq(Byte) /\ Len(raw \o part) = Len(raw) + Len(part)
    BY <2>2, <2>3, ConcatProperties
  <2> QED
    BY <2>1, <2>2, <2>4, <2>6, <2>7, <2>8
<1>3. Seq(Chars) \subseteq T
  <2> HIDE DEF T
  <2> QED
    BY <1>1, <1>2, SequenceInduction
<1>4. text \in Seq(Byte)
  BY SeqMonotonic DEF Chars
<1> QED
  BY <1>3, <1>4

\* The keys that the program writes need no escape.
LEMMA KeysPlain ==
  {"storefront_id", "dev_token", "music_token", "guid", "assertion",
   "tcc-acceptance-date", "token", "1"} \subseteq Plain
BY ByteAssumption DEF Plain, Chars, NUL, Letter, Hex, Quote, Backslash

\* What a reader gets from the answer of the account port.
LEMMA AnswerRead ==
  ASSUME NEW s \in Seq(Chars), NEW d \in Seq(Chars), NEW m \in Seq(Chars)
  PROVE  Strings(AccountBody(s, d, m)) =
           << <<"storefront_id">>, s, <<"dev_token">>, d, <<"music_token">>, m >>
<1>1. AccountBody(s, d, m) =
        Triple("storefront_id", JsonEscapeString(s), "dev_token", JsonEscapeString(d),
               "music_token", JsonEscapeString(m))
  BY DEF AccountBody, AccountText, Triple
<1>2. "storefront_id" \in Plain /\ "dev_token" \in Plain /\ "music_token" \in Plain
  BY KeysPlain
<1>3. ASSUME NEW t \in Seq(Chars)
      PROVE  JsonEscapeString(t) \in Seq(Byte) /\ t \in Seq(Byte) /\ Spells(JsonEscapeString(t), t)
  BY EscapeSpells
<1> DEFINE r1 == JsonEscapeString(s)
           r2 == JsonEscapeString(d)
           r3 == JsonEscapeString(m)
<1>4. /\ r1 \in Seq(Byte) /\ s \in Seq(Byte) /\ Spells(r1, s)
      /\ r2 \in Seq(Byte) /\ d \in Seq(Byte) /\ Spells(r2, d)
      /\ r3 \in Seq(Byte) /\ m \in Seq(Byte) /\ Spells(r3, m)
  BY <1>3
<1> HIDE DEF r1, r2, r3
<1>5. Strings(Triple("storefront_id", r1, "dev_token", r2, "music_token", r3)) =
        << <<"storefront_id">>, s, <<"dev_token">>, d, <<"music_token">>, m >>
  BY <1>2, <1>4, TripleRead
<1> QED
  BY <1>1, <1>5 DEF r1, r2, r3

(***************************************************************************)
(* A JSON reader gets back what the account port answers, and what is      *)
(* written for a text is as long as what was counted for it.               *)
(***************************************************************************)
THEOREM AnswerDecodes == CallSpec => []EscapeDecodes
<1>1. CallOK => EscapeDecodes
  BY AnswerRead, EscapeSpells DEF CallOK, EscapeDecodes
<1> QED
  BY <1>1, CallsTyped, PTL

\* A quote in a text between the quotes of JSON follows a backslash, and a
\* backslash at its end another one.
QuotesBehind(raw) == \A i \in 1..Len(raw) : raw[i] = Quote => i > 1 /\ raw[i - 1] = Backslash
EndBehind(raw) ==
  Len(raw) > 0 /\ raw[Len(raw)] = Backslash => Len(raw) > 1 /\ raw[Len(raw) - 1] = Backslash

\* What stands between the quotes, and what it stands for.
Meant(raw, text) ==
  /\ raw \in Seq(Byte) /\ text \in Seq(Byte) /\ Spells(raw, text) /\ Len(text) =< Len(raw)
  /\ IF Contains(raw, Backslash) THEN Len(text) < Len(raw) ELSE text = raw

\* The pieces that may stand between quotes, with what each stands for.
LEMMA UnitFacts ==
  ASSUME NEW u \in Units
  PROVE  /\ u \in Seq(Chars) /\ Len(u) > 0 /\ QuotesBehind(u) /\ EndBehind(u)
         /\ \E b \in Byte : Meant(u, <<b>>)
<1>1. ASSUME NEW b \in Plain, u = <<b>> PROVE
         /\ u \in Seq(Chars) /\ Len(u) > 0 /\ QuotesBehind(u) /\ EndBehind(u)
         /\ b \in Byte /\ Meant(u, <<b>>)
  <2>1. b \in Chars /\ b \in Byte /\ b # Quote /\ b # Backslash
    BY DEF Plain, Chars, Letter
  <2>2. u \in Seq(Chars) /\ u \in Seq(Byte) /\ Len(u) = 1 /\ u[1] = b
    BY <1>1, <2>1
  <2>3. QuotesBehind(u) /\ EndBehind(u)
    BY <2>1, <2>2 DEF QuotesBehind, EndBehind
  <2>4. ~Contains(u, Backslash)
    BY <2>1, <2>2 DEF Contains
  <2>5. Spells(u, <<b>>)
    BY <1>1, PlainSpells
  <2> QED
    BY <1>1, <2>1, <2>2, <2>3, <2>4, <2>5 DEF Meant
<1>2. ASSUME NEW b \in DOMAIN Letter, u = <<Backslash, Letter[b]>> PROVE
         /\ u \in Seq(Chars) /\ Len(u) > 0 /\ QuotesBehind(u) /\ EndBehind(u)
         /\ b \in Byte /\ Meant(u, <<b>>)
  <2>1. Letter[b] \in Chars /\ Backslash \in Chars /\ b \in Byte /\ Backslash # Quote
    <3>1. Letter[b] \in Byte /\ Backslash \in Byte /\ b \in Byte
      BY Named
    <3>2. Letter[b] # NUL /\ Backslash # NUL /\ Backslash # Quote
      BY DEF Letter, NUL, Backslash, Quote
    <3> QED
      BY <3>1, <3>2 DEF Chars
  <2>2. u \in Seq(Chars) /\ Len(u) = 2 /\ u[1] = Backslash
    BY <1>2, <2>1
  <2>3. u \in Seq(Byte) /\ <<b>> \in Seq(Byte) /\ Len(<<b>>) = 1
    BY <2>1, <2>2, SeqMonotonic DEF Chars
  <2>4. QuotesBehind(u) /\ EndBehind(u)
    BY <2>1, <2>2 DEF QuotesBehind, EndBehind
  <2>5. Contains(u, Backslash)
    BY <2>2 DEF Contains
  <2>6. Spells(u, <<b>>)
    BY <1>2, LetterSpells
  <2> QED
    BY <2>1, <2>2, <2>3, <2>4, <2>5, <2>6 DEF Meant
<1>3. ASSUME NEW b \in DOMAIN Hex, u = <<Backslash, "u">> \o Hex[b] PROVE
         /\ u \in Seq(Chars) /\ Len(u) > 0 /\ QuotesBehind(u) /\ EndBehind(u)
         /\ b \in Byte /\ Meant(u, <<b>>)
  <2>1. PICK p, q, v, w \in Byte \ {NUL, Quote, Backslash} : Hex[b] = <<p, q, v, w>>
    BY HexDigits
  <2> DEFINE lead == <<Backslash, "u">>
             digits == <<p, q, v, w>>
  <2>2. Backslash \in Chars /\ "u" \in Chars /\ b \in Byte /\ Backslash # Quote /\ "u" # Quote
    <3>1. Backslash \in Byte /\ "u" \in Byte /\ b \in Byte
      BY Named
    <3>2. Backslash # NUL /\ "u" # NUL /\ Backslash # Quote /\ "u" # Quote
      BY DEF NUL, Backslash, Quote
    <3> QED
      BY <3>1, <3>2 DEF Chars
  <2>3. lead \in Seq(Chars) /\ Len(lead) = 2 /\ lead[1] = Backslash /\ lead[2] = "u"
    BY <2>2
  <2>4. digits \in Seq(Chars) /\ Len(digits) = 4
    BY DEF Chars
  <2>5. \A i \in 1..4 : digits[i] # Quote /\ digits[i] # Backslash
    OBVIOUS
  <2>6. u = lead \o digits
    BY <1>3, <2>1
  <2> HIDE DEF lead, digits
  <2>7. /\ u \in Seq(Chars) /\ Len(u) = Len(lead) + Len(digits)
        /\ \A i \in 1..Len(lead) + Len(digits) : u[i] = IF i =< Len(lead) THEN lead[i] ELSE digits[i - Len(lead)]
    <3>1. lead \in Seq(Chars) /\ digits \in Seq(Chars)
      BY <2>3, <2>4
    <3>2. /\ lead \o digits \in Seq(Chars) /\ Len(lead \o digits) = Len(lead) + Len(digits)
          /\ \A i \in 1..Len(lead) + Len(digits) :
               (lead \o digits)[i] = IF i =< Len(lead) THEN lead[i] ELSE digits[i - Len(lead)]
      BY ONLY <3>1, ConcatProperties
    <3> QED
      BY <2>6, <3>2
  <2>8. /\ Len(u) = 6 /\ u[1] = Backslash
        /\ \A i \in 1..6 : u[i] # Quote
        /\ u[6] # Backslash
    BY <2>2, <2>3, <2>4, <2>5, <2>7
  <2>9. u \in Seq(Byte) /\ <<b>> \in Seq(Byte) /\ Len(<<b>>) = 1
    BY <2>2, <2>7, SeqMonotonic DEF Chars
  <2>10. QuotesBehind(u) /\ EndBehind(u)
    BY <2>8 DEF QuotesBehind, EndBehind
  <2>11. Contains(u, Backslash)
    BY <2>8 DEF Contains
  <2>12. Spells(u, <<b>>)
    BY <1>3, HexSpells
  <2>13. Meant(u, <<b>>)
    BY <2>8, <2>9, <2>11, <2>12 DEF Meant
  <2> QED
    BY <2>2, <2>7, <2>8, <2>10, <2>13
<1>4. \/ \E b \in Plain : u = <<b>>
      \/ \E b \in DOMAIN Letter : u = <<Backslash, Letter[b]>>
      \/ \E b \in DOMAIN Hex : u = <<Backslash, "u">> \o Hex[b]
  BY DEF Units
<1> QED
  BY <1>1, <1>2, <1>3, <1>4

\* Both facts about the quotes carry over to two texts in a row.
LEMMA BehindConcat ==
  ASSUME NEW r1 \in Seq(Byte), NEW r2 \in Seq(Byte), QuotesBehind(r1), QuotesBehind(r2),
         Len(r2) > 0, EndBehind(r2)
  PROVE  QuotesBehind(r1 \o r2) /\ EndBehind(r1 \o r2)
<1> DEFINE all == r1 \o r2
<1>1. /\ all \in Seq(Byte) /\ Len(all) = Len(r1) + Len(r2)
      /\ \A i \in 1..Len(r1) + Len(r2) : all[i] = IF i =< Len(r1) THEN r1[i] ELSE r2[i - Len(r1)]
      /\ Len(r1) \in Nat /\ Len(r2) \in Nat
  BY ConcatProperties, LenProperties
<1> HIDE DEF all
<1>2. QuotesBehind(all)
  <2> SUFFICES ASSUME NEW i \in 1..Len(all), all[i] = Quote
               PROVE  i > 1 /\ all[i - 1] = Backslash
    BY DEF QuotesBehind
  <2>1. CASE i =< Len(r1)
    <3>1. r1[i] = Quote /\ i \in 1..Len(r1)
      BY <1>1, <2>1
    <3>2. i > 1 /\ r1[i - 1] = Backslash
      BY <3>1 DEF QuotesBehind
    <3>3. i - 1 \in 1..Len(r1) + Len(r2) /\ i - 1 =< Len(r1)
      BY <1>1, <3>1, <3>2
    <3> QED
      BY <1>1, <3>2, <3>3
  <2>2. CASE i > Len(r1)
    <3> DEFINE j == i - Len(r1)
    <3>1. r2[j] = Quote /\ j \in 1..Len(r2)
      BY <1>1, <2>2
    <3>2. j > 1 /\ r2[j - 1] = Backslash
      BY <3>1 DEF QuotesBehind
    <3>3. i - 1 \in 1..Len(r1) + Len(r2) /\ ~(i - 1 =< Len(r1)) /\ (i - 1) - Len(r1) = j - 1
      BY <1>1, <3>1, <3>2
    <3>4. all[i - 1] = r2[(i - 1) - Len(r1)]
      BY <1>1, <3>3
    <3>5. i > 1
      BY <1>1, <2>2, <3>2
    <3> HIDE DEF j
    <3> QED
      BY <3>2, <3>3, <3>4, <3>5
  <2> QED
    BY <1>1, <2>1, <2>2
<1>3. EndBehind(all)
  <2> SUFFICES ASSUME all[Len(all)] = Backslash
               PROVE  Len(all) > 1 /\ all[Len(all) - 1] = Backslash
    BY DEF EndBehind
  <2>1. r2[Len(r2)] = Backslash
    BY <1>1
  <2>2. Len(r2) > 1 /\ r2[Len(r2) - 1] = Backslash
    BY <2>1 DEF EndBehind
  <2>3. /\ Len(all) - 1 \in 1..Len(r1) + Len(r2) /\ ~(Len(all) - 1 =< Len(r1))
        /\ (Len(all) - 1) - Len(r1) = Len(r2) - 1
    BY <1>1, <2>2
  <2> QED
    BY <1>1, <2>2, <2>3
<1> QED
  BY <1>2, <1>3 DEF all

\* So does what they stand for.
LEMMA MeantConcat ==
  ASSUME NEW r1, NEW t1, NEW r2, NEW t2, Meant(r1, t1), Meant(r2, t2)
  PROVE  Meant(r1 \o r2, t1 \o t2)
<1>1. r1 \in Seq(Byte) /\ t1 \in Seq(Byte) /\ r2 \in Seq(Byte) /\ t2 \in Seq(Byte)
  BY DEF Meant
<1>2. r1 \o r2 \in Seq(Byte) /\ Len(r1 \o r2) = Len(r1) + Len(r2)
  BY <1>1, ConcatProperties
<1>3. t1 \o t2 \in Seq(Byte) /\ Len(t1 \o t2) = Len(t1) + Len(t2)
  BY <1>1, ConcatProperties
<1>4. Spells(r1 \o r2, t1 \o t2)
  BY <1>1, SpellsConcat DEF Meant
<1>5. Contains(r1 \o r2, Backslash) <=> Contains(r1, Backslash) \/ Contains(r2, Backslash)
  <2> DEFINE all == r1 \o r2
  <2>1. /\ Len(all) = Len(r1) + Len(r2) /\ Len(r1) \in Nat /\ Len(r2) \in Nat
        /\ \A i \in 1..Len(r1) + Len(r2) : all[i] = IF i =< Len(r1) THEN r1[i] ELSE r2[i - Len(r1)]
    BY <1>1, ConcatProperties, LenProperties
  <2> HIDE DEF all
  <2>2. ASSUME NEW i \in 1..Len(r1) PROVE all[i] = r1[i] /\ i \in 1..Len(all)
    BY <2>1
  <2>3. ASSUME NEW i \in 1..Len(r2)
        PROVE  all[Len(r1) + i] = r2[i] /\ Len(r1) + i \in 1..Len(all)
    BY <2>1
  <2>4. ASSUME NEW i \in 1..Len(all)
        PROVE  \/ i \in 1..Len(r1) /\ all[i] = r1[i]
               \/ i - Len(r1) \in 1..Len(r2) /\ all[i] = r2[i - Len(r1)]
    BY <2>1
  <2>5. Contains(all, Backslash) => Contains(r1, Backslash) \/ Contains(r2, Backslash)
    BY <2>4 DEF Contains
  <2>6. Contains(r1, Backslash) \/ Contains(r2, Backslash) => Contains(all, Backslash)
    BY <2>2, <2>3 DEF Contains
  <2> QED
    BY <2>5, <2>6 DEF all
<1>6. Len(r1) \in Nat /\ Len(r2) \in Nat /\ Len(t1) \in Nat /\ Len(t2) \in Nat
  BY <1>1, LenProperties
<1>7. /\ Len(t1) =< Len(r1) /\ Len(t2) =< Len(r2)
      /\ Contains(r1, Backslash) => Len(t1) < Len(r1)
      /\ Contains(r2, Backslash) => Len(t2) < Len(r2)
      /\ ~Contains(r1, Backslash) => t1 = r1
      /\ ~Contains(r2, Backslash) => t2 = r2
  BY DEF Meant
<1> QED
  BY <1>2, <1>3, <1>4, <1>5, <1>6, <1>7 DEF Meant

\* All that may stand between the quotes of JSON.
LEMMA RawFacts ==
  ASSUME NEW raw \in Raws
  PROVE  /\ raw \in Seq(Chars) /\ raw \in Seq(Byte) /\ QuotesBehind(raw) /\ EndBehind(raw)
         /\ \E text : Meant(raw, text)
<1> DEFINE OK(r) == r \in Seq(Chars) /\ QuotesBehind(r) /\ EndBehind(r) /\ \E text : Meant(r, text)
           T == {us \in Seq(Units) : OK(FlattenSeq(us))}
<1>1. <<>> \in T
  <2>1. <<>> \in Seq(Chars) /\ <<>> \in Seq(Byte) /\ Len(<<>>) = 0
    BY EmptySeq
  <2>2. QuotesBehind(<<>>) /\ EndBehind(<<>>)
    BY <2>1 DEF QuotesBehind, EndBehind
  <2>3. Meant(<<>>, <<>>)
    BY <2>1, SpellsNothing DEF Meant, Contains
  <2> QED
    BY <2>1, <2>2, <2>3, FlattenEmpty, EmptySeq
<1>2. ASSUME NEW us \in Seq(Units), NEW u \in Units, us \in T
      PROVE  Append(us, u) \in T
  <2> DEFINE r == FlattenSeq(us)
  <2>1. \A v \in Units : v \in Seq(Chars)
    BY UnitFacts
  <2>2. us \in Seq(Seq(Chars)) /\ u \in Seq(Chars)
    BY <2>1, SeqMonotonic
  <2>3. FlattenSeq(Append(us, u)) = r \o u
    BY <2>2, FlattenAppend
  <2>4. r \in Seq(Chars) /\ QuotesBehind(r) /\ EndBehind(r)
    BY <1>2
  <2>5. PICK text : Meant(r, text)
    BY <1>2
  <2>6. PICK b \in Byte : Meant(u, <<b>>)
    BY UnitFacts
  <2> HIDE DEF r
  <2>7. Meant(r \o u, text \o <<b>>)
    BY <2>5, <2>6, MeantConcat
  <2>8. r \in Seq(Byte) /\ u \in Seq(Byte) /\ QuotesBehind(u) /\ EndBehind(u) /\ Len(u) > 0
    BY <2>2, <2>5, <2>6, UnitFacts DEF Meant
  <2>9. QuotesBehind(r \o u) /\ EndBehind(r \o u)
    BY <2>4, <2>8, BehindConcat
  <2>10. r \o u \in Seq(Chars)
    BY <2>2, <2>4, ConcatProperties
  <2>11. Append(us, u) \in Seq(Units)
    BY AppendProperties
  <2> QED
    BY <2>3, <2>7, <2>9, <2>10, <2>11
<1>3. Seq(Units) \subseteq T
  <2> HIDE DEF T
  <2> QED
    BY <1>1, <1>2, SequenceInduction
<1>4. PICK us \in Seq(Units) : raw = FlattenSeq(us)
  BY DEF Raws
<1>5. OK(raw)
  BY <1>3, <1>4
<1>6. raw \in Seq(Byte)
  BY <1>5, SeqMonotonic DEF Chars
<1> QED
  BY <1>5, <1>6

-----------------------------------------------------------------------------
(* json_extract_string *)

\* What is searched: the key between quotes, as it stands at i.
Needle(k) == <<Quote, k, Quote>>
KeyAt(text, i, k) == text[i] = Quote /\ text[i + 1] = k /\ text[i + 2] = Quote
NoKey(text, k) == \A i \in 1..Len(text) - 2 : ~KeyAt(text, i, k)

\* A number of the set that none is below is the least.
LEMMA LeastIs ==
  ASSUME NEW S \in SUBSET Nat, NEW m \in S, \A n \in S : m =< n PROVE Min(S) = m
<1>1. Min(S) \in S /\ \A n \in S : Min(S) =< n
  BY LeastNumber
<1>2. Min(S) \in Nat /\ m \in Nat /\ Min(S) =< m /\ m =< Min(S)
  BY <1>1
<1> QED
  BY <1>2

\* A part of the text is the key between quotes if its three bytes are.
LEMMA NeedleAt ==
  ASSUME NEW E, NEW text \in Seq(E), NEW k, NEW i \in 1..Len(text) - 2
  PROVE  SubSeq(text, i, i + 2) = Needle(k) <=> KeyAt(text, i, k)
<1> DEFINE n == i + 2
           piece == SubSeq(text, i, n)
           needle == Needle(k)
           F == E \cup {Quote, k}
<1>1. Len(text) \in Nat /\ i \in Int /\ n \in Int /\ i =< n /\ n - i + 1 = 3
  BY LenProperties
<1>2. \A j \in i..n : text[j] \in F
  BY <1>1, ElementOfSeq
<1>3. piece \in Seq(F) /\ Len(piece) = 3 /\ \A j \in 1..3 : piece[j] = text[i + j - 1]
  BY <1>1, <1>2, SubSeqProperties
<1>4. piece[1] = text[i] /\ piece[2] = text[i + 1] /\ piece[3] = text[i + 2]
  BY <1>1, <1>3
<1>5. /\ needle \in Seq(F) /\ Len(needle) = 3
      /\ needle[1] = Quote /\ needle[2] = k /\ needle[3] = Quote
  BY DEF Needle
<1> HIDE DEF piece, needle, F, n
<1>6. ASSUME KeyAt(text, i, k) PROVE piece = needle
  <2>1. \A j \in 1..Len(piece) : piece[j] = needle[j]
    <3> SUFFICES ASSUME NEW j \in 1..Len(piece) PROVE piece[j] = needle[j]
      OBVIOUS
    <3>1. j = 1 \/ j = 2 \/ j = 3
      BY <1>3
    <3> QED
      BY <1>4, <1>5, <1>6, <3>1 DEF KeyAt
  <2> QED
    BY <1>3, <1>5, <2>1, SeqEqual
<1>7. ASSUME piece = needle PROVE KeyAt(text, i, k)
  BY <1>4, <1>5, <1>7 DEF KeyAt
<1> QED
  BY <1>6, <1>7 DEF piece, needle, n

\* strstr finds the key where it stands first.
LEMMA KeyFound ==
  ASSUME NEW E, NEW text \in Seq(E), NEW k, NEW p \in 1..Len(text) - 2, KeyAt(text, p, k),
         \A i \in 1..p - 1 : ~KeyAt(text, i, k)
  PROVE  Strstr(text, Needle(k)) = p
<1> DEFINE needle == Needle(k)
<1>1. Len(needle) = 3 /\ Len(text) \in Nat
  BY LenProperties DEF Needle
<1> HIDE DEF needle
<1> DEFINE starts == {i \in 1..Len(text) - Len(needle) + 1 : SubSeq(text, i, i + Len(needle) - 1) = needle}
<1>2. ASSUME NEW i \in 1..Len(text) - 2
      PROVE  SubSeq(text, i, i + Len(needle) - 1) = needle <=> KeyAt(text, i, k)
  <2>1. i + Len(needle) - 1 = i + 2
    BY <1>1
  <2> QED
    BY <2>1, NeedleAt DEF needle
<1>3. Len(text) - Len(needle) + 1 = Len(text) - 2
  BY <1>1
<1>4. starts = {i \in 1..Len(text) - 2 : KeyAt(text, i, k)}
  BY <1>2, <1>3
<1>5. Strstr(text, needle) = IF starts = {} THEN 0 ELSE Min(starts)
  BY DEF Strstr
<1> HIDE DEF starts
<1>6. starts \in SUBSET Nat /\ p \in starts /\ \A n \in starts : p =< n
  <2>1. starts \in SUBSET Nat /\ p \in starts
    BY <1>1, <1>4
  <2>2. ASSUME NEW n \in starts, n < p PROVE FALSE
    <3>1. n \in 1..p - 1 /\ KeyAt(text, n, k)
      BY <1>1, <1>4, <2>2
    <3> QED
      BY <3>1
  <2>3. \A n \in starts : n \in Nat /\ p \in Nat
    BY <2>1
  <2> QED
    BY <2>1, <2>2, <2>3
<1>7. Min(starts) = p
  BY <1>6, LeastIs
<1> QED
  BY <1>5, <1>6, <1>7 DEF needle

\* It finds nothing exactly if the key does not stand there.
LEMMA KeyMissing ==
  ASSUME NEW E, NEW text \in Seq(E), NEW k
  PROVE  Strstr(text, Needle(k)) = 0 <=> NoKey(text, k)
<1> DEFINE needle == Needle(k)
<1>1. Len(needle) = 3 /\ Len(text) \in Nat
  BY LenProperties DEF Needle
<1> HIDE DEF needle
<1> DEFINE starts == {i \in 1..Len(text) - Len(needle) + 1 : SubSeq(text, i, i + Len(needle) - 1) = needle}
<1>2. ASSUME NEW i \in 1..Len(text) - 2
      PROVE  SubSeq(text, i, i + Len(needle) - 1) = needle <=> KeyAt(text, i, k)
  <2>1. i + Len(needle) - 1 = i + 2
    BY <1>1
  <2> QED
    BY <2>1, NeedleAt DEF needle
<1>3. Len(text) - Len(needle) + 1 = Len(text) - 2
  BY <1>1
<1>4. starts = {i \in 1..Len(text) - 2 : KeyAt(text, i, k)}
  BY <1>2, <1>3
<1>5. starts = {} <=> NoKey(text, k)
  BY <1>4 DEF NoKey
<1>6. starts \in SUBSET (Nat \ {0})
  BY <1>1, <1>4
<1>7. Strstr(text, needle) = IF starts = {} THEN 0 ELSE Min(starts)
  BY DEF Strstr
<1> HIDE DEF starts
<1>8. starts # {} => Min(starts) # 0
  BY <1>6, LeastNumber
<1> QED
  BY <1>5, <1>7, <1>8 DEF needle

\* What json_extract_string puts together to search for.
LEMMA NeedleIs == ASSUME NEW k PROVE <<Quote>> \o <<k>> \o <<Quote>> = Needle(k)
<1> DEFINE E == {Quote, k}
           a == <<Quote>>
           b == <<k>>
           ab == <<Quote, k>>
<1>1. a \in Seq(E) /\ ab \in Seq(E) /\ Quote \in E /\ k \in E
  OBVIOUS
<1> HIDE DEF E
<1>2. Append(a, k) = ab
  BY <1>1, PairGrows
<1>3. Append(ab, Quote) = Needle(k)
  BY <1>1, TripleGrows DEF Needle
<1> HIDE DEF a, ab
<1>4. Append(a, k) = a \o <<k>>
  BY <1>1, AppendIsConcat
<1>5. Append(ab, Quote) = ab \o <<Quote>>
  BY <1>1, AppendIsConcat
<1>6. (a \o <<k>>) \o <<Quote>> = Needle(k)
  BY <1>2, <1>3, <1>4, <1>5
<1> QED
  BY <1>6 DEF a

\* The key stands first at p, a colon behind it, and the value begins at o behind blanks.
ValueBegins(json, k, p, o) ==
  /\ p \in Nat /\ o \in Nat /\ p > 0 /\ p + 3 < o /\ o =< Len(json)
  /\ KeyAt(json, p, k) /\ \A i \in 1..p - 1 : ~KeyAt(json, i, k)
  /\ json[p + 3] = ":" /\ \A i \in p + 4..o - 1 : json[i] \in Blanks
  /\ json[o] \notin Blanks

\* The quotes that end a value that begins behind o.
Ends(json, o) == {i \in o + 1..Len(json) : EndsValue(json, o + 1, i)}

\* Then json_extract_string returns what stands up to the first of those quotes.
LEMMA ValueAt ==
  ASSUME NEW E, NEW json \in Seq(E), NEW k, NEW p, NEW o, ValueBegins(json, k, p, o)
  PROVE  JsonExtractString(json, <<k>>) =
           IF json[o] # Quote \/ Ends(json, o) = {} THEN NULL
           ELSE SubSeq(json, o + 1, Min(Ends(json, o)) - 1)
<1>1. /\ p \in Nat /\ o \in Nat /\ p > 0 /\ p + 3 < o /\ o =< Len(json)
      /\ KeyAt(json, p, k) /\ (\A i \in 1..p - 1 : ~KeyAt(json, i, k))
      /\ json[p + 3] = ":" /\ (\A i \in p + 4..o - 1 : json[i] \in Blanks)
      /\ json[o] \notin Blanks
  BY DEF ValueBegins
<1> DEFINE needle == <<Quote>> \o <<k>> \o <<Quote>>
           pos == Strstr(json, needle)
           colons == {i \in pos + Len(needle)..Len(json) : json[i] = ":"}
           colon == IF colons # {} THEN Min(colons) ELSE 0
           opens == {i \in colon + 1..Len(json) : json[i] \notin Blanks}
           open == IF opens # {} THEN Min(opens) ELSE 0
           ends == {i \in open + 1..Len(json) : EndsValue(json, open + 1, i)}
<1>2. JsonExtractString(json, <<k>>) =
        IF pos = 0 \/ colon = 0 \/ At(json, open) # Quote \/ ends = {} THEN NULL
        ELSE SubSeq(json, open + 1, Min(ends) - 1)
  BY DEF JsonExtractString, SelectInSubSeq
<1>3. Len(json) \in Nat /\ p \in Nat /\ o \in Nat /\ p > 0 /\ p + 3 < o /\ o =< Len(json)
  BY <1>1, LenProperties
<1>4. pos = p
  <2>1. needle = Needle(k)
    BY NeedleIs
  <2>2. p \in 1..Len(json) - 2
    BY <1>3
  <2> HIDE DEF needle
  <2>3. Strstr(json, Needle(k)) = p
    BY <1>1, <2>2, KeyFound
  <2> QED
    BY <2>1, <2>3
<1>5. Len(needle) = 3
  BY NeedleIs DEF Needle
<1> HIDE DEF needle, pos
<1>6. colons \in SUBSET Nat /\ p + 3 \in colons /\ \A n \in colons : p + 3 =< n
  BY <1>1, <1>3, <1>4, <1>5
<1> HIDE DEF colons
<1>7. colon = p + 3
  <2>1. Min(colons) = p + 3
    BY <1>6, LeastIs
  <2> QED
    BY <1>6, <2>1
<1> HIDE DEF colon
<1>8. opens \in SUBSET Nat /\ o \in opens
  BY <1>1, <1>3, <1>7
<1>9. \A n \in opens : o =< n
  <2> SUFFICES ASSUME NEW n \in opens, n < o PROVE FALSE
    BY <1>8
  <2>1. n \in p + 4..o - 1
    BY <1>3, <1>7, <1>8
  <2>2. json[n] \notin Blanks
    BY <1>7, <1>8
  <2> QED
    BY <1>1, <2>1, <2>2
<1> HIDE DEF opens
<1>10. open = o
  <2>1. Min(opens) = o
    BY <1>8, <1>9, LeastIs
  <2> QED
    BY <1>8, <2>1
<1>11. At(json, open) = json[o]
  BY <1>3, <1>10 DEF At
<1>12. pos # 0 /\ colon # 0
  BY <1>3, <1>4, <1>7
<1> HIDE DEF open
<1>13. JsonExtractString(json, <<k>>) =
         IF json[o] # Quote \/ ends = {} THEN NULL ELSE SubSeq(json, open + 1, Min(ends) - 1)
  BY <1>2, <1>11, <1>12
<1> QED
  BY <1>10, <1>13 DEF Ends

\* A value that can be found is found.
LEMMA RawFound ==
  ASSUME NEW json \in Seq(Byte), NEW raw \in Seq(Byte), NEW o \in Nat,
         QuotesBehind(raw), raw # <<>>, raw[Len(raw)] # Backslash,
         o + Len(raw) + 1 =< Len(json),
         \A i \in 1..Len(raw) : json[o + i] = raw[i], json[o + Len(raw) + 1] = Quote
  PROVE  Ends(json, o) # {} /\ SubSeq(json, o + 1, Min(Ends(json, o)) - 1) = raw
<1> DEFINE ends == {i \in o + 1..Len(json) : EndsValue(json, o + 1, i)}
           n == Len(raw)
<1>1. n \in Nat /\ Len(json) \in Nat /\ n > 0
  <2>1. n \in Nat /\ Len(json) \in Nat
    BY LenProperties
  <2>2. n # 0
    BY EmptySeq
  <2> QED
    BY <2>1, <2>2
<1>2. o + n + 1 \in ends
  <2>1. (o + n + 1) - 1 = o + n /\ n \in 1..n
    BY <1>1
  <2>2. json[o + n] # Backslash
    BY <2>1
  <2> QED
    BY <1>1, <2>1, <2>2 DEF EndsValue
<1>3. ASSUME NEW i \in ends PROVE o + n + 1 =< i
  <2> SUFFICES ASSUME i < o + n + 1 PROVE FALSE
    BY <1>1
  <2> DEFINE j == i - o
  <2>1. i \in Int /\ i > o + 1 /\ json[i] = Quote /\ json[i - 1] # Backslash
    BY <1>1, <1>3 DEF EndsValue
  <2>2. j \in 1..n /\ o + j = i /\ j - 1 \in 1..n /\ o + (j - 1) = i - 1
    BY <1>1, <2>1
  <2>3. raw[j] = Quote /\ raw[j - 1] # Backslash
    BY <2>1, <2>2
  <2> QED
    BY <2>2, <2>3 DEF QuotesBehind
<1>4. ends \in SUBSET Nat
  BY <1>1
<1> HIDE DEF ends
<1>5. Min(ends) = o + n + 1
  BY <1>2, <1>3, <1>4, LeastIs
<1>6. Min(ends) - 1 = o + Len(raw)
  BY <1>1, <1>5
<1>7. SubSeq(json, o + 1, o + Len(raw)) = raw
  BY <1>1, PartOf
<1> QED
  BY <1>2, <1>6, <1>7 DEF ends, Ends

\* The sequence of which another is the end.
LEMMA EndIsSuffix ==
  ASSUME NEW raw \in Seq(Byte), Len(raw) > 1, raw[Len(raw)] = Backslash,
         raw[Len(raw) - 1] = Backslash
  PROVE  IsSuffix(<<Backslash, Backslash>>, raw)
<1> DEFINE two == <<Backslash, Backslash>>
           a == Reverse(two)
           b == Reverse(raw)
           n == Len(raw)
<1>1. n \in Nat /\ n > 1 /\ Backslash \in Byte
  BY LenProperties, Named
<1>2. two \in Seq(Byte) /\ Len(two) = 2 /\ two[1] = Backslash /\ two[2] = Backslash
  BY <1>1
<1> HIDE DEF two
<1>3. a \in Seq(Byte) /\ Len(a) = 2 /\ a[1] = Backslash /\ a[2] = Backslash
  BY <1>2 DEF Reverse
<1>4. \A i \in 1..n : raw[(n - i) + 1] \in Byte
  BY <1>1, ElementOfSeq
<1>5. b = [i \in 1..n |-> raw[(n - i) + 1]]
  BY DEF Reverse
<1>6. b \in Seq(Byte) /\ Len(b) = n
  BY <1>1, <1>4, <1>5
<1>7. b[1] = Backslash /\ b[2] = Backslash
  BY <1>1, <1>5
<1> HIDE DEF a, b, n
<1>8. /\ SubSeq(a, 1, 2) \in Seq(Byte) /\ Len(SubSeq(a, 1, 2)) = 2
      /\ \A i \in 1..2 : SubSeq(a, 1, 2)[i] = a[i]
  <2>1. 2 \in 0..Len(a)
    BY <1>3
  <2> QED
    BY <1>3, <2>1, StartOf
<1>9. /\ SubSeq(b, 1, 2) \in Seq(Byte) /\ Len(SubSeq(b, 1, 2)) = 2
      /\ \A i \in 1..2 : SubSeq(b, 1, 2)[i] = b[i]
  <2>1. 2 \in 0..Len(b)
    BY <1>1, <1>6
  <2> QED
    BY <1>6, <2>1, StartOf
<1>10. \A i \in 1..2 : a[i] = b[i]
  <2> SUFFICES ASSUME NEW i \in 1..2 PROVE a[i] = b[i]
    OBVIOUS
  <2>1. i = 1 \/ i = 2
    OBVIOUS
  <2> QED
    BY <1>3, <1>7, <2>1
<1>11. SubSeq(a, 1, 2) = SubSeq(b, 1, 2)
  BY <1>8, <1>9, <1>10, SeqEqual
<1>12. IsPrefix(a, b)
  <2>1. Len(a) =< Len(b)
    BY <1>1, <1>3, <1>6 DEF n
  <2> QED
    BY <1>3, <1>11, <2>1 DEF IsPrefix
<1> QED
  BY <1>12 DEF IsSuffix, a, b, two

\* A value that can be found does not end in a backslash.
LEMMA FindableEnd ==
  ASSUME NEW raw \in Raws, Findable(raw)
  PROVE  raw # <<>> /\ raw[Len(raw)] # Backslash
<1>1. raw \in Seq(Byte) /\ EndBehind(raw) /\ raw # <<>>
  BY RawFacts DEF Findable
<1>2. Len(raw) > 0
  <2>1. Len(raw) \in Nat /\ Len(raw) # 0
    BY <1>1, EmptySeq, LenProperties
  <2> QED
    BY <2>1
<1>3. ASSUME raw[Len(raw)] = Backslash PROVE FALSE
  <2>1. Len(raw) > 1 /\ raw[Len(raw) - 1] = Backslash
    BY <1>2, <1>1, <1>3 DEF EndBehind
  <2> QED
    BY <1>1, <1>3, <2>1, EndIsSuffix DEF Findable
<1> QED
  BY <1>1, <1>3

\* The places of what stands between quotes behind something else.
LEMMA QuotedPlaces ==
  ASSUME NEW lead \in Seq(Byte), NEW raw \in Seq(Byte)
  PROVE  LET text == lead \o raw \o <<Quote>>
         IN /\ text \in Seq(Byte) /\ Len(text) = Len(lead) + Len(raw) + 1
            /\ \A i \in 1..Len(lead) : text[i] = lead[i]
            /\ \A i \in 1..Len(raw) : text[Len(lead) + i] = raw[i]
            /\ text[Len(lead) + Len(raw) + 1] = Quote
<1> DEFINE a == lead \o raw
           end == <<Quote>>
           text == a \o end
<1>1. end \in Seq(Byte) /\ Len(end) = 1 /\ end[1] = Quote
  <2>1. Quote \in Byte
    BY Named
  <2> QED
    BY <2>1
<1> HIDE DEF end
<1>2. Len(lead) \in Nat /\ Len(raw) \in Nat
  BY LenProperties
<1>3. /\ a \in Seq(Byte) /\ Len(a) = Len(lead) + Len(raw)
      /\ \A i \in 1..Len(lead) + Len(raw) : a[i] = IF i =< Len(lead) THEN lead[i] ELSE raw[i - Len(lead)]
  BY ConcatProperties
<1> HIDE DEF a
<1>4. /\ text \in Seq(Byte) /\ Len(text) = Len(a) + Len(end)
      /\ \A i \in 1..Len(a) + Len(end) : text[i] = IF i =< Len(a) THEN a[i] ELSE end[i - Len(a)]
  <2>1. a \in Seq(Byte) /\ end \in Seq(Byte)
    BY <1>1, <1>3
  <2> QED
    BY <2>1, ConcatProperties
<1> HIDE DEF text
<1>5. ASSUME NEW i \in 1..Len(lead) PROVE text[i] = lead[i]
  BY <1>1, <1>2, <1>3, <1>4
<1>6. ASSUME NEW i \in 1..Len(raw) PROVE text[Len(lead) + i] = raw[i]
  <2>1. /\ Len(lead) + i \in 1..Len(lead) + Len(raw) /\ ~(Len(lead) + i =< Len(lead))
        /\ (Len(lead) + i) - Len(lead) = i
    BY <1>2
  <2>2. a[Len(lead) + i] = raw[i]
    BY <1>3, <2>1
  <2> QED
    BY <1>1, <1>2, <1>3, <1>4, <2>1, <2>2
<1>7. text[Len(lead) + Len(raw) + 1] = Quote
  <2> DEFINE n == Len(a) + 1
  <2>1. n \in 1..Len(a) + Len(end) /\ ~(n =< Len(a)) /\ n - Len(a) = 1
    BY <1>1, <1>2, <1>3
  <2>2. n = Len(lead) + Len(raw) + 1
    BY <1>3
  <2> HIDE DEF n
  <2>3. text[n] = end[n - Len(a)]
    BY <1>4, <2>1
  <2> QED
    BY <1>1, <2>1, <2>2, <2>3
<1> QED
  BY <1>1, <1>3, <1>4, <1>5, <1>6, <1>7 DEF text, a, end

\* The places of a part of a text.
LEMMA MiddlePlaces ==
  ASSUME NEW front \in Seq(Byte), NEW text \in Seq(Byte), NEW rest \in Seq(Byte)
  PROVE  LET json == front \o (text \o rest)
         IN /\ json \in Seq(Byte) /\ Len(json) = Len(front) + (Len(text) + Len(rest))
            /\ \A i \in 1..Len(front) : json[i] = front[i]
            /\ \A i \in 1..Len(text) : json[Len(front) + i] = text[i]
<1> DEFINE b == text \o rest
           json == front \o b
<1>1. Len(front) \in Nat /\ Len(text) \in Nat /\ Len(rest) \in Nat
  BY LenProperties
<1>2. /\ b \in Seq(Byte) /\ Len(b) = Len(text) + Len(rest)
      /\ \A i \in 1..Len(text) + Len(rest) : b[i] = IF i =< Len(text) THEN text[i] ELSE rest[i - Len(text)]
  BY ConcatProperties
<1> HIDE DEF b
<1>3. /\ json \in Seq(Byte) /\ Len(json) = Len(front) + Len(b)
      /\ \A i \in 1..Len(front) + Len(b) : json[i] = IF i =< Len(front) THEN front[i] ELSE b[i - Len(front)]
  <2>1. b \in Seq(Byte)
    BY <1>2
  <2> QED
    BY <2>1, ConcatProperties
<1> HIDE DEF json
<1>4. ASSUME NEW i \in 1..Len(front) PROVE json[i] = front[i]
  BY <1>1, <1>2, <1>3
<1>5. ASSUME NEW i \in 1..Len(text) PROVE json[Len(front) + i] = text[i]
  <2>1. /\ Len(front) + i \in 1..Len(front) + Len(b) /\ ~(Len(front) + i =< Len(front))
        /\ (Len(front) + i) - Len(front) = i
    BY <1>1, <1>2
  <2>2. b[i] = text[i]
    BY <1>1, <1>2
  <2> QED
    BY <1>3, <2>1, <2>2
<1> QED
  BY <1>2, <1>3, <1>4, <1>5 DEF json, b

\* A member whose value can be found.
LEMMA MemberFound ==
  ASSUME NEW json \in Seq(Byte), NEW k, NEW p, NEW o, ValueBegins(json, k, p, o),
         NEW raw \in Raws, Findable(raw), o + Len(raw) + 1 =< Len(json), json[o] = Quote,
         \A i \in 1..Len(raw) : json[o + i] = raw[i], json[o + Len(raw) + 1] = Quote
  PROVE  JsonExtractString(json, <<k>>) = raw
<1>1. raw \in Seq(Byte) /\ QuotesBehind(raw) /\ o \in Nat
  BY RawFacts DEF ValueBegins
<1>2. raw # <<>> /\ raw[Len(raw)] # Backslash
  BY FindableEnd
<1>3. Ends(json, o) # {} /\ SubSeq(json, o + 1, Min(Ends(json, o)) - 1) = raw
  BY <1>1, <1>2, RawFound
<1> QED
  BY <1>3, ValueAt

\* extract_media_user_token on the answer with the token.
LEMMA TokenFound ==
  ASSUME NEW raw \in Raws, Findable(raw)
  PROVE  JsonExtractString(<<"{">> \o Member("token", raw) \o <<"}">>, <<"token">>) = raw
<1> DEFINE front == <<"{">>
           lead == <<Quote, "token", Quote, ":", Quote>>
           rest == <<"}">>
           text == lead \o raw \o <<Quote>>
           json == front \o (text \o rest)
           n == Len(raw)
<1>1. "{" \in Byte /\ "}" \in Byte /\ "token" \in Byte /\ ":" \in Byte /\ Quote \in Byte
  BY ByteAssumption DEF Quote
<1>2. "{" # Quote /\ Quote \notin Blanks
  BY DEF Quote, Blanks
<1>3. raw \in Seq(Byte) /\ n \in Nat
  BY RawFacts, LenProperties
<1>4. /\ front \in Seq(Byte) /\ Len(front) = 1 /\ front[1] = "{"
      /\ rest \in Seq(Byte) /\ Len(rest) = 1
  <2>1. \A b \in Byte : <<b>> \in Seq(Byte) /\ Len(<<b>>) = 1 /\ <<b>>[1] = b
    OBVIOUS
  <2> QED
    BY <1>1, <2>1
<1>5. /\ lead \in Seq(Byte) /\ Len(lead) = 5 /\ lead[1] = Quote /\ lead[2] = "token"
      /\ lead[3] = Quote /\ lead[4] = ":" /\ lead[5] = Quote
  <2>1. \A a, b, c, d, e \in Byte :
          /\ <<a, b, c, d, e>> \in Seq(Byte) /\ Len(<<a, b, c, d, e>>) = 5
          /\ <<a, b, c, d, e>>[1] = a /\ <<a, b, c, d, e>>[2] = b /\ <<a, b, c, d, e>>[3] = c
          /\ <<a, b, c, d, e>>[4] = d /\ <<a, b, c, d, e>>[5] = e
    OBVIOUS
  <2> QED
    BY <1>1, <2>1, Zenon
<1>6. Member("token", raw) = text
  BY DEF Member
<1>7. /\ text \in Seq(Byte) /\ Len(text) = Len(lead) + Len(raw) + 1
      /\ \A i \in 1..Len(lead) : text[i] = lead[i]
      /\ \A i \in 1..Len(raw) : text[Len(lead) + i] = raw[i]
      /\ text[Len(lead) + Len(raw) + 1] = Quote
  <2> HIDE DEF lead
  <2> QED
    BY <1>3, <1>5, QuotedPlaces
<1> HIDE DEF front, lead, rest, text
<1>8. front \o text \o rest = json
  <2>1. front \in Seq(Byte) /\ text \in Seq(Byte) /\ rest \in Seq(Byte)
    BY <1>4, <1>7
  <2> QED
    BY <2>1, Regroup
<1>9. /\ json \in Seq(Byte) /\ Len(json) = 1 + (Len(text) + 1) /\ json[1] = "{"
      /\ \A i \in 1..Len(text) : json[1 + i] = text[i]
  <2>1. front \in Seq(Byte) /\ text \in Seq(Byte) /\ rest \in Seq(Byte)
    BY <1>4, <1>7
  <2>2. /\ json \in Seq(Byte) /\ Len(json) = Len(front) + (Len(text) + Len(rest))
        /\ \A i \in 1..Len(front) : json[i] = front[i]
        /\ \A i \in 1..Len(text) : json[Len(front) + i] = text[i]
    BY <2>1, MiddlePlaces
  <2>3. json[1] = "{"
    <3>1. Len(front) = 1
      BY <1>4, Zenon
    <3>2. 1 \in 1..Len(front)
      BY <3>1
    <3> QED
      BY <1>4, <2>2, <3>2
  <2> QED
    BY <1>4, <2>2, <2>3
<1> HIDE DEF json
<1>10. /\ json[2] = Quote /\ json[3] = "token" /\ json[4] = Quote /\ json[5] = ":"
       /\ json[6] = Quote
  <2>1. \A i \in 1..5 : json[1 + i] = lead[i]
    <3> SUFFICES ASSUME NEW i \in 1..5 PROVE json[1 + i] = lead[i]
      OBVIOUS
    <3>1. i \in 1..Len(lead) /\ i \in 1..Len(text)
      BY <1>3, <1>5, <1>7
    <3> QED
      BY <1>7, <1>9, <3>1
  <2>2. json[1 + 1] = lead[1] /\ json[1 + 2] = lead[2] /\ json[1 + 3] = lead[3] /\ json[1 + 4] = lead[4]
        /\ json[1 + 5] = lead[5]
    BY <2>1
  <2> QED
    BY <1>5, <2>2
<1>11. \A i \in 1..n : json[6 + i] = raw[i]
  <2> SUFFICES ASSUME NEW i \in 1..n PROVE json[6 + i] = raw[i]
    OBVIOUS
  <2>1. Len(lead) + i \in 1..Len(text) /\ 1 + (Len(lead) + i) = 6 + i
    BY <1>3, <1>5, <1>7
  <2> QED
    BY <1>7, <1>9, <2>1
<1>12. json[6 + n + 1] = Quote
  <2> DEFINE q == Len(lead) + Len(raw) + 1
  <2>1. q \in 1..Len(text) /\ 1 + q = 6 + n + 1 /\ text[q] = Quote
    BY <1>3, <1>5, <1>7
  <2> HIDE DEF q
  <2>2. json[1 + q] = text[q]
    BY <1>9, <2>1
  <2> QED
    BY <2>1, <2>2
<1>13. Len(json) = n + 8
  <2>1. Len(text) = 5 + n + 1
    BY <1>5, <1>7
  <2>2. Len(json) = 1 + (Len(text) + 1)
    BY <1>9
  <2> QED
    BY <1>3, <2>1, <2>2
<1>14. ValueBegins(json, "token", 2, 6)
  <2>1. KeyAt(json, 2, "token")
    <3>1. 2 + 1 = 3 /\ 2 + 2 = 4
      OBVIOUS
    <3> QED
      BY <1>10, <3>1 DEF KeyAt
  <2>2. \A i \in 1..2 - 1 : ~KeyAt(json, i, "token")
    <3>1. ~KeyAt(json, 1, "token")
      BY <1>2, <1>9 DEF KeyAt
    <3> QED
      BY <3>1
  <2>3. 2 + 3 = 5 /\ (\A i \in 2 + 4..6 - 1 : json[i] \in Blanks) /\ 6 =< Len(json)
    BY <1>3, <1>13
  <2>4. 2 \in Nat /\ 6 \in Nat /\ 2 > 0 /\ 5 < 6
    OBVIOUS
  <2> QED
    BY <1>2, <1>10, <2>1, <2>2, <2>3, <2>4 DEF ValueBegins
<1>15. JsonExtractString(json, <<"token">>) = raw
  <2> DEFINE o == 6
  <2>1. o + Len(raw) + 1 =< Len(json)
    BY <1>3, <1>13
  <2>2. ValueBegins(json, "token", 2, o) /\ json[o] = Quote
    BY <1>10, <1>14
  <2>3. \A i \in 1..Len(raw) : json[o + i] = raw[i]
    BY <1>11
  <2>4. json[o + Len(raw) + 1] = Quote
    BY <1>12
  <2>5. json \in Seq(Byte)
    BY <1>9
  <2> HIDE DEF o
  <2> QED
    BY <2>1, <2>2, <2>3, <2>4, <2>5, MemberFound
<1> QED
  BY <1>6, <1>8, <1>15 DEF front, rest

\* What a text between quotes stands for.
LEMMA DecodedIs ==
  ASSUME NEW raw, NEW text, Meant(raw, text) PROVE Decoded(raw) = text
<1> DEFINE open == <<Quote>>
           s1 == AfterByte(Start, Quote)
           s2 == Read(s1, raw)
           a == open \o raw
<1>1. raw \in Seq(Byte) /\ text \in Seq(Byte) /\ Spells(raw, text)
  BY DEF Meant
<1>2. open \in Seq(Byte) /\ Quote \in Byte
  <2>1. Quote \in Byte
    BY Named
  <2> QED
    BY <2>1
<1>3. In(s1, <<>>, <<>>)
  BY StartOut, ReadOpen
<1>4. Read(Start, open) = s1
  BY <1>2, StartOut, ReadOne
<1> HIDE DEF s1, open
<1>5. In(s2, <<>>, text)
  <2>1. In(s2, <<>>, <<>> \o text)
    BY <1>1, <1>3 DEF Spells
  <2>2. <<>> \o text = text
    BY <1>1, ConcatEmptySeq
  <2> QED
    BY <2>1, <2>2
<1>6. a \in Seq(Byte) /\ Read(Start, a) = s2
  BY <1>1, <1>2, <1>4, StartOut, ReadConcat, ConcatProperties
<1> HIDE DEF s2, a
<1>7. Out(Read(Start, a \o open), Append(<<>>, text))
  <2>1. Read(Start, a \o open) = Read(s2, open)
    BY <1>2, <1>6, StartOut, ReadConcat
  <2>2. Read(s2, open) = AfterByte(s2, Quote)
    BY <1>2, <1>5, InType, ReadOne DEF open
  <2> QED
    BY <1>5, <2>1, <2>2, ReadClose
<1>8. Strings(a \o open) = Append(<<>>, text)
  BY <1>7 DEF Out, Read, Start, Strings
<1>9. Append(<<>>, text)[1] = text
  OBVIOUS
<1> QED
  BY <1>8, <1>9 DEF Decoded, a, open

\* The request with the token, as Apple reads it.
LEMMA RequestRead ==
  ASSUME NEW raw, NEW text, Meant(raw, text)
  PROVE  Strings(MusicTokenBody(<<"0">>, raw)) =
           << <<"guid">>, <<"0">>, <<"assertion">>, text, <<"tcc-acceptance-date">>, <<"1">> >>
<1> DEFINE zero == <<"0">>
           one == <<"1">>
<1>1. MusicTokenBody(zero, raw) = Triple("guid", zero, "assertion", raw, "tcc-acceptance-date", one)
  BY DEF MusicTokenBody, Triple
<1>2. "guid" \in Plain /\ "assertion" \in Plain /\ "tcc-acceptance-date" \in Plain
  BY KeysPlain
<1>3. "0" \in Plain /\ "1" \in Plain
  BY ByteAssumption DEF Plain, Chars, NUL, Letter, Hex, Quote, Backslash
<1>4. \A b \in Plain : <<b>> \in Seq(Byte) /\ Spells(<<b>>, <<b>>)
  <2> SUFFICES ASSUME NEW b \in Plain PROVE <<b>> \in Seq(Byte) /\ Spells(<<b>>, <<b>>)
    OBVIOUS
  <2>1. b \in Byte
    BY DEF Plain, Chars
  <2> QED
    BY <2>1, PlainSpells
<1>5. zero \in Seq(Byte) /\ Spells(zero, zero) /\ one \in Seq(Byte) /\ Spells(one, one)
  BY <1>3, <1>4
<1>6. raw \in Seq(Byte) /\ text \in Seq(Byte) /\ Spells(raw, text)
  BY DEF Meant
<1> HIDE DEF zero, one
<1>7. Strings(Triple("guid", zero, "assertion", raw, "tcc-acceptance-date", one)) =
        << <<"guid">>, zero, <<"assertion">>, text, <<"tcc-acceptance-date">>, one >>
  BY <1>2, <1>5, <1>6, TripleRead
<1> QED
  BY <1>1, <1>7 DEF zero, one

\* What becomes of a token on its way to Apple and to the clients.
LEMMA TokenPasses ==
  ASSUME NEW raw \in Raws, Findable(raw)
  PROVE  LET token == JsonExtractString(<<"{">> \o Member("token", raw) \o <<"}">>, <<"token">>)
             request == Strings(MusicTokenBody(<<"0">>, token))
             answer == Strings(AccountBody(<<"0">>, token, <<"1">>))
         IN /\ Len(request) = 6 /\ request[4] = Decoded(raw)
            /\ Len(answer) = 6 /\ answer[4] = raw
            /\ answer[4] = Decoded(raw) <=> ~Contains(raw, Backslash)
<1> DEFINE token == JsonExtractString(<<"{">> \o Member("token", raw) \o <<"}">>, <<"token">>)
           request == Strings(MusicTokenBody(<<"0">>, token))
           answer == Strings(AccountBody(<<"0">>, token, <<"1">>))
<1>1. token = raw
  BY TokenFound
<1> HIDE DEF token
<1>2. PICK text : Meant(raw, text)
  BY RawFacts
<1>3. Decoded(raw) = text
  BY <1>2, DecodedIs
<1>4. request = << <<"guid">>, <<"0">>, <<"assertion">>, text, <<"tcc-acceptance-date">>, <<"1">> >>
  BY <1>1, <1>2, RequestRead
<1>5. answer = << <<"storefront_id">>, <<"0">>, <<"dev_token">>, raw, <<"music_token">>, <<"1">> >>
  <2>1. raw \in Seq(Chars)
    BY RawFacts
  <2>2. <<"0">> \in Seq(Chars) /\ <<"1">> \in Seq(Chars)
    <3>1. "0" \in Chars /\ "1" \in Chars
      BY ByteAssumption DEF Chars, NUL
    <3> QED
      BY <3>1
  <2> QED
    BY <1>1, <2>1, <2>2, AnswerRead
<1>6. text = raw <=> ~Contains(raw, Backslash)
  <2>1. Len(raw) \in Nat /\ Len(text) \in Nat
    BY <1>2, LenProperties DEF Meant
  <2>2. IF Contains(raw, Backslash) THEN Len(text) < Len(raw) ELSE text = raw
    BY <1>2 DEF Meant
  <2> QED
    BY <2>1, <2>2
<1> HIDE DEF request, answer
<1>7. Len(request) = 6 /\ request[4] = text
  BY <1>4
<1>8. Len(answer) = 6 /\ answer[4] = raw
  BY <1>5
<1> QED
  BY <1>3, <1>6, <1>7, <1>8 DEF request, answer, token

(***************************************************************************)
(* A token with no escape in it reaches the clients as Apple meant it; any *)
(* token reaches Apple again with the meaning that it had.                 *)
(***************************************************************************)
THEOREM TokensPass == CallSpec => []TokenPassesThrough
<1>1. CallOK => TokenPassesThrough
  BY TokenPasses DEF CallOK, TokenPassesThrough
<1> QED
  BY <1>1, CallsTyped, PTL

\* A text in which the key does not stand, not even across its end.
Clean(text) ==
  text \in Seq(Byte) /\ Len(text) > 0 /\ NoKey(text, "k") /\ text[Len(text)] # "k"

\* Two texts without the key in a row, if the key cannot begin at the seam.
LEMMA CleanConcat ==
  ASSUME NEW a, NEW b, Clean(a), Clean(b), b[1] # "k" PROVE Clean(a \o b)
<1> DEFINE all == a \o b
<1>1. /\ a \in Seq(Byte) /\ b \in Seq(Byte) /\ Len(a) \in Nat /\ Len(b) \in Nat
      /\ Len(a) > 0 /\ Len(b) > 0
  BY LenProperties DEF Clean
<1>2. /\ all \in Seq(Byte) /\ Len(all) = Len(a) + Len(b)
      /\ \A i \in 1..Len(a) + Len(b) : all[i] = IF i =< Len(a) THEN a[i] ELSE b[i - Len(a)]
  BY <1>1, ConcatProperties
<1> HIDE DEF all
<1>3. \A i \in 1..Len(a) : all[i] = a[i]
  BY <1>1, <1>2
<1>4. \A i \in 1..Len(b) : all[Len(a) + i] = b[i]
  <2> SUFFICES ASSUME NEW i \in 1..Len(b) PROVE all[Len(a) + i] = b[i]
    OBVIOUS
  <2>1. /\ Len(a) + i \in 1..Len(a) + Len(b) /\ ~(Len(a) + i =< Len(a))
        /\ (Len(a) + i) - Len(a) = i
    BY <1>1
  <2> QED
    BY <1>2, <2>1
<1>5. a[Len(a)] # "k" /\ b[Len(b)] # "k" /\ NoKey(a, "k") /\ NoKey(b, "k")
  BY DEF Clean
<1>6. NoKey(all, "k")
  <2> SUFFICES ASSUME NEW i \in 1..Len(all) - 2, KeyAt(all, i, "k") PROVE FALSE
    BY DEF NoKey
  <2>1. all[i] = Quote /\ all[i + 1] = "k" /\ all[i + 2] = Quote
    BY DEF KeyAt
  <2>2. CASE i + 2 =< Len(a)
    <3>1. i \in 1..Len(a) /\ i + 1 \in 1..Len(a) /\ i + 2 \in 1..Len(a) /\ i \in 1..Len(a) - 2
      BY <1>1, <2>2
    <3>2. a[i] = Quote /\ a[i + 1] = "k" /\ a[i + 2] = Quote
      BY <1>3, <2>1, <3>1
    <3> QED
      BY <1>5, <3>1, <3>2 DEF NoKey, KeyAt
  <2>3. CASE i = Len(a) - 1
    <3>1. i + 1 = Len(a) /\ Len(a) \in 1..Len(a)
      BY <1>1, <2>3
    <3> QED
      BY <1>3, <1>5, <2>1, <3>1
  <2>4. CASE i = Len(a)
    <3>1. i + 1 = Len(a) + 1 /\ 1 \in 1..Len(b)
      BY <1>1, <2>4
    <3> QED
      BY <1>4, <2>1, <3>1
  <2>5. CASE i > Len(a)
    <3> DEFINE j == i - Len(a)
    <3>1. /\ j \in 1..Len(b) - 2 /\ j \in 1..Len(b) /\ j + 1 \in 1..Len(b) /\ j + 2 \in 1..Len(b)
          /\ Len(a) + j = i /\ Len(a) + (j + 1) = i + 1 /\ Len(a) + (j + 2) = i + 2
      BY <1>1, <1>2, <2>5
    <3> HIDE DEF j
    <3>2. b[j] = Quote /\ b[j + 1] = "k" /\ b[j + 2] = Quote
      BY <1>4, <2>1, <3>1
    <3> QED
      BY <1>5, <3>1, <3>2 DEF NoKey, KeyAt
  <2> QED
    BY <1>1, <1>2, <2>2, <2>3, <2>4, <2>5
<1>7. Len(all) > 0 /\ all[Len(all)] # "k"
  <2>1. Len(b) \in 1..Len(b)
    BY <1>1
  <2>2. all[Len(a) + Len(b)] = b[Len(b)]
    BY <1>4, <2>1
  <2> QED
    BY <1>1, <1>2, <1>5, <2>2
<1> QED
  BY <1>2, <1>6, <1>7 DEF Clean, all

\* A single byte other than the key.
LEMMA CleanByte == ASSUME NEW b \in Byte, b # "k" PROVE Clean(<<b>>) /\ <<b>>[1] # "k"
<1>1. <<b>> \in Seq(Byte) /\ Len(<<b>>) = 1 /\ <<b>>[1] = b
  OBVIOUS
<1>2. NoKey(<<b>>, "k")
  BY <1>1 DEF NoKey
<1> QED
  BY <1>1, <1>2 DEF Clean

\* What stands between quotes behind a lead without the key.
LEMMA QuotedClean ==
  ASSUME NEW lead \in Seq(Byte), NEW raw \in Seq(Byte), Len(lead) > 0, lead[Len(lead)] = Quote,
         \A i \in 1..Len(lead) - 1 : lead[i] # Quote \/ lead[i + 1] # "k",
         NoKey(<<Quote>> \o raw \o <<Quote>>, "k")
  PROVE  Clean(lead \o raw \o <<Quote>>)
<1> DEFINE text == lead \o raw \o <<Quote>>
           one == <<Quote>>
           value == one \o raw \o <<Quote>>
           n == Len(raw)
           l == Len(lead)
<1>1. /\ text \in Seq(Byte) /\ Len(text) = l + n + 1
      /\ \A i \in 1..l : text[i] = lead[i]
      /\ \A i \in 1..n : text[l + i] = raw[i]
      /\ text[l + n + 1] = Quote
  BY QuotedPlaces
<1>2. one \in Seq(Byte) /\ Len(one) = 1 /\ one[1] = Quote
  <2>1. Quote \in Byte
    BY Named
  <2> QED
    BY <2>1
<1>3. NoKey(value, "k")
  OBVIOUS
<1> HIDE DEF one
<1>4. /\ Len(value) = 1 + n + 1
      /\ value[1] = Quote
      /\ \A i \in 1..n : value[1 + i] = raw[i]
      /\ value[1 + n + 1] = Quote
  <2>1. /\ Len(value) = Len(one) + n + 1
        /\ \A i \in 1..Len(one) : value[i] = one[i]
        /\ \A i \in 1..n : value[Len(one) + i] = raw[i]
        /\ value[Len(one) + n + 1] = Quote
    BY <1>2, QuotedPlaces
  <2>2. value[1] = one[1]
    BY <1>2, <2>1
  <2> QED
    BY <1>2, <2>1, <2>2
<1>5. n \in Nat /\ l \in Nat /\ l > 0
  BY LenProperties
<1> HIDE DEF text, value, n, l
<1>6. \A j \in 1..n + 2 : text[(l - 1) + j] = value[j]
  <2> SUFFICES ASSUME NEW j \in 1..n + 2 PROVE text[(l - 1) + j] = value[j]
    OBVIOUS
  <2>1. CASE j = 1
    <3>1. (l - 1) + j = l /\ l \in 1..l
      BY <1>5, <2>1
    <3>2. lead[l] = Quote
      BY DEF l
    <3> QED
      BY <1>1, <1>4, <2>1, <3>1, <3>2
  <2>2. CASE j \in 2..n + 1
    <3> DEFINE i == j - 1
    <3>1. i \in 1..n /\ (l - 1) + j = l + i /\ 1 + i = j
      BY <1>5, <2>2
    <3> HIDE DEF i
    <3>2. text[l + i] = raw[i] /\ value[1 + i] = raw[i]
      BY <1>1, <1>4, <3>1
    <3> QED
      BY <3>1, <3>2
  <2>3. CASE j = n + 2
    <3>1. (l - 1) + j = l + n + 1 /\ j = 1 + n + 1
      BY <1>5, <2>3
    <3> QED
      BY <1>1, <1>4, <3>1
  <2> QED
    BY <1>5, <2>1, <2>2, <2>3
<1>7. NoKey(text, "k")
  <2> SUFFICES ASSUME NEW i \in 1..Len(text) - 2, KeyAt(text, i, "k") PROVE FALSE
    BY DEF NoKey
  <2>1. text[i] = Quote /\ text[i + 1] = "k" /\ text[i + 2] = Quote
    BY DEF KeyAt
  <2>2. CASE i < l
    <3>1. i \in 1..l - 1 /\ i \in 1..l /\ i + 1 \in 1..l
      BY <1>5, <2>2
    <3>2. lead[i] = Quote /\ lead[i + 1] = "k"
      BY <1>1, <2>1, <3>1
    <3> QED
      BY <3>1, <3>2 DEF l
  <2>3. CASE i >= l
    <3> DEFINE j == i - (l - 1)
    <3>1. /\ j \in 1..Len(value) - 2 /\ j \in 1..n + 2 /\ j + 1 \in 1..n + 2 /\ j + 2 \in 1..n + 2
          /\ (l - 1) + j = i /\ (l - 1) + (j + 1) = i + 1 /\ (l - 1) + (j + 2) = i + 2
      BY <1>1, <1>4, <1>5, <2>3
    <3> HIDE DEF j
    <3>2. value[j] = Quote /\ value[j + 1] = "k" /\ value[j + 2] = Quote
      BY <1>6, <2>1, <3>1
    <3> QED
      BY <1>3, <3>1, <3>2 DEF NoKey, KeyAt
  <2> QED
    BY <1>5, <2>2, <2>3
<1>8. text \in Seq(Byte) /\ Len(text) > 0 /\ text[Len(text)] # "k"
  <2>1. Quote # "k"
    BY DEF Quote
  <2> QED
    BY <1>1, <1>5, <2>1
<1> QED
  BY <1>7, <1>8 DEF Clean, text

\* What stands before the value of a member.
Lead(key) == <<Quote, key, Quote, ":", Quote>>
LeadBlank(key) == <<Quote, key, Quote, ":", " ", Quote>>

\* Their bytes.
LEMMA LeadFacts ==
  ASSUME NEW key \in Byte
  PROVE  /\ Lead(key) \in Seq(Byte) /\ Len(Lead(key)) = 5
         /\ Lead(key)[1] = Quote /\ Lead(key)[2] = key /\ Lead(key)[3] = Quote
         /\ Lead(key)[4] = ":" /\ Lead(key)[5] = Quote
<1>1. ":" \in Byte /\ Quote \in Byte
  BY ByteAssumption DEF Quote
<1>2. \A a, b, c, d, e \in Byte :
        /\ <<a, b, c, d, e>> \in Seq(Byte) /\ Len(<<a, b, c, d, e>>) = 5
        /\ <<a, b, c, d, e>>[1] = a /\ <<a, b, c, d, e>>[2] = b /\ <<a, b, c, d, e>>[3] = c
        /\ <<a, b, c, d, e>>[4] = d /\ <<a, b, c, d, e>>[5] = e
  OBVIOUS
<1> QED
  BY <1>1, <1>2, Zenon DEF Lead

\* With a blank before the value.
LEMMA LeadBlankFacts ==
  ASSUME NEW key \in Byte
  PROVE  /\ LeadBlank(key) \in Seq(Byte) /\ Len(LeadBlank(key)) = 6
         /\ LeadBlank(key)[1] = Quote /\ LeadBlank(key)[2] = key /\ LeadBlank(key)[3] = Quote
         /\ LeadBlank(key)[4] = ":" /\ LeadBlank(key)[5] = " " /\ LeadBlank(key)[6] = Quote
<1>1. ":" \in Byte /\ " " \in Byte /\ Quote \in Byte
  BY ByteAssumption DEF Quote
<1>2. \A a, b, c, d, e, f \in Byte :
        /\ <<a, b, c, d, e, f>> \in Seq(Byte) /\ Len(<<a, b, c, d, e, f>>) = 6
        /\ <<a, b, c, d, e, f>>[1] = a /\ <<a, b, c, d, e, f>>[2] = b
        /\ <<a, b, c, d, e, f>>[3] = c /\ <<a, b, c, d, e, f>>[4] = d
        /\ <<a, b, c, d, e, f>>[5] = e /\ <<a, b, c, d, e, f>>[6] = f
  OBVIOUS
<1> QED
  BY <1>1, <1>2, Zenon DEF LeadBlank

\* A member's text by its form.
LEMMA TextIs ==
  ASSUME NEW m \in Members
  PROVE  /\ m.key \in Plain /\ m.key \in Byte /\ m.key # Quote /\ m.raw \in Raws
         /\ m.raw \in Seq(Byte) /\ m.form \in {"string", "blank", "number"}
         /\ m.form = "string" => Text(m) = Lead(m.key) \o m.raw \o <<Quote>>
         /\ m.form = "blank" => Text(m) = LeadBlank(m.key) \o m.raw \o <<Quote>>
         /\ m.form = "number" => Text(m) = <<Quote, m.key, Quote, ":", "1">>
<1>1. m.key \in Plain /\ m.raw \in Raws /\ m.form \in {"string", "blank", "number"}
  BY DEF Members
<1>2. m.key \in Byte /\ m.key # Quote
  BY <1>1 DEF Plain, Chars, Letter
<1>3. m.raw \in Seq(Byte)
  BY <1>1, RawFacts
<1>4. m.form = "string" => Text(m) = Lead(m.key) \o m.raw \o <<Quote>>
  BY DEF Text, Member, Lead
<1>5. m.form = "blank" => Text(m) = LeadBlank(m.key) \o m.raw \o <<Quote>>
  BY DEF Text, LeadBlank
<1>6. m.form = "number" => Text(m) = <<Quote, m.key, Quote, ":", "1">>
  BY DEF Text
<1> QED
  BY <1>1, <1>2, <1>3, <1>4, <1>5, <1>6

\* The bytes of a member that is a number.
LEMMA NumberFacts ==
  ASSUME NEW key \in Byte
  PROVE  LET text == <<Quote, key, Quote, ":", "1">>
         IN /\ text \in Seq(Byte) /\ Len(text) = 5
            /\ text[1] = Quote /\ text[2] = key /\ text[3] = Quote
            /\ text[4] = ":" /\ text[5] = "1"
<1>1. ":" \in Byte /\ "1" \in Byte /\ Quote \in Byte
  BY ByteAssumption DEF Quote
<1>2. \A a, b, c, d, e \in Byte :
        /\ <<a, b, c, d, e>> \in Seq(Byte) /\ Len(<<a, b, c, d, e>>) = 5
        /\ <<a, b, c, d, e>>[1] = a /\ <<a, b, c, d, e>>[2] = b /\ <<a, b, c, d, e>>[3] = c
        /\ <<a, b, c, d, e>>[4] = d /\ <<a, b, c, d, e>>[5] = e
  OBVIOUS
<1> QED
  BY <1>1, <1>2, Zenon

\* A member that does not hide the key, and has another one, is free of the key.
LEMMA TextClean ==
  ASSUME NEW m \in Members, m.key # "k", NoKey(<<Quote>> \o m.raw \o <<Quote>>, "k")
  PROVE  Clean(Text(m)) /\ Text(m)[1] # "k"
<1> DEFINE key == m.key
           raw == m.raw
<1>1. key \in Byte /\ key # Quote /\ key # "k" /\ raw \in Seq(Byte)
  BY TextIs
<1>2. Quote # "k" /\ Quote # ":" /\ Quote # " " /\ "1" # "k"
  BY DEF Quote
<1>3. NoKey(<<Quote>> \o raw \o <<Quote>>, "k")
  OBVIOUS
<1> HIDE DEF key, raw
<1>4. CASE m.form = "string"
  <2> DEFINE lead == Lead(key)
             text == lead \o raw \o <<Quote>>
  <2>1. /\ lead \in Seq(Byte) /\ Len(lead) = 5 /\ lead[1] = Quote /\ lead[2] = key
        /\ lead[3] = Quote /\ lead[4] = ":" /\ lead[5] = Quote
    BY <1>1, LeadFacts
  <2>2. Text(m) = text
    BY <1>4, TextIs DEF key, raw
  <2> HIDE DEF lead
  <2>3. Len(lead) = 5
    BY <2>1, Zenon
  <2>4. \A i \in 1..Len(lead) - 1 : lead[i] # Quote \/ lead[i + 1] # "k"
    <3>1. Len(lead) - 1 = 4
      BY <2>3
    <3> SUFFICES ASSUME NEW i \in 1..4 PROVE lead[i] # Quote \/ lead[i + 1] # "k"
      BY <3>1
    <3>2. i = 1 \/ i = 2 \/ i = 3 \/ i = 4
      OBVIOUS
    <3>3. CASE i = 1
      <4>1. lead[1] # Quote \/ lead[2] # "k"
        BY <1>1, <1>2, <2>1, Zenon
      <4> QED
        BY <3>3, <4>1
    <3>4. CASE i = 2
      <4>1. lead[2] # Quote \/ lead[3] # "k"
        BY <1>1, <1>2, <2>1, Zenon
      <4> QED
        BY <3>4, <4>1
    <3>5. CASE i = 3
      <4>1. lead[3] # Quote \/ lead[4] # "k"
        BY <1>1, <1>2, <2>1, Zenon
      <4> QED
        BY <3>5, <4>1
    <3>6. CASE i = 4
      <4>1. lead[4] # Quote \/ lead[5] # "k"
        BY <1>1, <1>2, <2>1, Zenon
      <4> QED
        BY <3>6, <4>1
    <3> QED
      BY <3>2, <3>3, <3>4, <3>5, <3>6
  <2>5. Len(lead) > 0 /\ lead[Len(lead)] = Quote
    <3>1. Len(lead) > 0
      BY <2>3
    <3>2. lead[Len(lead)] = Quote
      BY <2>1, Zenon
    <3> QED
      BY <3>1, <3>2
  <2>6. Clean(text)
    BY <1>1, <1>3, <2>1, <2>4, <2>5, QuotedClean
  <2>7. text[1] = Quote
    <3>1. 1 \in 1..Len(lead)
      BY <2>3
    <3>2. text[1] = lead[1]
      BY <1>1, <2>1, <3>1, QuotedPlaces
    <3> QED
      BY <2>1, <3>2
  <2> QED
    BY <1>2, <2>2, <2>6, <2>7
<1>5. CASE m.form = "blank"
  <2> DEFINE lead == LeadBlank(key)
             text == lead \o raw \o <<Quote>>
  <2>1. /\ lead \in Seq(Byte) /\ Len(lead) = 6 /\ lead[1] = Quote /\ lead[2] = key
        /\ lead[3] = Quote /\ lead[4] = ":" /\ lead[5] = " " /\ lead[6] = Quote
    BY <1>1, LeadBlankFacts
  <2>2. Text(m) = text
    BY <1>5, TextIs DEF key, raw
  <2> HIDE DEF lead
  <2>3. Len(lead) = 6
    BY <2>1, Zenon
  <2>4. \A i \in 1..Len(lead) - 1 : lead[i] # Quote \/ lead[i + 1] # "k"
    <3>1. Len(lead) - 1 = 5
      BY <2>3
    <3> SUFFICES ASSUME NEW i \in 1..5 PROVE lead[i] # Quote \/ lead[i + 1] # "k"
      BY <3>1
    <3>2. i = 1 \/ i = 2 \/ i = 3 \/ i = 4 \/ i = 5
      OBVIOUS
    <3>3. CASE i = 1
      <4>1. lead[1] # Quote \/ lead[2] # "k"
        BY <1>1, <1>2, <2>1, Zenon
      <4> QED
        BY <3>3, <4>1
    <3>4. CASE i = 2
      <4>1. lead[2] # Quote \/ lead[3] # "k"
        BY <1>1, <1>2, <2>1, Zenon
      <4> QED
        BY <3>4, <4>1
    <3>5. CASE i = 3
      <4>1. lead[3] # Quote \/ lead[4] # "k"
        BY <1>1, <1>2, <2>1, Zenon
      <4> QED
        BY <3>5, <4>1
    <3>6. CASE i = 4
      <4>1. lead[4] # Quote \/ lead[5] # "k"
        BY <1>1, <1>2, <2>1, Zenon
      <4> QED
        BY <3>6, <4>1
    <3>7. CASE i = 5
      <4>1. lead[5] # Quote \/ lead[6] # "k"
        BY <1>1, <1>2, <2>1, Zenon
      <4> QED
        BY <3>7, <4>1
    <3> QED
      BY <3>2, <3>3, <3>4, <3>5, <3>6, <3>7
  <2>5. Len(lead) > 0 /\ lead[Len(lead)] = Quote
    <3>1. Len(lead) > 0
      BY <2>3
    <3>2. lead[Len(lead)] = Quote
      BY <2>1, Zenon
    <3> QED
      BY <3>1, <3>2
  <2>6. Clean(text)
    BY <1>1, <1>3, <2>1, <2>4, <2>5, QuotedClean
  <2>7. text[1] = Quote
    <3>1. 1 \in 1..Len(lead)
      BY <2>3
    <3>2. text[1] = lead[1]
      BY <1>1, <2>1, <3>1, QuotedPlaces
    <3> QED
      BY <2>1, <3>2
  <2> QED
    BY <1>2, <2>2, <2>6, <2>7
<1>6. CASE m.form = "number"
  <2> DEFINE text == <<Quote, key, Quote, ":", "1">>
  <2>1. /\ text \in Seq(Byte) /\ Len(text) = 5 /\ text[1] = Quote /\ text[2] = key
        /\ text[3] = Quote /\ text[4] = ":" /\ text[5] = "1"
    BY <1>1, NumberFacts
  <2>2. Text(m) = text
    BY <1>6, TextIs DEF key
  <2> HIDE DEF text
  <2>3. NoKey(text, "k")
    <3>1. Len(text) = 5
      BY <2>1, Zenon
    <3> SUFFICES ASSUME NEW i \in 1..3, KeyAt(text, i, "k") PROVE FALSE
      BY <3>1 DEF NoKey
    <3>2. text[i] = Quote /\ text[i + 1] = "k"
      BY DEF KeyAt
    <3>3. i = 1 \/ i = 2 \/ i = 3
      OBVIOUS
    <3>4. CASE i = 1
      <4>1. text[2] = "k"
        BY <3>2, <3>4
      <4> QED
        BY <1>1, <2>1, <4>1, Zenon
    <3>5. CASE i = 2
      <4>1. text[2] = Quote
        BY <3>2, <3>5
      <4> QED
        BY <1>1, <2>1, <4>1, Zenon
    <3>6. CASE i = 3
      <4>1. text[4] = "k"
        BY <3>2, <3>6
      <4> QED
        BY <1>2, <2>1, <4>1, Zenon
    <3> QED
      BY <3>3, <3>4, <3>5, <3>6
  <2>4. Clean(text)
    <3>1. text \in Seq(Byte) /\ text[Len(text)] # "k"
      BY <1>2, <2>1, Zenon
    <3>2. Len(text) = 5
      BY <2>1, Zenon
    <3>3. Len(text) > 0
      BY <3>2
    <3> QED
      BY <2>3, <3>1, <3>3 DEF Clean
  <2> QED
    BY <1>2, <2>1, <2>2, <2>4
<1> QED
  BY <1>4, <1>5, <1>6, TextIs

\* The text of a member of any form is a text.
LEMMA TextType == ASSUME NEW m \in Members PROVE Text(m) \in Seq(Byte)
<1> DEFINE a == Lead(m.key)
           b == LeadBlank(m.key)
<1>1. /\ m.key \in Byte /\ m.raw \in Seq(Byte) /\ m.form \in {"string", "blank", "number"}
  BY TextIs
<1>2. a \in Seq(Byte) /\ b \in Seq(Byte) /\ <<Quote, m.key, Quote, ":", "1">> \in Seq(Byte)
  BY <1>1, LeadFacts, LeadBlankFacts, NumberFacts
<1> HIDE DEF a, b
<1>3. a \o m.raw \o <<Quote>> \in Seq(Byte) /\ b \o m.raw \o <<Quote>> \in Seq(Byte)
  BY <1>1, <1>2, QuotedPlaces
<1> QED
  BY <1>1, <1>2, <1>3, TextIs DEF a, b

\* The key behind a text without it stands nowhere before.
LEMMA KeyFirst ==
  ASSUME NEW front, Clean(front), NEW text \in Seq(Byte), NEW rest \in Seq(Byte),
         Len(text) >= 5, KeyAt(text, 1, "k"), text[4] = ":"
  PROVE  LET json == front \o (text \o rest)
             p == Len(front) + 1
         IN /\ KeyAt(json, p, "k") /\ json[p + 3] = ":"
            /\ \A i \in 1..p - 1 : ~KeyAt(json, i, "k")
<1> DEFINE json == front \o (text \o rest)
           n == Len(front)
           p == n + 1
<1>1. front \in Seq(Byte) /\ n \in Nat /\ n > 0 /\ NoKey(front, "k") /\ front[n] # "k"
  BY LenProperties DEF Clean
<1>2. /\ json \in Seq(Byte) /\ Len(json) = n + (Len(text) + Len(rest))
      /\ \A i \in 1..n : json[i] = front[i]
      /\ \A i \in 1..Len(text) : json[n + i] = text[i]
  BY <1>1, MiddlePlaces
<1>3. text[1] = Quote /\ text[2] = "k" /\ text[3] = Quote
  <2>1. 1 + 1 = 2 /\ 1 + 2 = 3
    OBVIOUS
  <2> QED
    BY <2>1 DEF KeyAt
<1>4. Len(text) \in Nat /\ Len(text) >= 5
  BY LenProperties
<1> HIDE DEF json, n
<1>5. json[p] = Quote /\ json[p + 1] = "k" /\ json[p + 2] = Quote /\ json[p + 3] = ":"
  <2>1. /\ json[n + 1] = text[1] /\ json[n + 2] = text[2] /\ json[n + 3] = text[3]
        /\ json[n + 4] = text[4]
    BY <1>2, <1>4
  <2>2. p + 1 = n + 2 /\ p + 2 = n + 3 /\ p + 3 = n + 4
    BY <1>1
  <2> HIDE DEF p
  <2>3. p = n + 1
    BY DEF p
  <2> QED
    BY <1>3, <2>1, <2>2, <2>3
<1>6. ASSUME NEW i \in 1..p - 1, KeyAt(json, i, "k") PROVE FALSE
  <2>1. json[i] = Quote /\ json[i + 1] = "k" /\ json[i + 2] = Quote
    BY <1>6 DEF KeyAt
  <2>2. CASE i + 2 =< n
    <3>1. i \in 1..n /\ i + 1 \in 1..n /\ i + 2 \in 1..n /\ i \in 1..n - 2
      BY <1>1, <2>2
    <3>2. front[i] = Quote /\ front[i + 1] = "k" /\ front[i + 2] = Quote
      BY <1>2, <2>1, <3>1
    <3> QED
      BY <1>1, <3>1, <3>2 DEF NoKey, KeyAt, n
  <2>3. CASE i = n - 1
    <3>1. i + 1 = n /\ n \in 1..n
      BY <1>1, <2>3
    <3> QED
      BY <1>1, <1>2, <2>1, <3>1
  <2>4. CASE i = n
    <3>1. i + 1 = p
      BY <1>1, <2>4
    <3>2. Quote # "k"
      BY DEF Quote
    <3> QED
      BY <1>5, <2>1, <3>1, <3>2
  <2> QED
    BY <1>1, <2>2, <2>3, <2>4
<1> QED
  BY <1>5, <1>6 DEF KeyAt, json, n

\* A quoted value that begins behind o bytes of the member's text.
LEMMA QuotedFound ==
  ASSUME NEW front, Clean(front), NEW lead \in Seq(Byte), NEW raw \in Raws, NEW rest \in Seq(Byte),
         Len(lead) >= 5, KeyAt(lead, 1, "k"), lead[4] = ":", lead[Len(lead)] = Quote,
         \A i \in 5..Len(lead) - 1 : lead[i] \in Blanks, Findable(raw)
  PROVE  JsonExtractString(front \o ((lead \o raw \o <<Quote>>) \o rest), <<"k">>) = raw
<1> DEFINE text == lead \o raw \o <<Quote>>
           json == front \o (text \o rest)
           n == Len(front)
           l == Len(lead)
           m == Len(raw)
           p == n + 1
           o == n + l
<1>1. raw \in Seq(Byte) /\ front \in Seq(Byte)
  BY RawFacts DEF Clean
<1>2. n \in Nat /\ l \in Nat /\ l >= 5 /\ m \in Nat /\ Len(rest) \in Nat
  BY <1>1, LenProperties
<1>3. /\ text \in Seq(Byte) /\ Len(text) = l + m + 1
      /\ \A i \in 1..l : text[i] = lead[i]
      /\ \A i \in 1..m : text[l + i] = raw[i]
      /\ text[l + m + 1] = Quote
  BY <1>1, QuotedPlaces
<1>4. lead[1] = Quote /\ lead[2] = "k" /\ lead[3] = Quote /\ lead[l] = Quote
  <2>1. 1 + 1 = 2 /\ 1 + 2 = 3
    OBVIOUS
  <2> QED
    BY <2>1 DEF KeyAt
<1> HIDE DEF text
<1>5. /\ json \in Seq(Byte) /\ Len(json) = n + (Len(text) + Len(rest))
      /\ \A i \in 1..Len(text) : json[n + i] = text[i]
  <2>1. front \in Seq(Byte) /\ text \in Seq(Byte)
    BY <1>1, <1>3
  <2> QED
    BY <2>1, MiddlePlaces
<1>6. text[1] = Quote /\ text[2] = "k" /\ text[3] = Quote /\ text[4] = ":"
  <2>1. 1 \in 1..l /\ 2 \in 1..l /\ 3 \in 1..l /\ 4 \in 1..l
    BY <1>2
  <2> QED
    BY <1>3, <1>4, <2>1
<1>7. Len(text) >= 5
  BY <1>2, <1>3
<1>8. KeyAt(text, 1, "k")
  <2>1. 1 + 1 = 2 /\ 1 + 2 = 3
    OBVIOUS
  <2> QED
    BY <1>6, <2>1 DEF KeyAt
<1>9. /\ KeyAt(json, p, "k") /\ json[p + 3] = ":"
      /\ \A i \in 1..p - 1 : ~KeyAt(json, i, "k")
  BY <1>3, <1>6, <1>7, <1>8, KeyFirst
<1> HIDE DEF json, n, l, m
<1>10. \A i \in 1..l : json[n + i] = lead[i]
  <2> SUFFICES ASSUME NEW i \in 1..l PROVE json[n + i] = lead[i]
    OBVIOUS
  <2>1. i \in 1..Len(text)
    BY <1>2, <1>3
  <2> QED
    BY <1>3, <1>5, <2>1
<1>11. json[o] = Quote
  <2>1. l \in 1..l
    BY <1>2
  <2> QED
    BY <1>4, <1>10, <2>1
<1>12. \A i \in p + 4..o - 1 : json[i] \in Blanks
  <2> SUFFICES ASSUME NEW i \in p + 4..o - 1 PROVE json[i] \in Blanks
    OBVIOUS
  <2> DEFINE j == i - n
  <2>1. j \in 5..l - 1 /\ j \in 1..l /\ n + j = i
    BY <1>2
  <2> HIDE DEF j
  <2>2. json[i] = lead[j] /\ lead[j] \in Blanks
    BY <1>10, <2>1 DEF l
  <2> QED
    BY <2>2
<1>13. \A i \in 1..m : json[o + i] = raw[i]
  <2> SUFFICES ASSUME NEW i \in 1..m PROVE json[o + i] = raw[i]
    OBVIOUS
  <2>1. l + i \in 1..Len(text) /\ n + (l + i) = o + i
    BY <1>2, <1>3
  <2> QED
    BY <1>3, <1>5, <2>1
<1>14. json[o + m + 1] = Quote
  <2>1. l + m + 1 \in 1..Len(text) /\ n + (l + m + 1) = o + m + 1
    BY <1>2, <1>3
  <2> QED
    BY <1>3, <1>5, <2>1
<1>15. /\ p \in Nat /\ o \in Nat /\ p > 0 /\ p + 3 < o
       /\ o + m + 1 =< Len(json) /\ o =< Len(json)
  BY <1>2, <1>3, <1>5
<1> HIDE DEF p, o
<1>16. ValueBegins(json, "k", p, o)
  <2>1. json[o] \notin Blanks
    BY <1>11 DEF Blanks, Quote
  <2> QED
    BY <1>9, <1>12, <1>15, <2>1 DEF ValueBegins
<1>17. JsonExtractString(json, <<"k">>) = raw
  <2>1. json \in Seq(Byte) /\ o + Len(raw) + 1 =< Len(json)
    BY <1>5, <1>15 DEF m
  <2>2. (\A i \in 1..Len(raw) : json[o + i] = raw[i]) /\ json[o + Len(raw) + 1] = Quote
    BY <1>13, <1>14 DEF m
  <2> QED
    BY <1>11, <1>16, <2>1, <2>2, MemberFound
<1> QED
  BY <1>17 DEF json, text

\* A value that is a number is not taken for a string.
LEMMA NumberRefused ==
  ASSUME NEW front, Clean(front), NEW rest \in Seq(Byte), "k" \in Byte
  PROVE  JsonExtractString(front \o (<<Quote, "k", Quote, ":", "1">> \o rest), <<"k">>) = NULL
<1> DEFINE text == <<Quote, "k", Quote, ":", "1">>
           json == front \o (text \o rest)
           n == Len(front)
           p == n + 1
           o == n + 5
<1>1. front \in Seq(Byte) /\ n \in Nat /\ Len(rest) \in Nat
  BY LenProperties DEF Clean
<1>2. /\ text \in Seq(Byte) /\ Len(text) = 5
      /\ text[1] = Quote /\ text[2] = "k" /\ text[3] = Quote
      /\ text[4] = ":" /\ text[5] = "1"
  BY NumberFacts
<1> HIDE DEF text
<1>3. Len(text) = 5 /\ text \in Seq(Byte)
  BY ONLY <1>2
<1>4. /\ json \in Seq(Byte) /\ Len(json) = n + (Len(text) + Len(rest))
      /\ \A i \in 1..Len(text) : json[n + i] = text[i]
  <2>1. front \in Seq(Byte) /\ text \in Seq(Byte) /\ rest \in Seq(Byte)
    BY <1>1, <1>3
  <2> QED
    BY ONLY <2>1, MiddlePlaces
<1>5. KeyAt(text, 1, "k") /\ text[4] = ":" /\ Len(text) >= 5
  <2>1. 1 + 1 = 2 /\ 1 + 2 = 3
    OBVIOUS
  <2>2. KeyAt(text, 1, "k") /\ text[4] = ":"
    BY <1>2, <2>1, Zenon DEF KeyAt
  <2> QED
    BY <1>3, <2>2
<1>6. /\ KeyAt(json, p, "k") /\ json[p + 3] = ":"
      /\ \A i \in 1..p - 1 : ~KeyAt(json, i, "k")
  BY <1>3, <1>5, KeyFirst
<1> HIDE DEF json, n
<1>7. json[o] = "1"
  <2>1. 5 \in 1..Len(text)
    BY <1>3
  <2>2. json[n + 5] = text[5]
    BY <1>4, <2>1
  <2>3. text[5] = "1"
    BY <1>2, Zenon
  <2> QED
    BY <2>2, <2>3
<1>8. p \in Nat /\ o \in Nat /\ p > 0 /\ p + 3 < o /\ o =< Len(json) /\ p + 4 > o - 1
  BY <1>1, <1>3, <1>4
<1>9. json[o] \notin Blanks /\ json[o] # Quote
  BY <1>7 DEF Blanks, Quote
<1>10. \A i \in p + 4..o - 1 : json[i] \in Blanks
  BY <1>8
<1> HIDE DEF p, o
<1>11. ValueBegins(json, "k", p, o)
  BY <1>6, <1>8, <1>9, <1>10 DEF ValueBegins
<1>12. JsonExtractString(json, <<"k">>) = NULL
  BY <1>4, <1>9, <1>11, ValueAt
<1> QED
  BY <1>12 DEF json, text

\* The first member with the key, in a text that is free of the key up to it.
LEMMA FirstFound ==
  ASSUME NEW front, Clean(front), NEW m \in Members, m.key = "k", NEW rest \in Seq(Byte)
  PROVE  LET got == JsonExtractString(front \o (Text(m) \o rest), <<"k">>)
         IN IF m.form = "number" THEN got = NULL ELSE Findable(m.raw) => got = m.raw
<1>1. m.form \in {"string", "blank", "number"} /\ "k" \in Byte /\ m.raw \in Raws
  BY TextIs
<1>2. CASE m.form = "number"
  <2>1. Text(m) = <<Quote, "k", Quote, ":", "1">>
    BY <1>2, TextIs
  <2> QED
    BY <1>1, <1>2, <2>1, NumberRefused
<1>3. CASE m.form = "string" /\ Findable(m.raw)
  <2> DEFINE lead == Lead("k")
  <2>1. /\ lead \in Seq(Byte) /\ Len(lead) = 5 /\ lead[1] = Quote /\ lead[2] = "k"
        /\ lead[3] = Quote /\ lead[4] = ":" /\ lead[5] = Quote
    BY <1>1, LeadFacts
  <2>2. Text(m) = lead \o m.raw \o <<Quote>>
    BY <1>3, TextIs
  <2> HIDE DEF lead
  <2>3. Len(lead) = 5
    BY <2>1, Zenon
  <2>4. lead \in Seq(Byte) /\ lead[4] = ":" /\ lead[Len(lead)] = Quote
    BY <2>1, Zenon
  <2>5. KeyAt(lead, 1, "k")
    <3>1. 1 + 1 = 2 /\ 1 + 2 = 3
      OBVIOUS
    <3> QED
      BY <2>1, <3>1, Zenon DEF KeyAt
  <2>6. Len(lead) >= 5 /\ \A i \in 5..Len(lead) - 1 : lead[i] \in Blanks
    BY <2>3
  <2>7. JsonExtractString(front \o ((lead \o m.raw \o <<Quote>>) \o rest), <<"k">>) = m.raw
    BY <1>1, <1>3, <2>4, <2>5, <2>6, QuotedFound
  <2> QED
    BY <1>3, <2>2, <2>7
<1>4. CASE m.form = "blank" /\ Findable(m.raw)
  <2> DEFINE lead == LeadBlank("k")
  <2>1. /\ lead \in Seq(Byte) /\ Len(lead) = 6 /\ lead[1] = Quote /\ lead[2] = "k"
        /\ lead[3] = Quote /\ lead[4] = ":" /\ lead[5] = " " /\ lead[6] = Quote
    BY <1>1, LeadBlankFacts
  <2>2. Text(m) = lead \o m.raw \o <<Quote>>
    BY <1>4, TextIs
  <2> HIDE DEF lead
  <2>3. Len(lead) = 6
    BY <2>1, Zenon
  <2>4. lead \in Seq(Byte) /\ lead[4] = ":" /\ lead[Len(lead)] = Quote
    BY <2>1, Zenon
  <2>5. KeyAt(lead, 1, "k")
    <3>1. 1 + 1 = 2 /\ 1 + 2 = 3
      OBVIOUS
    <3> QED
      BY <2>1, <3>1, Zenon DEF KeyAt
  <2>6. Len(lead) >= 5 /\ \A i \in 5..Len(lead) - 1 : lead[i] \in Blanks
    <3>1. " " \in Blanks
      BY DEF Blanks
    <3>2. lead[5] \in Blanks
      BY <2>1, <3>1, Zenon
    <3>3. Len(lead) >= 5 /\ \A i \in 5..Len(lead) - 1 : i = 5
      BY <2>3
    <3> QED
      BY <3>2, <3>3, Zenon
  <2>7. JsonExtractString(front \o ((lead \o m.raw \o <<Quote>>) \o rest), <<"k">>) = m.raw
    BY <1>1, <1>4, <2>4, <2>5, <2>6, QuotedFound
  <2> QED
    BY <1>4, <2>2, <2>7
<1> QED
  BY <1>1, <1>2, <1>3, <1>4

\* What stands before a member, and an object without its end.
Sep(n) == IF n = 0 THEN <<>> ELSE <<",">>
Body(members) ==
  <<"{">> \o FlattenSeq([i \in 1..Len(members) |->
                           (IF i = 1 THEN <<>> ELSE <<",">>) \o Text(members[i])])

\* A byte is a text.
LEMMA OneByte == ASSUME NEW b \in Byte PROVE <<b>> \in Seq(Byte)
OBVIOUS

\* An object without members, and one member more.
LEMMA BodyEmpty == Body(<<>>) = <<"{">> /\ <<"{">> \in Seq(Byte)
<1> DEFINE z == <<>>
           parts == [i \in 1..Len(z) |-> (IF i = 1 THEN <<>> ELSE <<",">>) \o Text(z[i])]
<1>1. parts = <<>>
  OBVIOUS
<1>2. FlattenSeq(parts) = <<>>
  BY <1>1, FlattenEmpty
<1>3. <<"{">> \in Seq(Byte)
  <2>1. "{" \in Byte
    BY Named
  <2> QED
    BY <2>1, OneByte
<1>4. <<"{">> \o <<>> = <<"{">>
  BY <1>3, ConcatEmptySeq
<1>5. Body(z) = <<"{">> \o FlattenSeq(parts)
  BY DEF Body
<1> QED
  BY <1>2, <1>3, <1>4, <1>5

\* What stands before a member is a text.
LEMMA SepType == ASSUME NEW n PROVE Sep(n) \in Seq(Byte)
<1>1. "," \in Byte
  BY Named
<1>2. <<",">> \in Seq(Byte) /\ <<>> \in Seq(Byte)
  BY <1>1, EmptySeq, OneByte
<1> QED
  BY <1>2 DEF Sep

\* One member more stands behind those before it.
LEMMA BodyAppend ==
  ASSUME NEW ms \in Seq(Members), NEW m \in Members
  PROVE  /\ Body(ms) \in Seq(Byte)
         /\ Body(Append(ms, m)) = Body(ms) \o (Sep(Len(ms)) \o Text(m))
<1> DEFINE longer == Append(ms, m)
           n == Len(ms)
           Part(i, x) == (IF i = 1 THEN <<>> ELSE <<",">>) \o Text(x)
           parts == [i \in 1..n |-> Part(i, ms[i])]
           more == [i \in 1..Len(longer) |-> Part(i, longer[i])]
           part == Sep(n) \o Text(m)
           open == <<"{">>
<1>1. n \in Nat /\ \A i \in 1..n : ms[i] \in Members
  BY LenProperties
<1>2. /\ Len(longer) = n + 1 /\ longer[n + 1] = m
      /\ \A i \in 1..n : longer[i] = ms[i]
  BY AppendProperties
<1>3. \A i, x : x \in Members => Part(i, x) \in Seq(Byte)
  <2> SUFFICES ASSUME NEW i, NEW x \in Members PROVE Part(i, x) \in Seq(Byte)
    OBVIOUS
  <2> DEFINE s == IF i = 1 THEN <<>> ELSE <<",">>
  <2>1. s \in Seq(Byte)
    <3>1. Sep(0) \in Seq(Byte) /\ Sep(1) \in Seq(Byte)
      BY SepType
    <3>2. Sep(0) = <<>> /\ Sep(1) = <<",">>
      BY DEF Sep
    <3> QED
      BY <3>1, <3>2
  <2>2. Text(x) \in Seq(Byte)
    BY TextType
  <2> HIDE DEF s
  <2>3. s \o Text(x) \in Seq(Byte)
    BY <2>1, <2>2, ConcatProperties
  <2> QED
    BY <2>3 DEF s
<1>4. Part(n + 1, m) = part
  <2>1. n + 1 = 1 <=> n = 0
    BY <1>1
  <2> QED
    BY <2>1 DEF Sep
<1>5. Body(ms) = open \o FlattenSeq(parts) /\ Body(longer) = open \o FlattenSeq(more)
  BY DEF Body
<1>6. open \in Seq(Byte)
  BY BodyEmpty
<1> HIDE DEF longer, Part, n, part, open
<1>7. parts \in Seq(Seq(Byte)) /\ Len(parts) = n
  <2>1. \A i \in 1..n : Part(i, ms[i]) \in Seq(Byte)
    BY <1>1, <1>3
  <2> QED
    BY <1>1, <2>1
<1>8. more \in Seq(Seq(Byte)) /\ Len(more) = n + 1
  <2>1. \A i \in 1..n + 1 : Part(i, longer[i]) \in Seq(Byte)
    <3> SUFFICES ASSUME NEW i \in 1..n + 1 PROVE Part(i, longer[i]) \in Seq(Byte)
      OBVIOUS
    <3>1. i \in 1..n \/ i = n + 1
      BY <1>1
    <3>2. longer[i] \in Members
      BY <1>1, <1>2, <3>1
    <3> QED
      BY <1>3, <3>2
  <2> QED
    BY <1>1, <1>2, <2>1
<1>9. more[n + 1] = part /\ \A i \in 1..n : more[i] = parts[i]
  <2>1. n + 1 \in 1..Len(longer) /\ \A i \in 1..n : i \in 1..Len(longer)
    BY <1>1, <1>2
  <2> QED
    BY <1>2, <1>4, <2>1
<1>10. part \in Seq(Byte)
  BY <1>3, <1>4
<1> HIDE DEF parts, more
<1>11. Append(parts, part) = more
  BY <1>7, <1>8, <1>9, <1>10, AppendMakes
<1>12. FlattenSeq(Append(parts, part)) = FlattenSeq(parts) \o part
  BY <1>7, <1>10, FlattenAppend
<1>13. FlattenSeq(parts) \in Seq(Byte)
  BY <1>7, FlattenType
<1>14. open \o (FlattenSeq(parts) \o part) = (open \o FlattenSeq(parts)) \o part
  BY <1>6, <1>10, <1>13, Regroup
<1>15. open \o FlattenSeq(parts) \in Seq(Byte)
  BY <1>6, <1>13, ConcatProperties
<1> QED
  BY <1>5, <1>11, <1>12, <1>14, <1>15 DEF longer, part, n

\* The value of a member holds the key between quotes.
Hides(m) == ~NoKey(<<Quote>> \o m.raw \o <<Quote>>, "k")

\* The text of the members so far: a value before the key hides it, or the key is not
\* there, or it stands behind a text without it.
Misled(ms) == \E i \in 1..Len(ms) : Hides(ms[i]) /\ \A j \in 1..i : ms[j].key # "k"
Absent(ms) == Clean(Body(ms)) /\ \A i \in 1..Len(ms) : ms[i].key # "k"
Present(ms, f, front, rest) ==
  /\ f \in 1..Len(ms) /\ ms[f].key = "k" /\ \A i \in 1..f - 1 : ms[i].key # "k"
  /\ Clean(front) /\ rest \in Seq(Byte) /\ Body(ms) = front \o (Text(ms[f]) \o rest)
Found(ms) == \E f, front, rest : Present(ms, f, front, rest)

\* Without members the key is absent.
LEMMA SplitEmpty == Absent(<<>>)
<1>1. "{" \in Byte /\ "{" # "k"
  BY Named
<1>2. Clean(<<"{">>)
  BY <1>1, CleanByte
<1> DEFINE z == <<>>
<1>3. Len(z) = 0
  OBVIOUS
<1>4. Body(z) = <<"{">>
  BY BodyEmpty
<1> HIDE DEF z
<1>5. Clean(Body(z))
  BY <1>2, <1>4
<1>6. \A i \in 1..Len(z) : z[i].key # "k"
  BY <1>3
<1>7. Absent(z)
  BY <1>5, <1>6 DEF Absent
<1> QED
  BY <1>7 DEF z

\* What stands before a member does not bring the key.
LEMMA SepClean ==
  ASSUME NEW front, Clean(front), NEW n PROVE Clean(front \o Sep(n))
<1>1. CASE n = 0
  <2>1. front \o <<>> = front
    BY ConcatEmptySeq DEF Clean
  <2> QED
    BY <1>1, <2>1 DEF Sep
<1>2. CASE n # 0
  <2>1. "," \in Byte /\ "," # "k"
    BY Named
  <2>2. Clean(<<",">>) /\ <<",">>[1] # "k"
    BY <2>1, CleanByte
  <2>3. Clean(front \o <<",">>)
    BY <2>2, CleanConcat
  <2> QED
    BY <1>2, <2>3 DEF Sep
<1> QED
  BY <1>1, <1>2

\* The three cases with one member more.
LEMMA SplitAppend ==
  ASSUME NEW ms \in Seq(Members), NEW m \in Members, Misled(ms) \/ Absent(ms) \/ Found(ms)
  PROVE  LET longer == Append(ms, m) IN Misled(longer) \/ Absent(longer) \/ Found(longer)
<1> DEFINE longer == Append(ms, m)
           n == Len(ms)
           listed == Body(ms)
           sep == Sep(n)
           text == Text(m)
           part == sep \o text
<1>1. n \in Nat
  BY LenProperties
<1>2. /\ Len(longer) = n + 1 /\ longer[n + 1] = m
      /\ \A i \in 1..n : longer[i] = ms[i]
  BY AppendProperties
<1>3. listed \in Seq(Byte) /\ Body(longer) = listed \o part
  BY BodyAppend
<1>4. sep \in Seq(Byte) /\ text \in Seq(Byte)
  BY SepType, TextType
<1>5. part \in Seq(Byte)
  BY <1>4, ConcatProperties
<1> HIDE DEF longer, n, listed, sep, text, part
<1>6. ASSUME Misled(ms) PROVE Misled(longer)
  <2>1. PICK i \in 1..n : Hides(ms[i]) /\ \A j \in 1..i : ms[j].key # "k"
    BY <1>6 DEF Misled, n
  <2>2. i \in 1..Len(longer) /\ \A j \in 1..i : j \in 1..n
    BY <1>1, <1>2
  <2>3. Hides(longer[i]) /\ \A j \in 1..i : longer[j].key # "k"
    BY <1>2, <2>1, <2>2
  <2> QED
    BY <2>2, <2>3 DEF Misled
<1>7. ASSUME Found(ms) PROVE Found(longer)
  <2>1. PICK f, front, rest : Present(ms, f, front, rest)
    BY <1>7 DEF Found
  <2> DEFINE member == Text(ms[f])
             more == rest \o part
  <2>2. /\ f \in 1..n /\ ms[f].key = "k" /\ (\A i \in 1..f - 1 : ms[i].key # "k")
        /\ Clean(front) /\ rest \in Seq(Byte) /\ listed = front \o (member \o rest)
    BY <2>1 DEF Present, n, listed
  <2>3. ms[f] \in Members
    BY <2>2, LenProperties DEF n
  <2>4. member \in Seq(Byte) /\ front \in Seq(Byte)
    BY <2>2, <2>3, TextType DEF Clean
  <2> HIDE DEF member
  <2>5. more \in Seq(Byte)
    BY <1>5, <2>2, ConcatProperties
  <2>6. member \o rest \in Seq(Byte)
    BY <2>2, <2>4, ConcatProperties
  <2>7. (front \o (member \o rest)) \o part = front \o ((member \o rest) \o part)
    <3> DEFINE middle == member \o rest
    <3>1. front \in Seq(Byte) /\ middle \in Seq(Byte) /\ part \in Seq(Byte)
      BY <1>5, <2>4, <2>6
    <3> HIDE DEF middle
    <3>2. (front \o middle) \o part = front \o (middle \o part)
      BY ONLY <3>1, Regroup
    <3> QED
      BY <3>2 DEF middle
  <2>8. (member \o rest) \o part = member \o more
    <3>1. member \in Seq(Byte) /\ rest \in Seq(Byte) /\ part \in Seq(Byte)
      BY <1>5, <2>2, <2>4
    <3>2. (member \o rest) \o part = member \o (rest \o part)
      BY ONLY <3>1, Regroup
    <3> QED
      BY <3>2
  <2>9. Body(longer) = front \o (member \o more)
    BY <1>3, <2>2, <2>7, <2>8
  <2>10. /\ f \in 1..Len(longer) /\ longer[f] = ms[f]
         /\ \A i \in 1..f - 1 : longer[i] = ms[i]
    BY <1>1, <1>2, <2>2
  <2> HIDE DEF more
  <2>11. Present(longer, f, front, more)
    BY <2>2, <2>5, <2>9, <2>10 DEF Present, member
  <2> QED
    BY <2>11 DEF Found
<1>8. ASSUME Absent(ms) PROVE Misled(longer) \/ Absent(longer) \/ Found(longer)
  <2>1. Clean(listed) /\ \A i \in 1..n : ms[i].key # "k"
    BY <1>8 DEF Absent, n, listed
  <2>2. Clean(listed \o sep)
    BY <2>1, SepClean DEF sep
  <2>3. Body(longer) = (listed \o sep) \o text
    BY <1>3, <1>4, Regroup DEF part
  <2>4. CASE m.key = "k"
    <3>1. text \o <<>> = text /\ <<>> \in Seq(Byte)
      BY <1>4, ConcatEmptySeq, EmptySeq
    <3>2. Body(longer) = (listed \o sep) \o (text \o <<>>)
      BY <2>3, <3>1
    <3>3. n + 1 \in 1..Len(longer) /\ (n + 1) - 1 = n
      BY <1>1, <1>2
    <3>4. Present(longer, n + 1, listed \o sep, <<>>)
      BY <1>2, <2>1, <2>2, <2>4, <3>1, <3>2, <3>3 DEF Present, text
    <3> QED
      BY <3>4 DEF Found
  <2>5. \A j \in 1..n + 1 : m.key # "k" => longer[j].key # "k"
    <3> SUFFICES ASSUME NEW j \in 1..n + 1, m.key # "k" PROVE longer[j].key # "k"
      OBVIOUS
    <3>1. j \in 1..n \/ j = n + 1
      BY <1>1
    <3> QED
      BY <1>2, <2>1, <3>1
  <2>6. CASE m.key # "k" /\ Hides(m)
    <3>1. n + 1 \in 1..Len(longer)
      BY <1>1, <1>2
    <3> QED
      BY <1>2, <2>5, <2>6, <3>1 DEF Misled
  <2>7. CASE m.key # "k" /\ ~Hides(m)
    <3>1. Clean(text) /\ text[1] # "k"
      BY <2>7, TextClean DEF Hides, text
    <3>2. Clean((listed \o sep) \o text)
      BY <2>2, <3>1, CleanConcat
    <3> QED
      BY <1>2, <2>3, <2>5, <2>7, <3>2 DEF Absent
  <2> QED
    BY <2>4, <2>6, <2>7
<1> QED
  BY <1>6, <1>7, <1>8 DEF longer

\* One of the three cases holds for any members.
LEMMA SplitAll ==
  ASSUME NEW ms \in Seq(Members) PROVE Misled(ms) \/ Absent(ms) \/ Found(ms)
<1> DEFINE T == {s \in Seq(Members) : Misled(s) \/ Absent(s) \/ Found(s)}
<1>1. <<>> \in T
  BY SplitEmpty, EmptySeq
<1>2. ASSUME NEW s \in Seq(Members), NEW m \in Members, s \in T PROVE Append(s, m) \in T
  <2>1. Append(s, m) \in Seq(Members)
    BY AppendProperties
  <2> QED
    BY <1>2, <2>1, SplitAppend
<1>3. Seq(Members) \subseteq T
  <2> HIDE DEF T
  <2> QED
    BY <1>1, <1>2, SequenceInduction
<1> QED
  BY <1>3

\* The precondition of the property is that no value before the key hides it.
LEMMA HidesIs ==
  ASSUME NEW m \in Members
  PROVE  Strstr(<<Quote>> \o m.raw \o <<Quote>>, <<Quote, "k", Quote>>) = 0 <=> ~Hides(m)
<1> DEFINE one == <<Quote>>
           value == one \o m.raw \o <<Quote>>
<1>1. m.raw \in Seq(Byte)
  BY TextIs
<1>2. one \in Seq(Byte)
  BY Named, OneByte
<1> HIDE DEF one
<1>3. value \in Seq(Byte)
  BY <1>1, <1>2, QuotedPlaces
<1> HIDE DEF value
<1>4. Strstr(value, Needle("k")) = 0 <=> NoKey(value, "k")
  BY <1>3, KeyMissing
<1> QED
  BY <1>4 DEF Hides, Needle, value, one

\* Without the key, nothing is found.
LEMMA AbsentRefused ==
  ASSUME NEW text, Clean(text) PROVE JsonExtractString(text, <<"k">>) = NULL
<1>1. text \in Seq(Byte) /\ NoKey(text, "k")
  BY DEF Clean
<1>2. Strstr(text, Needle("k")) = 0
  BY <1>1, KeyMissing
<1>3. <<Quote>> \o <<"k">> \o <<Quote>> = Needle("k")
  BY NeedleIs
<1> QED
  BY <1>2, <1>3 DEF JsonExtractString

\* json_extract_string on an object with any members.
LEMMA ExtractFinds ==
  ASSUME NEW members \in Seq(Members)
  PROVE  LET first == SelectInSeq(members, LAMBDA m : m.key = "k")
             earlier == 1..(IF first = 0 THEN Len(members) ELSE first - 1)
             got == JsonExtractString(Object(members), <<"k">>)
         IN (\A i \in earlier : Strstr(<<Quote>> \o members[i].raw \o <<Quote>>, <<Quote, "k", Quote>>) = 0)
            => IF first = 0 \/ members[first].form = "number" THEN got = NULL
               ELSE Findable(members[first].raw) => got = members[first].raw
<1> DEFINE I == {i \in 1..Len(members) : members[i].key = "k"}
           first == SelectInSeq(members, LAMBDA m : m.key = "k")
           earlier == 1..(IF first = 0 THEN Len(members) ELSE first - 1)
           object == Object(members)
           got == JsonExtractString(object, <<"k">>)
           n == Len(members)
<1>1. first = IF I # {} THEN Min(I) ELSE 0
  BY DEF SelectInSeq
<1>2. n \in Nat /\ \A i \in 1..n : members[i] \in Members
  BY LenProperties
<1>3. I \in SUBSET Nat /\ I \subseteq 1..n
  BY <1>2
<1>4. I # {} => Min(I) \in I /\ \A i \in I : Min(I) =< i
  BY <1>3, LeastNumber
<1> HIDE DEF first
<1>5. \/ first = 0 /\ \A i \in 1..n : members[i].key # "k"
      \/ /\ first \in 1..n /\ members[first].key = "k"
         /\ \A i \in 1..first - 1 : members[i].key # "k"
  <2>1. CASE I = {}
    BY <1>1, <2>1
  <2>2. CASE I # {}
    <3>1. first \in I /\ \A i \in I : first =< i
      BY <1>1, <1>4, <2>2
    <3>2. \A i \in 1..first - 1 : i \notin I /\ i \in 1..n
      BY <1>2, <1>3, <3>1
    <3> QED
      BY <3>1, <3>2
  <2> QED
    BY <2>1, <2>2
<1>6. object = Body(members) \o <<"}">>
  BY DEF Object, Body
<1>7. "}" \in Byte /\ "}" # "k"
  BY Named
<1>8. <<"}">> \in Seq(Byte)
  BY <1>7, OneByte
<1> HIDE DEF I, object, n
<1> SUFFICES ASSUME \A i \in earlier : Strstr(<<Quote>> \o members[i].raw \o <<Quote>>, <<Quote, "k", Quote>>) = 0
             PROVE  IF first = 0 \/ members[first].form = "number" THEN got = NULL
                    ELSE Findable(members[first].raw) => got = members[first].raw
  BY DEF first, object
<1>9. \A i \in earlier : i \in 1..n /\ ~Hides(members[i])
  <2> SUFFICES ASSUME NEW i \in earlier PROVE i \in 1..n /\ ~Hides(members[i])
    OBVIOUS
  <2>1. i \in 1..n
    BY <1>2, <1>5 DEF n
  <2>2. members[i] \in Members
    BY <1>2, <2>1
  <2> QED
    BY <2>1, <2>2, HidesIs
<1>10. ~Misled(members)
  <2> SUFFICES ASSUME NEW i \in 1..n, Hides(members[i]), \A j \in 1..i : members[j].key # "k"
               PROVE  FALSE
    BY DEF Misled, n
  <2>1. i \notin earlier
    BY <1>9
  <2>2. CASE first = 0
    BY <2>1, <2>2 DEF n
  <2>3. CASE first \in 1..n /\ members[first].key = "k"
    <3>1. first =< i
      BY <1>2, <2>1, <2>3
    <3>2. first \in 1..i
      BY <1>2, <2>3, <3>1
    <3> QED
      BY <2>3, <3>2
  <2> QED
    BY <1>5, <2>2, <2>3
<1>11. CASE first = 0
  <2>1. \A i \in 1..n : members[i].key # "k"
    BY <1>2, <1>5, <1>11
  <2>2. ~Found(members)
    BY <2>1 DEF Found, Present, n
  <2>3. Clean(Body(members))
    BY <1>10, <2>2, SplitAll DEF Absent
  <2>4. Clean(object)
    <3>1. Clean(<<"}">>) /\ <<"}">>[1] # "k"
      BY <1>7, CleanByte
    <3> QED
      BY <1>6, <2>3, <3>1, CleanConcat
  <2> QED
    BY <1>11, <2>4, AbsentRefused
<1>12. CASE first \in 1..n /\ members[first].key = "k" /\ \A i \in 1..first - 1 : members[i].key # "k"
  <2>1. ~Absent(members)
    BY <1>12 DEF Absent, n
  <2>2. PICK f, front, rest : Present(members, f, front, rest)
    BY <1>10, <2>1, SplitAll DEF Found
  <2>3. /\ f \in 1..n /\ members[f].key = "k" /\ (\A i \in 1..f - 1 : members[i].key # "k")
        /\ Clean(front) /\ rest \in Seq(Byte) /\ Body(members) = front \o (Text(members[f]) \o rest)
    BY <2>2 DEF Present, n
  <2>4. f = first
    <3>1. ~(f < first)
      <4>1. f < first => f \in 1..first - 1
        BY <1>2, <1>12, <2>3
      <4> QED
        BY <1>12, <2>3, <4>1
    <3>2. ~(first < f)
      <4>1. first < f => first \in 1..f - 1
        BY <1>2, <1>12, <2>3
      <4> QED
        BY <1>12, <2>3, <4>1
    <3> QED
      BY <1>2, <1>12, <2>3, <3>1, <3>2
  <2> DEFINE m == members[first]
             text == Text(m)
             more == rest \o <<"}">>
  <2>5. m \in Members /\ m.key = "k"
    BY <1>2, <1>12
  <2>6. text \in Seq(Byte) /\ front \in Seq(Byte) /\ rest \in Seq(Byte)
    BY <2>3, <2>5, TextType DEF Clean
  <2>7. Body(members) = front \o (text \o rest)
    BY <2>3, <2>4
  <2> HIDE DEF text
  <2> DEFINE end == <<"}">>
  <2>8. end \in Seq(Byte)
    BY <1>8
  <2> HIDE DEF end
  <2>9. text \o rest \in Seq(Byte) /\ rest \o end \in Seq(Byte)
    BY <2>6, <2>8, ConcatProperties
  <2>10. (front \o (text \o rest)) \o end = front \o ((text \o rest) \o end)
    <3> DEFINE middle == text \o rest
    <3>1. front \in Seq(Byte) /\ middle \in Seq(Byte) /\ end \in Seq(Byte)
      BY <2>6, <2>8, <2>9
    <3> HIDE DEF middle
    <3>2. (front \o middle) \o end = front \o (middle \o end)
      BY ONLY <3>1, Regroup
    <3> QED
      BY <3>2 DEF middle
  <2>11. (text \o rest) \o end = text \o (rest \o end)
    <3>1. text \in Seq(Byte) /\ rest \in Seq(Byte) /\ end \in Seq(Byte)
      BY <2>6, <2>8
    <3> QED
      BY ONLY <3>1, Regroup
  <2>12. object = front \o (text \o (rest \o end))
    BY <1>6, <2>7, <2>10, <2>11 DEF end
  <2>13. Clean(front)
    BY <2>3
  <2> HIDE DEF m
  <2>14. LET member == JsonExtractString(front \o (Text(m) \o (rest \o end)), <<"k">>)
         IN IF m.form = "number" THEN member = NULL ELSE Findable(m.raw) => member = m.raw
    BY <2>5, <2>9, <2>13, FirstFound
  <2>15. IF m.form = "number" THEN got = NULL ELSE Findable(m.raw) => got = m.raw
    BY <2>12, <2>14 DEF text
  <2>16. first # 0
    BY <1>2, <1>12
  <2> QED
    BY <2>15, <2>16 DEF m
<1> QED
  BY <1>5, <1>11, <1>12

(***************************************************************************)
(* json_extract_string finds the first member with the key, where its two  *)
(* assumptions hold.                                                       *)
(***************************************************************************)
THEOREM MembersFound == CallSpec => []ExtractFindsMember
<1>1. CallOK => ExtractFindsMember
  BY ExtractFinds DEF CallOK, ExtractFindsMember
<1> QED
  BY <1>1, CallsTyped, PTL

-----------------------------------------------------------------------------
(* The process. *)

\* A step of the process that is none of a service's own.
Elsewhere == proc' = proc \/ (proc = "up" /\ proc' \in {"failed", "killed"})

LEMMA MainElsewhere ==
  ASSUME Main \/ Killed
  PROVE  Elsewhere /\ UNCHANGED services
BY DEF Main, Killed, Cache, CacheFails, Save, OpenSocket, StartThread, FailClose,
       FailReturn, Elsewhere, bootVars

LEMMA DElsewhere ==
  ASSUME DServes \/ DFaults \/ DPeers
  PROVE  Elsewhere
<1>1. CASE DServes
  BY <1>1 DEF DServes, Elsewhere, D!ServerStep, D!Accept, D!AcceptClient, D!Close,
     D!CloseClient, D!RequestLease, D!ReadHeader, D!ReadFails, D!GetContext, D!ReadSize,
     D!ReadSample, D!ReadSampleFails, D!Process, D!WriteSome, D!WriteGivesUp, D!netVars
<1>2. CASE DFaults
  BY <1>2 DEF DFaults, Elsewhere, D!AcceptFails, D!CloseFails, D!Terminate, D!WriteKilled,
     D!ProcessFails, D!ProcessKilled
<1>3. CASE DPeers
  BY <1>3 DEF DPeers, Elsewhere, D!Hush, D!Leave, D!Connect
<1> QED
  BY <1>1, <1>2, <1>3

LEMMA MElsewhere ==
  ASSUME MServes \/ MFaults \/ MPeers
  PROVE  Elsewhere
<1>1. CASE MServes
  BY <1>1 DEF MServes, Elsewhere, M!ServerStep, M!Accept, M!AcceptClient, M!Close,
     M!CloseClient, M!ReadRequest, M!ReadFails, M!Lookup, M!Answer, M!WriteSome,
     M!WriteGivesUp, M!netVars
<1>2. CASE MFaults
  BY <1>2 DEF MFaults, Elsewhere, M!AcceptFails, M!WriteKilled, M!Terminate,
     M!ProcessKilled, M!netVars
<1>3. CASE MPeers
  BY <1>3 DEF MPeers, Elsewhere, M!Hush, M!Leave, M!Connect
<1> QED
  BY <1>1, <1>2, <1>3

LEMMA AElsewhere ==
  ASSUME AServes \/ AFaults \/ APeers
  PROVE  Elsewhere
<1>1. CASE AServes
  BY <1>1 DEF AServes, Elsewhere, A!ServerStep, A!Accept, A!AcceptClient, A!Close,
     A!CloseClient, A!ReadSome, A!ReadEnds, A!ReadFails, A!Judge, A!Escape, A!MakeBody,
     A!MakeResponse, A!WriteHeader, A!HeaderGivesUp, A!WriteBody, A!BodyGivesUp, A!netVars
<1>2. CASE AFaults
  BY <1>2 DEF AFaults, Elsewhere, A!AcceptFails, A!WriteKilled, A!ProcessKilled, A!netVars
<1>3. CASE APeers
  BY <1>3 DEF APeers, Elsewhere, A!Hush, A!Leave, A!Connect
<1> QED
  BY <1>1, <1>2, <1>3

-----------------------------------------------------------------------------

\* What happens elsewhere is to a service the end of the process, or nothing.
LEMMA DStutter ==
  ASSUME Elsewhere, UNCHANGED dvars
  PROVE  [D!Next]_(D!vars)
<1>1. CASE proc' = proc
  BY <1>1 DEF dvars, dsession, D!vars, D!netVars, D!sessionVars
<1>2. CASE proc = "up" /\ proc' \in {"failed", "killed"}
  <2>1. D!OtherThread
    BY <1>2 DEF dvars, dsession, D!OtherThread, D!EndedElsewhere, D!ProcessFails,
                D!ProcessKilled, D!sessionVars
  <2> QED
    BY <2>1 DEF D!Next, D!Fault
<1> QED
  BY <1>1, <1>2 DEF Elsewhere

LEMMA DStep ==
  ASSUME [Next]_vars
  PROVE  [D!Next]_(D!vars)
<1>1. CASE Main \/ Killed
  BY <1>1, MainElsewhere, DStutter DEF services
<1>2. CASE DServes \/ DFaults
  BY <1>2 DEF DServes, DFaults, D!Next, D!Fault
<1>3. CASE (MServes \/ MFaults \/ MPeers \/ AServes \/ AFaults \/ APeers) /\ UNCHANGED dvars
  BY <1>3, MElsewhere, AElsewhere, DStutter
<1>4. CASE DPeers /\ UNCHANGED <<dpc, dsession>>
  <2>1. D!PeerStep
    BY <1>4 DEF DPeers, D!PeerStep
  <2>2. UNCHANGED <<dpc, D!sessionVars>>
    BY <1>4 DEF dsession, D!sessionVars
  <2> QED
    BY <2>1, <2>2 DEF D!Next
<1>5. CASE UNCHANGED vars
  BY <1>5, DStutter DEF vars, services, Elsewhere
<1> QED
  BY <1>1, <1>2, <1>3, <1>4, <1>5 DEF Next

\* main serves the decrypt port as DecryptService.tla says (main, serve_decrypt),
\* whatever the other threads do.
THEOREM DecryptImplemented == Spec => D!Spec
<1>1. Init => D!Init
  BY DEF Init
<1> QED
  BY <1>1, DStep, PTL DEF Spec, D!Spec

LEMMA MStutter ==
  ASSUME Elsewhere, UNCHANGED mvars
  PROVE  [M!Next]_(M!vars)
<1>1. CASE proc' = proc
  BY <1>1 DEF mvars, msession, M!vars, M!netVars, M!requestVars
<1>2. CASE proc = "up" /\ proc' \in {"failed", "killed"}
  <2>1. M!OtherThread
    BY <1>2 DEF mvars, msession, M!OtherThread, M!EndedElsewhere, M!ProcessFails,
                M!ProcessKilled, M!requestVars
  <2> QED
    BY <2>1 DEF M!Next, M!Fault
<1> QED
  BY <1>1, <1>2 DEF Elsewhere

LEMMA MStep ==
  ASSUME [Next]_vars
  PROVE  [M!Next]_(M!vars)
<1>1. CASE Main \/ Killed
  BY <1>1, MainElsewhere, MStutter DEF services
<1>2. CASE MServes \/ MFaults
  BY <1>2 DEF MServes, MFaults, M!Next, M!Fault
<1>3. CASE (DServes \/ DFaults \/ DPeers \/ AServes \/ AFaults \/ APeers) /\ UNCHANGED mvars
  BY <1>3, DElsewhere, AElsewhere, MStutter
<1>4. CASE MPeers /\ UNCHANGED <<mpc, msession>>
  <2>1. M!PeerStep
    BY <1>4 DEF MPeers, M!PeerStep
  <2>2. UNCHANGED <<mpc, M!requestVars>>
    BY <1>4 DEF msession, M!requestVars
  <2> QED
    BY <2>1, <2>2 DEF M!Next
<1>5. CASE UNCHANGED vars
  BY <1>5, MStutter DEF vars, services, Elsewhere
<1> QED
  BY <1>1, <1>2, <1>3, <1>4, <1>5 DEF Next

\* The same for the m3u8 thread (serve_m3u8).
THEOREM M3u8Implemented == Spec => M!Spec
<1>1. Init => M!Init
  BY DEF Init
<1> QED
  BY <1>1, MStep, PTL DEF Spec, M!Spec

LEMMA AStutter ==
  ASSUME Elsewhere, UNCHANGED avars
  PROVE  [A!Next]_(A!vars)
<1>1. CASE proc' = proc
  BY <1>1 DEF avars, asession, A!vars, A!netVars, A!requestVars
<1>2. CASE proc = "up" /\ proc' \in {"failed", "killed"}
  <2>1. A!OtherThread
    BY <1>2 DEF avars, asession, A!OtherThread, A!EndedElsewhere, A!ProcessFails,
                A!ProcessKilled, A!requestVars
  <2> QED
    BY <2>1 DEF A!Next, A!Fault
<1> QED
  BY <1>1, <1>2 DEF Elsewhere

LEMMA AStep ==
  ASSUME [Next]_vars
  PROVE  [A!Next]_(A!vars)
<1>1. CASE Main \/ Killed
  BY <1>1, MainElsewhere, AStutter DEF services
<1>2. CASE AServes \/ AFaults
  BY <1>2 DEF AServes, AFaults, A!Next, A!Fault
<1>3. CASE (DServes \/ DFaults \/ DPeers \/ MServes \/ MFaults \/ MPeers) /\ UNCHANGED avars
  BY <1>3, DElsewhere, MElsewhere, AStutter
<1>4. CASE APeers /\ UNCHANGED <<apc, asession>>
  <2>1. A!PeerStep
    BY <1>4 DEF APeers, A!PeerStep
  <2>2. UNCHANGED <<apc, A!requestVars>>
    BY <1>4 DEF asession, A!requestVars
  <2> QED
    BY <2>1, <2>2 DEF A!Next
<1>5. CASE UNCHANGED vars
  BY <1>5, AStutter DEF vars, services, Elsewhere
<1> QED
  BY <1>1, <1>2, <1>3, <1>4, <1>5 DEF Next

\* The same for the account thread (serve_account).
THEOREM AccountImplemented == Spec => A!Spec
<1>1. Init => A!Init
  BY DEF Init
<1> QED
  BY <1>1, AStep, PTL DEF Spec, A!Spec

-----------------------------------------------------------------------------
(* Startup. *)

AllAway ==
  /\ \A c \in DecryptClients : dpeer[c] = "away"
  /\ \A c \in M3u8Clients : mpeer[c] = "away"
  /\ \A c \in AccountClients : apeer[c] = "away"

(***************************************************************************)
(* What is ready at each stage of main.  While a stage lies ahead, nothing *)
(* that it opens or starts is there, and so nobody can have connected.     *)
(***************************************************************************)
BootInv ==
  /\ boot \in Boots /\ ready \in BOOLEAN /\ saved \in BOOLEAN
  /\ boot # "cache" => ready
  /\ boot \notin {"cache", "save"} => saved
  /\ boot \in {"cache", "save"} => listening = {} /\ threads = {} /\ AllAway
  /\ boot \in {"account socket", "decrypt socket"} => "m3u8" \in listening
  /\ boot = "decrypt socket" => "account" \in listening
  /\ boot \in {"m3u8 thread", "account thread", "serving"} => listening = Services
  /\ boot = "account thread" => "m3u8" \in threads
  /\ boot = "serving" => threads = {"m3u8", "account"}
  /\ listening \subseteq Services /\ threads \subseteq {"m3u8", "account"}
  /\ dpc # "accept" => boot = "serving"

LEMMA BootInit == Init => BootInv
BY DEF Init, BootInv, Boots, AllAway, Services, D!Init, D!NetInit, M!Init, M!NetInit,
       A!Init, A!NetInit

LEMMA MainBoot ==
  ASSUME BootInv, Main \/ Killed
  PROVE  BootInv'
<1>1. UNCHANGED <<dpc, dpeer, mpeer, apeer>>
  BY MainElsewhere DEF services, dvars, mvars, avars
<1>2. AllAway' <=> AllAway
  BY <1>1 DEF AllAway
<1>3. CASE Cache \/ CacheFails \/ Save \/ FailReturn \/ Killed
  BY <1>1, <1>2, <1>3 DEF BootInv, Cache, AfterCache, CacheFails, Save, FailReturn, Killed,
                          bootVars, Boots
<1>4. CASE \/ OpenSocket("m3u8", "m3u8 socket", "account socket")
           \/ OpenSocket("account", "account socket", "decrypt socket")
           \/ OpenSocket("decrypt", "decrypt socket", "m3u8 thread")
  BY <1>1, <1>2, <1>4 DEF BootInv, OpenSocket, Boots, Services
<1>5. CASE \/ StartThread("m3u8", "m3u8 thread", AfterM3u8Thread)
           \/ StartThread("account", "account thread", "serving")
  BY <1>1, <1>2, <1>5 DEF BootInv, StartThread, AfterM3u8Thread, Boots, Services
<1>6. CASE FailClose
  BY <1>1, <1>2, <1>6 DEF BootInv, FailClose, Boots
<1> QED
  BY <1>3, <1>4, <1>5, <1>6 DEF Main

\* Before the sockets listen no service and no client can do anything.
LEMMA QuietStart ==
  ASSUME BootInv, boot \in {"cache", "save"}
  PROVE  ~(DServes \/ DFaults \/ MServes \/ MFaults \/ AServes \/ AFaults
           \/ DPeers \/ MPeers \/ APeers)
<1> USE DEF BootInv, AllAway
<1>1. ~(DServes \/ DFaults \/ MServes \/ MFaults \/ AServes \/ AFaults)
  BY DEF DServes, DFaults, MServes, MFaults, AServes, AFaults
<1>2. ~DPeers
  BY DEF DPeers, D!Hush, D!Leave
<1>3. ~MPeers
  BY DEF MPeers, M!Hush, M!Leave
<1>4. ~APeers
  BY DEF APeers, A!Hush, A!Leave
<1> QED
  BY <1>1, <1>2, <1>3, <1>4

LEMMA NextBoot == BootInv /\ [Next]_vars => BootInv'
<1> SUFFICES ASSUME BootInv, [Next]_vars PROVE BootInv'
  OBVIOUS
<1>1. CASE Main \/ Killed
  BY <1>1, MainBoot
<1>2. CASE UNCHANGED vars
  BY <1>2 DEF vars, bootVars, services, dvars, mvars, avars, BootInv, AllAway
<1>3. CASE ~Main /\ ~Killed /\ ~UNCHANGED vars
  <2>1. UNCHANGED bootVars /\ (dpc' = dpc \/ boot = "serving")
    BY <1>3 DEF Next, dvars, DServes, DFaults
  <2>2. boot \notin {"cache", "save"}
    BY <1>3, QuietStart DEF Next
  <2> QED
    BY <2>1, <2>2 DEF BootInv, bootVars
<1> QED
  BY <1>1, <1>2, <1>3

\* The invariant of startup holds in every reachable state.
THEOREM BootInvariance == Spec => []BootInv
BY BootInit, NextBoot, PTL DEF Spec

\* Every variable of main keeps to its type (main).
THEOREM TypeCorrect == Spec => []TypeOK
<1>1. BootInv => TypeOK
  BY DEF BootInv, TypeOK, Services
<1> QED
  BY <1>1, BootInvariance, PTL

\* Nobody connects before the account data is cached and saved (main).
THEOREM StartupOrder == Spec => []ReadyBeforeClients
<1>1. BootInv => ReadyBeforeClients
  BY DEF BootInv, ReadyBeforeClients, AllAway
<1> QED
  BY <1>1, BootInvariance, PTL

\* The decrypt port is served only once all three services can be (main).
THEOREM StartedTogether == Spec => []ServedTogether
<1>1. BootInv => ServedTogether
  BY DEF BootInv, ServedTogether, Services
<1> QED
  BY <1>1, BootInvariance, PTL
-----------------------------------------------------------------------------
(* What is proved of each service alone holds of it in the process.  The   *)
(* instances below are those of Server.tla, with the proofs.               *)

DP == INSTANCE DecryptService_proofs WITH Clients <- DecryptClients,
  peer <- dpeer, queue <- dqueue, conn <- dconn, timeo <- dtimeo, pc <- dpc
MP == INSTANCE M3u8Service_proofs WITH Clients <- M3u8Clients,
  peer <- mpeer, queue <- mqueue, conn <- mconn, timeo <- mtimeo, pc <- mpc
AP == INSTANCE AccountService_proofs WITH Clients <- AccountClients,
  peer <- apeer, queue <- aqueue, conn <- aconn, timeo <- atimeo, pc <- apc

LEMMA DSame == (D!Init <=> DP!Init) /\ ([D!Next]_(D!vars) <=> [DP!Next]_(DP!vars))
BY DEF D!Init, DP!Init, D!Next, DP!Next, D!vars, DP!vars, D!NetInit, DP!NetInit,
       D!ServerStep, DP!ServerStep, D!Fault, DP!Fault, D!PeerStep, DP!PeerStep,
       D!sessionVars, DP!sessionVars, D!netVars, DP!netVars, D!Accept, DP!Accept,
       D!Close, DP!Close, D!RequestLease, DP!RequestLease, D!ReadHeader, DP!ReadHeader,
       D!ReadFails, DP!ReadFails, D!GetContext, DP!GetContext, D!ReadSize, DP!ReadSize,
       D!ReadSample, DP!ReadSample, D!ReadSampleFails, DP!ReadSampleFails, D!Process,
       DP!Process, D!WriteSome, DP!WriteSome, D!WriteGivesUp, DP!WriteGivesUp,
       D!AcceptFails, DP!AcceptFails, D!CloseFails, DP!CloseFails, D!Terminate,
       DP!Terminate, D!WriteKilled, DP!WriteKilled, D!OtherThread, DP!OtherThread,
       D!Connect, DP!Connect, D!Hush, DP!Hush, D!Leave, DP!Leave, D!AcceptClient,
       DP!AcceptClient, D!CloseClient, DP!CloseClient, D!CanRead, DP!CanRead, D!Tracks,
       DP!Tracks, D!EndSession, DP!EndSession, D!ReadCanFail, DP!ReadCanFail,
       D!PreshareHit, DP!PreshareHit, D!TooLarge, DP!TooLarge, D!FreedOnFailure,
       DP!FreedOnFailure, D!NewReply, DP!NewReply, D!CanWrite, DP!CanWrite, D!Last,
       DP!Last, D!AllWritten, DP!AllWritten, D!WriteCanFail, DP!WriteCanFail,
       D!FreedAfterWrite, DP!FreedAfterWrite, D!ProcessFails, DP!ProcessFails,
       D!ProcessKilled, DP!ProcessKilled, D!WriteCanKill, DP!WriteCanKill,
       D!EndedElsewhere, DP!EndedElsewhere, D!IoTimeout, DP!IoTimeout

LEMMA MSame == (M!Init <=> MP!Init) /\ ([M!Next]_(M!vars) <=> [MP!Next]_(MP!vars))
BY DEF M!Init, MP!Init, M!Next, MP!Next, M!vars, MP!vars, M!NetInit, MP!NetInit,
       M!ServerStep, MP!ServerStep, M!Fault, MP!Fault, M!PeerStep, MP!PeerStep,
       M!requestVars, MP!requestVars, M!netVars, MP!netVars, M!Accept, MP!Accept,
       M!Close, MP!Close, M!ReadRequest, MP!ReadRequest, M!ReadFails, MP!ReadFails,
       M!Lookup, MP!Lookup, M!Answer, MP!Answer, M!WriteSome, MP!WriteSome,
       M!WriteGivesUp, MP!WriteGivesUp, M!AcceptFails, MP!AcceptFails, M!WriteKilled,
       MP!WriteKilled, M!Terminate, MP!Terminate, M!OtherThread, MP!OtherThread,
       M!Connect, MP!Connect, M!Hush, MP!Hush, M!Leave, MP!Leave, M!AcceptClient,
       MP!AcceptClient, M!CloseClient, MP!CloseClient, M!CanRead, MP!CanRead,
       M!InvalidAnswered, MP!InvalidAnswered, M!ReadCanFail, MP!ReadCanFail, M!Asked,
       MP!Asked, M!Line, MP!Line, M!FreedWithoutLine, MP!FreedWithoutLine, M!CanWrite,
       MP!CanWrite, M!Last, MP!Last, M!AllWritten, MP!AllWritten, M!EndLine, MP!EndLine,
       M!WriteCanFail, MP!WriteCanFail, M!WriteCanKill, MP!WriteCanKill,
       M!ProcessKilled, MP!ProcessKilled, M!EndedElsewhere, MP!EndedElsewhere,
       M!IoTimeout, MP!IoTimeout, M!FreedAfterLine, MP!FreedAfterLine, M!ProcessFails,
       MP!ProcessFails

LEMMA ASame == (A!Init <=> AP!Init) /\ ([A!Next]_(A!vars) <=> [AP!Next]_(AP!vars))
BY DEF A!Init, AP!Init, A!Next, AP!Next, A!vars, AP!vars, A!NetInit, AP!NetInit,
       A!ServerStep, AP!ServerStep, A!Fault, AP!Fault, A!PeerStep, AP!PeerStep,
       A!requestVars, AP!requestVars, A!netVars, AP!netVars, A!Accept, AP!Accept,
       A!Close, AP!Close, A!ReadSome, AP!ReadSome, A!ReadEnds, AP!ReadEnds, A!ReadFails,
       AP!ReadFails, A!Judge, AP!Judge, A!Escape, AP!Escape, A!MakeBody, AP!MakeBody,
       A!MakeResponse, AP!MakeResponse, A!WriteHeader, AP!WriteHeader,
       A!HeaderGivesUp, AP!HeaderGivesUp, A!WriteBody, AP!WriteBody, A!BodyGivesUp,
       AP!BodyGivesUp, A!AcceptFails, AP!AcceptFails, A!WriteKilled, AP!WriteKilled,
       A!OtherThread, AP!OtherThread, A!Connect, AP!Connect, A!Hush, AP!Hush, A!Leave,
       AP!Leave, A!AcceptClient, AP!AcceptClient, A!CloseClient, AP!CloseClient,
       A!CanRead, AP!CanRead, A!ReadCanFail, AP!ReadCanFail, A!Allowed, AP!Allowed,
       A!Refuse, AP!Refuse, A!Malloc, AP!Malloc, A!Free, AP!Free, A!AfterFree,
       AP!AfterFree, A!FreedAfter, AP!FreedAfter, A!NoBlocks, AP!NoBlocks, A!Blocks,
       AP!Blocks, A!Escaped, AP!Escaped, A!CanWrite, AP!CanWrite, A!AllWritten,
       AP!AllWritten, A!AfterHeader, AP!AfterHeader, A!WriteCanFail, AP!WriteCanFail,
       A!WriteCanKill, AP!WriteCanKill, A!ProcessKilled, AP!ProcessKilled,
       A!EndedElsewhere, AP!EndedElsewhere, A!IoTimeout, AP!IoTimeout, A!ProcessFails,
       AP!ProcessFails

\* Whatever the other threads of the process do: every sample is processed with a
\* context of its track (get_kd_context), no path of a session loses its buffer,
\* replies are whole, the preshared context stays and clients are served in turn.
THEOREM DecryptOfProcess ==
  Spec => /\ [](D!ReplyMatchesTrack /\ D!BuffersAccounted /\ D!RepliesOneByOne)
          /\ D!PreshareStable
          /\ D!SerialService
<1>1. Spec => DP!Spec
  BY DecryptImplemented, DSame, PTL DEF D!Spec, DP!Spec
<1>2. /\ Backlog \in Nat /\ None \notin DecryptClients
      /\ PreshareId \in AdamIds /\ MaxSampleLen \in Nat \ {0} /\ MaxReplies \in Nat
      /\ None \notin DP!Tracks
  BY ServerAssumption DEF DP!Tracks, D!Tracks
<1>3. DP!Spec => [](DP!ReplyMatchesTrack /\ DP!BuffersAccounted /\ DP!RepliesOneByOne)
  BY <1>2, DP!ContextCorrect, DP!BuffersCorrect, DP!RepliesCorrect, PTL
<1>4. DP!Spec => DP!PreshareStable
  BY <1>2, DP!PreshareCorrect, PTL
<1>5. DP!Spec => DP!SerialService
  BY <1>2, DP!DecryptSerial, PTL
<1>6. /\ D!ReplyMatchesTrack <=> DP!ReplyMatchesTrack
      /\ D!BuffersAccounted <=> DP!BuffersAccounted
      /\ D!RepliesOneByOne <=> DP!RepliesOneByOne
  BY DEF D!ReplyMatchesTrack, DP!ReplyMatchesTrack, D!ContextServes, DP!ContextServes,
         D!BuffersAccounted, DP!BuffersAccounted, D!RepliesOneByOne, DP!RepliesOneByOne,
         D!Last, DP!Last
<1>7. DP!PreshareStable => D!PreshareStable
  <2>1. [preshared # None => preshared' = preshared]_(D!vars)
          <=> [preshared # None => preshared' = preshared]_(DP!vars)
    BY DEF D!vars, DP!vars, D!netVars, DP!netVars, D!sessionVars, DP!sessionVars
  <2> QED
    BY <2>1, PTL DEF D!PreshareStable, DP!PreshareStable
<1>8. DP!SerialService => D!SerialService
  <2>1. /\ D!Serial!Init <=> DP!Serial!Init
        /\ [D!Serial!Next]_(D!Serial!svars) <=> [DP!Serial!Next]_(DP!Serial!svars)
    BY DEF D!Serial!Init, DP!Serial!Init, D!Serial!Next, DP!Serial!Next, D!Serial!svars,
           DP!Serial!svars, D!Serial!Serve, DP!Serial!Serve, D!Serial!Finish,
           DP!Serial!Finish, D!Serial!Stop, DP!Serial!Stop, D!Serial!Arrive,
           DP!Serial!Arrive, D!Serial!Waiting, DP!Serial!Waiting
  <2> QED
    BY <2>1, PTL DEF D!SerialService, DP!SerialService, D!Serial!Spec, DP!Serial!Spec
<1> QED
  BY <1>1, <1>3, <1>4, <1>5, <1>6, <1>7, <1>8, PTL

\* Whatever the other threads of the process do: every line answers its request
\* (handle_m3u8_request), every request is accounted for, no string is leaked and
\* clients are served in turn (serve_m3u8).
THEOREM M3u8OfProcess ==
  Spec => [](M!LinesAnswerRequests /\ M!OneLineEach /\ M!StringsFreed) /\ M!SerialService
<1>1. Spec => MP!Spec
  BY M3u8Implemented, MSame, PTL DEF M!Spec, MP!Spec
<1>2. /\ Backlog \in Nat /\ None \notin M3u8Clients
      /\ Bad \notin Ids /\ UrlLineLen \in Nat /\ UrlLineLen > 1 /\ MaxRequests \in Nat
      /\ None \notin MP!Urls
  BY ServerAssumption DEF MP!Urls, M!Urls
<1>3. MP!Spec => [](MP!LinesAnswerRequests /\ MP!OneLineEach /\ MP!StringsFreed)
  BY <1>2, MP!AnswersCorrect, MP!RequestsAccounted, MP!StringsCorrect, PTL
<1>4. MP!Spec => MP!SerialService
  BY <1>2, MP!M3u8Serial, PTL
<1>5. /\ M!LinesAnswerRequests <=> MP!LinesAnswerRequests
      /\ M!OneLineEach <=> MP!OneLineEach
      /\ M!StringsFreed <=> MP!StringsFreed
  BY DEF M!LinesAnswerRequests, MP!LinesAnswerRequests, M!OneLineEach, MP!OneLineEach,
         M!StringsFreed, MP!StringsFreed
<1>6. MP!SerialService => M!SerialService
  <2>1. /\ M!Serial!Init <=> MP!Serial!Init
        /\ [M!Serial!Next]_(M!Serial!svars) <=> [MP!Serial!Next]_(MP!Serial!svars)
    BY DEF M!Serial!Init, MP!Serial!Init, M!Serial!Next, MP!Serial!Next, M!Serial!svars,
         MP!Serial!svars, M!Serial!Serve, MP!Serial!Serve, M!Serial!Finish,
         MP!Serial!Finish, M!Serial!Stop, MP!Serial!Stop, M!Serial!Arrive,
         MP!Serial!Arrive, M!Serial!Waiting, MP!Serial!Waiting
  <2> QED
    BY <2>1, PTL DEF M!SerialService, MP!SerialService, M!Serial!Spec, MP!Serial!Spec
<1> QED
  BY <1>1, <1>3, <1>4, <1>5, <1>6, PTL

\* Whatever the other threads of the process do: the account data goes only to who
\* asked for / (handle_account_request), a response is whole or was given up, every
\* way out frees what is live, once, and clients are served in turn (serve_account).
THEOREM AccountOfProcess ==
  Spec => [](A!DataOnlyForRoot /\ A!WholeResponse /\ A!HeapAccounted) /\ A!SerialService
<1>1. Spec => AP!Spec
  BY AccountImplemented, ASame, PTL DEF A!Spec, AP!Spec
<1>2. /\ Backlog \in Nat /\ None \notin AccountClients
      /\ BufferSize \in Nat \ {0} /\ HeaderLen \in Nat \ {0} /\ BodyLen \in Nat \ {0}
      /\ None \notin AP!Statuses
  BY ServerAssumption DEF AP!Statuses, A!Statuses
<1>3. AP!Spec => [](AP!DataOnlyForRoot /\ AP!WholeResponse /\ AP!HeapAccounted)
  BY <1>2, AP!DataGuarded, AP!ResponseWhole, AP!HeapCorrect, PTL
<1>4. AP!Spec => AP!SerialService
  BY <1>2, AP!AccountSerial, PTL
<1>5. /\ A!DataOnlyForRoot <=> AP!DataOnlyForRoot
      /\ A!WholeResponse <=> AP!WholeResponse
      /\ A!HeapAccounted <=> AP!HeapAccounted
  BY DEF A!DataOnlyForRoot, AP!DataOnlyForRoot, A!WholeResponse, AP!WholeResponse,
         A!HeapAccounted, AP!HeapAccounted, A!InUse, AP!InUse, A!Blocks, AP!Blocks,
         A!Escaped, AP!Escaped
<1>6. AP!SerialService => A!SerialService
  <2>1. /\ A!Serial!Init <=> AP!Serial!Init
        /\ [A!Serial!Next]_(A!Serial!svars) <=> [AP!Serial!Next]_(AP!Serial!svars)
    BY DEF A!Serial!Init, AP!Serial!Init, A!Serial!Next, AP!Serial!Next, A!Serial!svars,
         AP!Serial!svars, A!Serial!Serve, AP!Serial!Serve, A!Serial!Finish,
         AP!Serial!Finish, A!Serial!Stop, AP!Serial!Stop, A!Serial!Arrive,
         AP!Serial!Arrive, A!Serial!Waiting, AP!Serial!Waiting
  <2> QED
    BY <2>1, PTL DEF A!SerialService, AP!SerialService, A!Serial!Spec, AP!Serial!Spec
<1> QED
  BY <1>1, <1>3, <1>4, <1>5, <1>6, PTL

=============================================================================
