----------------------------- MODULE TextProofs -----------------------------
(***************************************************************************)
(* What a shell makes of the command lines of grpc_exec, for arguments of  *)
(* every number and length, and what a jail shows, for every host and      *)
(* every number of mounts.  The shell's computations are recursive         *)
(* functions; that they exist and what they compute is proved by induction *)
(* on sets of indices, which rests on < being well-founded.                *)
(***************************************************************************)
EXTENDS ShellQuote, Sandbox, SequenceTheorems, FiniteSetTheorems, WellFoundedInduction, TLAPS

(***************************************************************************)
(* Induction and recursion                                                 *)
(***************************************************************************)
\* Induction up to n: a set that has 0, and i + 1 with every i < n, has all.
LEMMA IndexInduction ==
  ASSUME NEW n \in Nat, NEW P, 0 \in P, \A i \in 0..(n - 1) : i \in P => i + 1 \in P
  PROVE  \A i \in 0..n : i \in P
<1> SUFFICES ASSUME NEW m \in 0..n, m \notin P
             PROVE  FALSE
  OBVIOUS
<1> DEFINE less == OpToRel(<, Nat)
           T == {i \in Nat : i <= n /\ i \notin P}
<1>1. T \subseteq Nat /\ T # {}
  OBVIOUS
<1>2. \A x, y \in Nat : <<y, x>> \in less <=> y < x
  BY DEF OpToRel
<1>3. IsWellFoundedOn(less, Nat)
  BY NatLessThanWellFounded
<1>h. \A i : i \in T <=> i \in Nat /\ i <= n /\ i \notin P
  OBVIOUS
<1> HIDE DEF less, T
<1>4. PICK x \in T : \A y \in T : ~(<<y, x>> \in less)
  BY <1>1, <1>3, WFMin, Zenon
<1>5. x \in Nat /\ x <= n /\ x \notin P /\ x # 0
  BY <1>4, <1>h
<1>6. x - 1 \in Nat /\ x - 1 \in 0..(n - 1) /\ (x - 1) + 1 = x /\ x - 1 < x /\ x - 1 <= n
  BY <1>5
<1>7. x - 1 \notin P
  BY <1>5, <1>6
<1>8. x - 1 \in T
  BY <1>6, <1>7, <1>h, Zenon
<1>9. <<x - 1, x>> \in less
  BY <1>2, <1>5, <1>6, Zenon
<1> QED BY <1>4, <1>8, <1>9, Zenon

\* What a step function computes from a first value on.
IsTrace(f, base, step, n) == f[0] = base /\ \A i \in 1..n : f[i] = step[<<f[i - 1], i>>]

\* There is such a computation of every length.
LEMMA TraceExists ==
  ASSUME NEW S, NEW base \in S, NEW n \in Nat, NEW step \in [S \X (1..n) -> S]
  PROVE  \E f \in [0..n -> S] : IsTrace(f, base, step, n)
<1> DEFINE P == {k \in 0..n : \E f \in [0..k -> S] : IsTrace(f, base, step, k)}
<1>1. 0 \in P
  <2>1. [i \in 0..0 |-> base] \in [0..0 -> S] /\ IsTrace([i \in 0..0 |-> base], base, step, 0)
    BY DEF IsTrace
  <2> QED BY <2>1
<1>2. ASSUME NEW k \in 0..(n - 1), k \in P
      PROVE  k + 1 \in P
  <2>1. PICK f \in [0..k -> S] : IsTrace(f, base, step, k)
    BY <1>2
  <2> DEFINE g == [i \in 0..(k + 1) |-> IF i <= k THEN f[i] ELSE step[<<f[k], k + 1>>]]
  <2>2. f[k] \in S /\ step[<<f[k], k + 1>>] \in S
    OBVIOUS
  <2>3. g \in [0..(k + 1) -> S]
    BY <2>2
  <2>4. \A i \in 0..k : g[i] = f[i]
    OBVIOUS
  <2>5. g[k + 1] = step[<<f[k], k + 1>>]
    OBVIOUS
  <2> HIDE DEF g
  <2>6. g[0] = base
    BY <2>1, <2>4 DEF IsTrace
  <2>7. ASSUME NEW i \in 1..(k + 1) PROVE g[i] = step[<<g[i - 1], i>>]
    <3>1. CASE i = k + 1
      BY <3>1, <2>4, <2>5
    <3>2. CASE i <= k
      BY <3>2, <2>1, <2>4 DEF IsTrace
    <3> QED BY <3>1, <3>2
  <2> QED BY <2>3, <2>6, <2>7 DEF IsTrace
<1>3. \A i \in 0..(n - 1) : i \in P => i + 1 \in P
  BY <1>2
<1> HIDE DEF P
<1>4. n \in P
  BY <1>1, <1>3, IndexInduction
<1> QED BY <1>4 DEF P

(***************************************************************************)
(* The tokenizer                                                           *)
(***************************************************************************)
Symbols == ShellChars \cup {Interpreted}

States == [mode : {"plain", Single, Double}, open : BOOLEAN,
           word : Seq(Symbols), words : Seq(Seq(Symbols))]

LEMMA ScanType ==
  ASSUME NEW st \in States, NEW ch \in Symbols
  PROVE  Scan(st, ch) \in States
<1>1. Put(st, ch) \in States /\ Put(st, Interpreted) \in States
  BY DEF Put, State, States, Symbols
<1>2. EndWord(st) \in States
  BY DEF EndWord, State, States
<1>3. \A m \in {"plain", Single, Double} : Quote(st, m) \in States
  BY DEF Quote, State, States
<1> QED BY <1>1, <1>2, <1>3 DEF Scan

\* Scanned goes through one state per character.
LEMMA ScanTrace ==
  ASSUME NEW st \in States, NEW line \in Seq(Symbols)
  PROVE  \E g \in [0..Len(line) -> States] :
           /\ g[0] = st
           /\ \A i \in 1..Len(line) : g[i] = Scan(g[i - 1], line[i])
           /\ Scanned(st, line) = g[Len(line)]
<1> DEFINE n == Len(line)
           F(f) == [i \in 0..n |-> IF i = 0 THEN st ELSE Scan(f[i - 1], line[i])]
           scan == CHOOSE f : f = F(f)
           step == [x \in States \X (1..n) |-> Scan(x[1], line[x[2]])]
<1>1. n \in Nat /\ \A i \in 1..n : line[i] \in Symbols
  BY LenProperties, ElementOfSeq
<1>s. Scanned(st, line) = scan[n]
  BY DEF Scanned
<1>2. step \in [States \X (1..n) -> States]
  BY <1>1, ScanType
<1>3. \A s1 \in States, i \in 1..n : step[<<s1, i>>] = Scan(s1, line[i])
  OBVIOUS
<1> HIDE DEF n, step
<1>4. PICK g \in [0..n -> States] : IsTrace(g, st, step, n)
  BY <1>1, <1>2, TraceExists
<1>5. g[0] = st /\ \A i \in 1..n : g[i] = Scan(g[i - 1], line[i])
  <2> HIDE DEF scan, F
  <2>1. \A i \in 1..n : g[i - 1] \in States
    BY <1>1
  <2> QED BY <2>1, <1>3, <1>4 DEF IsTrace
<1>6. g = F(g)
  BY <1>1, <1>4, <1>5
<1>7. scan = F(scan)
  BY <1>6
<1>8. scan[0] = st /\ \A i \in 1..n : scan[i] = Scan(scan[i - 1], line[i])
  <2> HIDE DEF scan
  <2> QED BY <1>1, <1>7
<1> HIDE DEF scan, F
<1>9. \A i \in 0..n : i \in {j \in 0..n : scan[j] = g[j]}
  <2>1. 0 \in {j \in 0..n : scan[j] = g[j]}
    BY <1>1, <1>5, <1>8
  <2>2. \A i \in 0..(n - 1) : i \in {j \in 0..n : scan[j] = g[j]}
                             => i + 1 \in {j \in 0..n : scan[j] = g[j]}
    BY <1>1, <1>5, <1>8
  <2> QED BY <1>1, <2>1, <2>2, IndexInduction
<1> QED BY <1>1, <1>4, <1>5, <1>9, <1>s DEF n

\* Nothing leaves the tokenizer where it is, and one character moves it once.
LEMMA ScanShort ==
  ASSUME NEW st \in States, NEW ch \in Symbols
  PROVE  Scanned(st, <<>>) = st /\ Scanned(st, <<ch>>) = Scan(st, ch)
<1>1. <<>> \in Seq(Symbols) /\ Len(<<>>) = 0
  BY EmptySeq
<1>2. <<ch>> \in Seq(Symbols) /\ Len(<<ch>>) = 1 /\ <<ch>>[1] = ch
  OBVIOUS
<1>3. Scanned(st, <<>>) = st
  <2>1. PICK g \in [0..Len(<<>>) -> States] :
           /\ g[0] = st
           /\ \A i \in 1..Len(<<>>) : g[i] = Scan(g[i - 1], <<>>[i])
           /\ Scanned(st, <<>>) = g[Len(<<>>)]
    BY <1>1, ScanTrace
  <2> QED BY <2>1, <1>1, Zenon
<1>4. PICK g \in [0..Len(<<ch>>) -> States] :
           /\ g[0] = st
           /\ \A i \in 1..Len(<<ch>>) : g[i] = Scan(g[i - 1], <<ch>>[i])
           /\ Scanned(st, <<ch>>) = g[Len(<<ch>>)]
  BY <1>2, ScanTrace
<1>5. g[1] = Scan(g[1 - 1], ch) /\ g[1 - 1] = st
  BY <1>2, <1>4
<1>6. Scanned(st, <<ch>>) = g[1]
  BY <1>2, <1>4, Zenon
<1> QED BY <1>3, <1>5, <1>6, Zenon

\* A line in two parts is scanned part by part.
LEMMA ScanConcat ==
  ASSUME NEW st \in States, NEW u \in Seq(Symbols), NEW v \in Seq(Symbols)
  PROVE  /\ Scanned(st, u) \in States
         /\ Scanned(st, u \o v) = Scanned(Scanned(st, u), v)
<1> DEFINE m == Len(u)
           n == Len(v)
           w == u \o v
<1>1. m \in Nat /\ n \in Nat
  BY LenProperties
<1>2. /\ w \in Seq(Symbols) /\ Len(w) = m + n
      /\ \A i \in 1..(m + n) : w[i] = IF i <= m THEN u[i] ELSE v[i - m]
  BY ConcatProperties, Zenon
<1>3. PICK a \in [0..m -> States] :
         /\ a[0] = st /\ Scanned(st, u) = a[m]
         /\ \A i \in 1..m : a[i] = Scan(a[i - 1], u[i])
  BY ScanTrace, Zenon
<1>4. a[m] \in States
  BY <1>1
<1>5. PICK b \in [0..n -> States] :
         /\ b[0] = a[m] /\ Scanned(a[m], v) = b[n]
         /\ \A i \in 1..n : b[i] = Scan(b[i - 1], v[i])
  BY <1>4, ScanTrace, Zenon
<1>6. PICK g \in [0..Len(w) -> States] :
         /\ g[0] = st /\ Scanned(st, w) = g[Len(w)]
         /\ \A i \in 1..Len(w) : g[i] = Scan(g[i - 1], w[i])
  BY <1>2, ScanTrace, Zenon
<1> HIDE DEF m, n, w
<1> DEFINE P == {i \in 0..m : g[i] = a[i]}
           Q == {i \in 0..n : g[m + i] = b[i]}
<1>7. \A i \in 0..m : i \in P
  <2>1. 0 \in P
    BY <1>1, <1>3, <1>6
  <2>2. ASSUME NEW i \in 0..(m - 1), i \in P PROVE i + 1 \in P
    <3>1. i + 1 \in 1..m /\ i + 1 \in 1..(m + n) /\ (i + 1) - 1 = i /\ i + 1 \in 0..m
      BY <1>1
    <3>2. w[i + 1] = u[i + 1]
      BY <1>2, <3>1
    <3>3. g[i + 1] = Scan(g[i], w[i + 1])
      BY <1>2, <1>6, <3>1
    <3>4. a[i + 1] = Scan(a[i], u[i + 1])
      BY <1>3, <3>1
    <3> QED BY <2>2, <3>1, <3>2, <3>3, <3>4
  <2>3. \A i \in 0..(m - 1) : i \in P => i + 1 \in P
    BY <2>2
  <2> HIDE DEF P
  <2> QED BY <1>1, <2>1, <2>3, IndexInduction
<1>8. \A i \in 0..n : i \in Q
  <2>1. 0 \in Q
    <3>1. m \in 0..m /\ m + 0 = m
      BY <1>1
    <3>2. g[m + 0] = b[0]
      BY <1>5, <1>7, <3>1
    <3> QED BY <1>1, <3>2
  <2>2. ASSUME NEW i \in 0..(n - 1), i \in Q PROVE i + 1 \in Q
    <3>1. /\ i + 1 \in 1..n /\ m + (i + 1) \in 1..(m + n) /\ (m + (i + 1)) - 1 = m + i
          /\ ~(m + (i + 1) <= m) /\ (m + (i + 1)) - m = i + 1 /\ (i + 1) - 1 = i
          /\ i + 1 \in 0..n
      BY <1>1
    <3>2. w[m + (i + 1)] = v[i + 1]
      BY <1>2, <3>1
    <3>3. g[m + (i + 1)] = Scan(g[m + i], w[m + (i + 1)])
      BY <1>2, <1>6, <3>1
    <3>4. b[i + 1] = Scan(b[i], v[i + 1])
      BY <1>5, <3>1
    <3> QED BY <2>2, <3>1, <3>2, <3>3, <3>4
  <2>3. \A i \in 0..(n - 1) : i \in Q => i + 1 \in Q
    BY <2>2
  <2> HIDE DEF Q
  <2> QED BY <1>1, <2>1, <2>3, IndexInduction
<1>9. g[m + n] = b[n]
  BY <1>1, <1>8
<1> QED BY <1>2, <1>3, <1>4, <1>5, <1>6, <1>9, Zenon DEF w

\* FlattenSeq puts the parts together one after the other.
LEMMA FlattenTrace ==
  ASSUME NEW S, NEW seqs \in Seq(Seq(S))
  PROVE  \E h \in [0..Len(seqs) -> Seq(S)] :
           /\ h[0] = <<>>
           /\ \A i \in 1..Len(seqs) : h[i] = h[i - 1] \o seqs[i]
           /\ FlattenSeq(seqs) = h[Len(seqs)]
<1> DEFINE n == Len(seqs)
           F(f) == [i \in 1..n |-> IF i = 1 THEN seqs[i] ELSE f[i - 1] \o seqs[i]]
           flat == CHOOSE f : f = F(f)
           step == [x \in Seq(S) \X (1..n) |-> x[1] \o seqs[x[2]]]
<1>1. n \in Nat /\ \A i \in 1..n : seqs[i] \in Seq(S)
  BY LenProperties, ElementOfSeq
<1>z. n = 0 => seqs = <<>>
  BY EmptySeq
<1>s. FlattenSeq(seqs) = IF n = 0 THEN seqs ELSE flat[n]
  BY Zenon DEF FlattenSeq
<1>2. step \in [Seq(S) \X (1..n) -> Seq(S)]
  BY <1>1
<1>3. \A s1 \in Seq(S), i \in 1..n : step[<<s1, i>>] = s1 \o seqs[i]
  OBVIOUS
<1>e. <<>> \in Seq(S)
  BY EmptySeq
<1> HIDE DEF n, step, F, flat
<1>4. PICK h \in [0..n -> Seq(S)] : IsTrace(h, <<>>, step, n)
  BY <1>1, <1>2, <1>e, TraceExists
<1>5. h[0] = <<>> /\ \A i \in 1..n : h[i] = h[i - 1] \o seqs[i]
  <2>1. \A i \in 1..n : h[i - 1] \in Seq(S)
    BY <1>1
  <2> QED BY <2>1, <1>3, <1>4 DEF IsTrace
<1>6. n # 0 => flat[n] = h[n]
  <2> SUFFICES ASSUME n # 0 PROVE flat[n] = h[n]
    OBVIOUS
  <2> DEFINE g == [i \in 1..n |-> h[i]]
  <2>1. h[1] = seqs[1]
    <3>1. 1 \in 1..n /\ 1 - 1 = 0
      BY <1>1
    <3>2. h[1] = <<>> \o seqs[1]
      BY <3>1, <1>5
    <3> QED BY <3>1, <3>2, <1>1, ConcatEmptySeq
  <2>2. g = F(g)
    <3>1. \A i \in 1..n : h[i] = IF i = 1 THEN seqs[i] ELSE g[i - 1] \o seqs[i]
      <4>1. \A i \in 1..n : i # 1 => g[i - 1] = h[i - 1]
        BY <1>1
      <4> HIDE DEF g
      <4> QED BY <4>1, <1>5, <2>1, Zenon
    <3> QED BY <3>1, Zenon DEF F
  <2>3. flat = F(flat)
    BY <2>2, Zenon DEF flat
  <2>4. /\ flat[1] = seqs[1]
        /\ \A i \in 2..n : flat[i] = flat[i - 1] \o seqs[i]
    <3>1. \A i \in 1..n : flat[i] = IF i = 1 THEN seqs[i] ELSE flat[i - 1] \o seqs[i]
      BY <2>3, Zenon DEF F
    <3>2. 1 \in 1..n /\ \A i \in 2..n : i \in 1..n /\ i # 1
      BY <1>1
    <3> QED BY <3>1, <3>2, Zenon
  <2> DEFINE P == {i \in 0..n : i = 0 \/ flat[i] = h[i]}
  <2>5. 0 \in P
    BY <1>1
  <2>6. ASSUME NEW i \in 0..(n - 1), i \in P PROVE i + 1 \in P
    <3>1. CASE i = 0
      BY <3>1, <1>1, <2>1, <2>4
    <3>2. CASE i # 0
      <4>1. i + 1 \in 2..n /\ i + 1 \in 1..n /\ (i + 1) - 1 = i /\ i + 1 \in 0..n
        BY <1>1, <3>2
      <4>2. flat[i + 1] = flat[i] \o seqs[i + 1] /\ h[i + 1] = h[i] \o seqs[i + 1]
        BY <4>1, <1>5, <2>4
      <4>3. flat[i] = h[i]
        BY <2>6, <3>2
      <4> QED BY <4>1, <4>2, <4>3
    <3> QED BY <3>1, <3>2
  <2>7. \A i \in 0..(n - 1) : i \in P => i + 1 \in P
    BY <2>6
  <2>8. \A i \in 0..n : i \in P
    <3> HIDE DEF P
    <3> QED BY <1>1, <2>5, <2>7, IndexInduction
  <2> QED BY <1>1, <2>8
<1>7. FlattenSeq(seqs) = h[n]
  BY <1>5, <1>6, <1>s, <1>z
<1> QED BY <1>4, <1>5, <1>7 DEF n

(***************************************************************************)
(* Quoted arguments                                                        *)
(***************************************************************************)
\* What the tokenizer does with the characters that shellQuote and shellJoin
\* put in (main.go:125-141).
LEMMA Moves ==
  ASSUME NEW w \in Seq(Symbols), NEW ws \in Seq(Seq(Symbols)), NEW o \in BOOLEAN
  PROVE  /\ Scan(State("plain", o, w, ws), Single) = State(Single, TRUE, w, ws)
         /\ Scan(State("plain", o, w, ws), Double) = State(Double, TRUE, w, ws)
         /\ Scan(State("plain", TRUE, w, ws), Blank) = State("plain", FALSE, <<>>, Append(ws, w))
         /\ Scan(State(Double, o, w, ws), Double) = State("plain", TRUE, w, ws)
         /\ Scan(State(Double, o, w, ws), Single) = State(Double, TRUE, Append(w, Single), ws)
         /\ Scan(State(Single, o, w, ws), Single) = State("plain", TRUE, w, ws)
         /\ \A ch \in ShellChars \ {Single} :
               Scan(State(Single, o, w, ws), ch) = State(Single, TRUE, Append(w, ch), ws)
<1> DEFINE plain == State("plain", o, w, ws)
           double == State(Double, o, w, ws)
           single == State(Single, o, w, ws)
<1>1. plain.mode = "plain" /\ plain.word = w /\ plain.words = ws
  BY DEF State
<1>2. double.mode = Double /\ double.word = w /\ double.words = ws
  BY DEF State
<1>3. single.mode = Single /\ single.word = w /\ single.words = ws
  BY DEF State
<1>4. /\ Single # "plain" /\ Double # "plain" /\ Blank # "plain" /\ Single # Double
      /\ Single # "$" /\ Double # "$" /\ Blank # "$" /\ Blank # Single /\ Blank # Double
  BY DEF Single, Double, Blank
<1> HIDE DEF plain, double, single
<1>5. Scan(plain, Single) = State(Single, TRUE, w, ws)
  BY <1>1, <1>4, Zenon DEF Scan, Quote
<1>6. Scan(plain, Double) = State(Double, TRUE, w, ws)
  BY <1>1, <1>4, Zenon DEF Scan, Quote
<1>7. Scan(State("plain", TRUE, w, ws), Blank) = State("plain", FALSE, <<>>, Append(ws, w))
  <2>1. /\ State("plain", TRUE, w, ws).mode = "plain" /\ State("plain", TRUE, w, ws).word = w
        /\ State("plain", TRUE, w, ws).words = ws /\ State("plain", TRUE, w, ws).open
    BY DEF State
  <2> QED BY <2>1, <1>4, Zenon DEF Scan, EndWord
<1>8. Scan(double, Double) = State("plain", TRUE, w, ws)
  BY <1>2, <1>4, Zenon DEF Scan, Quote
<1>9. Scan(double, Single) = State(Double, TRUE, Append(w, Single), ws)
  BY <1>2, <1>4, Zenon DEF Scan, Put
<1>10. Scan(single, Single) = State("plain", TRUE, w, ws)
  BY <1>3, <1>4, Zenon DEF Scan, Quote
<1>11. ASSUME NEW ch \in ShellChars \ {Single}
       PROVE  Scan(single, ch) = State(Single, TRUE, Append(w, ch), ws)
  BY <1>3, <1>4, Zenon DEF Scan, Put
<1> QED BY <1>5, <1>6, <1>7, <1>8, <1>9, <1>10, <1>11 DEF plain, double, single

\* The states that occur below.
LEMMA StateType ==
  ASSUME NEW w \in Seq(Symbols), NEW ws \in Seq(Seq(Symbols)), NEW o \in BOOLEAN
  PROVE  \A mode \in {"plain", Single, Double} : State(mode, o, w, ws) \in States
BY DEF State, States

\* Within single quotes an escaped character is that character (main.go:130).
LEMMA ScanEscaped ==
  ASSUME NEW w \in Seq(Symbols), NEW ws \in Seq(Seq(Symbols)), NEW ch \in ShellChars
  PROVE  /\ EscapeQuote(ch) \in Seq(Symbols)
         /\ Scanned(State(Single, TRUE, w, ws), EscapeQuote(ch))
               = State(Single, TRUE, Append(w, ch), ws)
<1> DEFINE st == State(Single, TRUE, w, ws)
<1>1. st \in States
  BY StateType
<1>2. Append(w, Single) \in Seq(Symbols)
  BY DEF Symbols, ShellChars
<1>3. CASE ch # Single
  <2>1. ch \in Symbols /\ EscapeQuote(ch) = <<ch>>
    BY <1>3 DEF Symbols, EscapeQuote
  <2>2. Scanned(st, <<ch>>) = Scan(st, ch)
    BY <1>1, <2>1, ScanShort
  <2>3. Scan(st, ch) = State(Single, TRUE, Append(w, ch), ws)
    BY <1>3, Moves
  <2>4. <<ch>> \in Seq(Symbols)
    BY <2>1
  <2> QED BY <2>1, <2>2, <2>3, <2>4, Zenon
<1>4. CASE ch = Single
  <2> DEFINE line == <<Single, Double, Single, Double, Single>>
  <2>1. EscapeQuote(ch) = line
    BY <1>4 DEF EscapeQuote
  <2>2. /\ line \in Seq(Symbols) /\ Len(line) = 5
        /\ line[1] = Single /\ line[2] = Double /\ line[3] = Single
        /\ line[4] = Double /\ line[5] = Single
    <3>1. Single \in Symbols /\ Double \in Symbols
      BY DEF Symbols, ShellChars
    <3> QED BY <3>1
  <2> HIDE DEF line, st
  <2>3. PICK g \in [0..Len(line) -> States] :
           /\ g[0] = st
           /\ \A i \in 1..Len(line) : g[i] = Scan(g[i - 1], line[i])
           /\ Scanned(st, line) = g[Len(line)]
    BY <1>1, <2>2, ScanTrace
  <2>4. /\ g[1] = Scan(g[0], Single) /\ g[2] = Scan(g[1], Double) /\ g[3] = Scan(g[2], Single)
        /\ g[4] = Scan(g[3], Double) /\ g[5] = Scan(g[4], Single)
    BY <2>2, <2>3
  <2>5. g[1] = State("plain", TRUE, w, ws)
    BY <2>3, <2>4, Moves, Zenon DEF st
  <2>6. g[2] = State(Double, TRUE, w, ws)
    BY <2>4, <2>5, Moves
  <2>7. g[3] = State(Double, TRUE, Append(w, Single), ws)
    BY <2>4, <2>6, Moves
  <2>8. g[4] = State("plain", TRUE, Append(w, Single), ws)
    BY <1>2, <2>4, <2>7, Moves
  <2>9. g[5] = State(Single, TRUE, Append(w, Single), ws)
    BY <1>2, <2>4, <2>8, Moves
  <2>10. Scanned(st, line) = g[5]
    BY <2>2, <2>3, Zenon
  <2>11. Append(w, ch) = Append(w, Single)
    BY <1>4
  <2> QED BY <2>1, <2>2, <2>9, <2>10, <2>11, Zenon DEF st
<1> QED BY <1>3, <1>4

\* One more element of a prefix.
LEMMA PrefixGrows ==
  ASSUME NEW S, NEW s \in Seq(S), NEW i \in 0..(Len(s) - 1)
  PROVE  Append(SubSeq(s, 1, i), s[i + 1]) = SubSeq(s, 1, i + 1)
<1>1. Len(s) \in Nat
  BY LenProperties
<1>2. i + 1 \in 1..Len(s) /\ 1 \in 1..Len(s) /\ (i + 1) - 1 = i
  BY <1>1
<1>3. SubSeq(s, 1, i + 1) = SubSeq(s, 1, i) \o <<s[i + 1]>>
  BY <1>1, <1>2, SubSeqRecursiveSecond
<1>4. SubSeq(s, 1, i) \in Seq(S) /\ s[i + 1] \in S
  BY <1>1, <1>2
<1> QED BY <1>3, <1>4

\* A quoted argument is one word, whatever its characters (main.go:125-131).
LEMMA ScanQuoted ==
  ASSUME NEW s \in Seq(ShellChars), NEW ws \in Seq(Seq(Symbols)), NEW o \in BOOLEAN
  PROVE  /\ shellQuote(s) \in Seq(Symbols)
         /\ Scanned(State("plain", o, <<>>, ws), shellQuote(s)) = State("plain", TRUE, s, ws)
<1> DEFINE n == Len(s)
           parts == [i \in 1..Len(s) |-> EscapeQuote(s[i])]
           quote == <<Single>>
           first == State("plain", o, <<>>, ws)
           within(i) == State(Single, TRUE, SubSeq(s, 1, i), ws)
<1>1. /\ n \in Nat /\ \A i \in 1..n : s[i] \in ShellChars
      /\ s \in Seq(Symbols)
  BY LenProperties, ElementOfSeq DEF Symbols
<1>e. <<>> \in Seq(Symbols)
  BY EmptySeq
<1>2. \A i \in 1..n : EscapeQuote(s[i]) \in Seq(Symbols)
  BY <1>1, <1>e, ScanEscaped
<1>3. parts \in Seq(Seq(Symbols)) /\ Len(parts) = n /\ \A i \in 1..n : parts[i] = EscapeQuote(s[i])
  BY <1>1, <1>2
<1>q. quote \in Seq(Symbols) /\ Single \in Symbols
  BY DEF Symbols, ShellChars
<1>4. shellQuote(s) = (quote \o FlattenSeq(parts)) \o quote
  BY Zenon DEF shellQuote
<1> HIDE DEF n, parts, quote
<1>5. PICK h \in [0..Len(parts) -> Seq(Symbols)] :
           /\ h[0] = <<>>
           /\ \A i \in 1..Len(parts) : h[i] = h[i - 1] \o parts[i]
           /\ FlattenSeq(parts) = h[Len(parts)]
  BY <1>3, FlattenTrace
<1>6. ASSUME NEW i \in 0..n
      PROVE  SubSeq(s, 1, i) \in Seq(Symbols) /\ within(i) \in States
  <2>1. SubSeq(s, 1, i) \in Seq(Symbols)
    BY <1>1, SubSeqProperties DEF n
  <2> QED BY <2>1, StateType
<1> DEFINE P == {i \in 0..n : Scanned(within(0), h[i]) = within(i)}
<1>7. \A i \in 0..n : i \in P
  <2>1. 0 \in P
    <3>1. 0 \in 0..n
      BY <1>1
    <3>2. within(0) \in States
      BY <1>6, <3>1
    <3> HIDE DEF within
    <3>3. Scanned(within(0), <<>>) = within(0)
      BY <3>2, <1>q, ScanShort
    <3> QED BY <3>1, <3>3, <1>5
  <2>2. ASSUME NEW i \in 0..(n - 1), i \in P PROVE i + 1 \in P
    <3>1. i + 1 \in 1..n /\ i + 1 \in 0..n /\ i \in 0..n /\ 0 \in 0..n /\ (i + 1) - 1 = i
      BY <1>1
    <3>2. h[i + 1] = h[i] \o EscapeQuote(s[i + 1]) /\ h[i] \in Seq(Symbols)
      BY <1>3, <1>5, <3>1
    <3>3. /\ s[i + 1] \in ShellChars /\ SubSeq(s, 1, i) \in Seq(Symbols)
          /\ EscapeQuote(s[i + 1]) \in Seq(Symbols) /\ within(0) \in States
      BY <1>1, <1>2, <1>6, <3>1, Zenon
    <3>4. Scanned(within(0), h[i + 1]) = Scanned(Scanned(within(0), h[i]), EscapeQuote(s[i + 1]))
      <4> HIDE DEF within
      <4> QED BY <3>2, <3>3, ScanConcat
    <3>5. Scanned(within(0), h[i]) = within(i)
      BY <2>2
    <3>6. Scanned(within(i), EscapeQuote(s[i + 1]))
            = State(Single, TRUE, Append(SubSeq(s, 1, i), s[i + 1]), ws)
      BY <3>3, ScanEscaped
    <3>7. Append(SubSeq(s, 1, i), s[i + 1]) = SubSeq(s, 1, i + 1)
      BY <1>1, PrefixGrows DEF n
    <3>8. Scanned(within(0), h[i + 1]) = within(i + 1)
      BY <3>4, <3>5, <3>6, <3>7, Zenon
    <3> QED BY <3>1, <3>8
  <2>3. \A i \in 0..(n - 1) : i \in P => i + 1 \in P
    BY <2>2
  <2> HIDE DEF P
  <2> QED BY <1>1, <2>1, <2>3, IndexInduction
<1>8. Scanned(within(0), FlattenSeq(parts)) = State(Single, TRUE, s, ws)
  <2>1. n \in 0..n /\ SubSeq(s, 1, n) = s
    BY <1>1, SubSeqFull DEF n
  <2>2. Scanned(within(0), h[n]) = within(n)
    BY <1>7, <2>1
  <2> QED BY <1>3, <1>5, <2>1, <2>2, Zenon
<1>9. first \in States /\ within(0) \in States
  <2>1. 0 \in 0..n
    BY <1>1
  <2>2. within(0) \in States
    BY <1>6, <2>1
  <2> QED BY <2>2, <1>e, StateType
<1>10. FlattenSeq(parts) \in Seq(Symbols) /\ quote \o FlattenSeq(parts) \in Seq(Symbols)
  <2>1. FlattenSeq(parts) \in Seq(Symbols)
    BY <1>1, <1>3, <1>5
  <2> QED BY <2>1, <1>q, ConcatProperties
<1>11. Scanned(first, quote) = within(0)
  <2>1. Scanned(first, quote) = Scan(first, Single)
    BY <1>9, <1>q, ScanShort DEF quote
  <2>2. Scan(first, Single) = State(Single, TRUE, <<>>, ws)
    BY <1>e, Moves
  <2>3. SubSeq(s, 1, 0) = <<>>
    BY SubSeqEmpty
  <2> QED BY <2>1, <2>2, <2>3, Zenon
<1>12. Scanned(first, quote \o FlattenSeq(parts)) = State(Single, TRUE, s, ws)
  <2>1. Scanned(first, quote \o FlattenSeq(parts)) = Scanned(Scanned(first, quote), FlattenSeq(parts))
    BY <1>9, <1>10, <1>q, ScanConcat
  <2> QED BY <2>1, <1>8, <1>11, Zenon
<1>13. Scanned(State(Single, TRUE, s, ws), quote) = State("plain", TRUE, s, ws)
  <2>1. State(Single, TRUE, s, ws) \in States
    BY <1>1, StateType
  <2>2. Scanned(State(Single, TRUE, s, ws), quote) = Scan(State(Single, TRUE, s, ws), Single)
    BY <2>1, <1>q, ScanShort DEF quote
  <2>3. Scan(State(Single, TRUE, s, ws), Single) = State("plain", TRUE, s, ws)
    BY <1>1, Moves
  <2> QED BY <2>2, <2>3, Zenon
<1>14. Scanned(first, shellQuote(s)) = Scanned(Scanned(first, quote \o FlattenSeq(parts)), quote)
  <2> HIDE DEF first, within, P
  <2>1. Scanned(first, (quote \o FlattenSeq(parts)) \o quote)
          = Scanned(Scanned(first, quote \o FlattenSeq(parts)), quote)
    BY <1>9, <1>10, <1>q, ScanConcat
  <2> QED BY <1>4, <2>1
<1>15. shellQuote(s) \in Seq(Symbols)
  BY <1>4, <1>10, <1>q, ConcatProperties
<1> QED BY <1>12, <1>13, <1>14, <1>15, Zenon

\* The joined arguments are as many words (main.go:133-141).
LEMMA WordsOfJoined ==
  ASSUME NEW list \in Seq(Seq(ShellChars)), list # <<>>
  PROVE  Words(shellJoin(list)) = list
<1> DEFINE n == Len(list)
           part(i) == IF i = 1 THEN shellQuote(list[i]) ELSE <<Blank>> \o shellQuote(list[i])
           parts == [i \in 1..Len(list) |-> part(i)]
           after(i) == State("plain", TRUE, list[i], SubSeq(list, 1, i - 1))
<1>1. /\ n \in Nat /\ n # 0 /\ \A i \in 1..n : list[i] \in Seq(ShellChars)
      /\ list \in Seq(Seq(Symbols)) /\ \A i \in 1..n : list[i] \in Seq(Symbols)
  <2>1. Seq(ShellChars) \subseteq Seq(Symbols)
    BY SeqMonotonic DEF Symbols
  <2>2. list \in Seq(Seq(Symbols))
    BY <2>1, SeqMonotonic
  <2> QED BY <2>1, <2>2, LenProperties, ElementOfSeq, EmptySeq
<1>e. <<>> \in Seq(Symbols) /\ <<>> \in Seq(Seq(Symbols)) /\ TRUE \in BOOLEAN /\ FALSE \in BOOLEAN
  BY EmptySeq
<1>b. <<Blank>> \in Seq(Symbols) /\ Blank \in Symbols
  BY DEF Symbols, ShellChars
<1>2. ASSUME NEW i \in 1..n PROVE part(i) \in Seq(Symbols)
  <2>1. shellQuote(list[i]) \in Seq(Symbols)
    BY <1>1, <1>e, ScanQuoted, Zenon
  <2>2. <<Blank>> \o shellQuote(list[i]) \in Seq(Symbols)
    BY <1>b, <2>1, ConcatProperties
  <2> QED BY <2>1, <2>2, Zenon
<1>3. parts \in Seq(Seq(Symbols)) /\ Len(parts) = n /\ \A i \in 1..n : parts[i] = part(i)
  <2> HIDE DEF part
  <2> QED BY <1>1, <1>2
<1>4. shellJoin(list) = FlattenSeq(parts)
  BY Zenon DEF shellJoin
<1> HIDE DEF n, parts, part
<1>5. PICK h \in [0..Len(parts) -> Seq(Symbols)] :
           /\ h[0] = <<>>
           /\ \A i \in 1..Len(parts) : h[i] = h[i - 1] \o parts[i]
           /\ FlattenSeq(parts) = h[Len(parts)]
  BY <1>3, FlattenTrace
<1>6. Start \in States /\ Scanned(Start, <<>>) = Start
  <2>1. Start \in States
    BY <1>e, StateType DEF Start
  <2> QED BY <1>b, <2>1, ScanShort
<1>7. ASSUME NEW i \in 1..n
      PROVE  SubSeq(list, 1, i - 1) \in Seq(Seq(Symbols)) /\ after(i) \in States
  <2>1. SubSeq(list, 1, i - 1) \in Seq(Seq(Symbols))
    BY <1>1, SubSeqProperties DEF n
  <2> QED BY <1>1, <2>1, StateType
<1> DEFINE P == {i \in 0..n : i = 0 \/ Scanned(Start, h[i]) = after(i)}
<1>8. \A i \in 0..n : i \in P
  <2>1. 0 \in P
    BY <1>1
  <2>2. ASSUME NEW i \in 0..(n - 1), i \in P PROVE i + 1 \in P
    <3>1. i + 1 \in 1..n /\ i + 1 \in 0..n /\ i \in 0..n /\ (i + 1) - 1 = i
      BY <1>1
    <3>2. h[i + 1] = h[i] \o part(i + 1) /\ h[i] \in Seq(Symbols) /\ part(i + 1) \in Seq(Symbols)
      BY <1>2, <1>3, <1>5, <3>1
    <3>3. Scanned(Start, h[i + 1]) = Scanned(Scanned(Start, h[i]), part(i + 1))
      BY <1>6, <3>2, ScanConcat
    <3>4. Scanned(Scanned(Start, h[i]), part(i + 1)) = after(i + 1)
      <4>1. CASE i = 0
        <5>1. Scanned(Start, h[i]) = Start /\ part(i + 1) = shellQuote(list[i + 1])
          BY <1>5, <1>6, <4>1 DEF part
        <5>2. Scanned(Start, shellQuote(list[i + 1])) = State("plain", TRUE, list[i + 1], <<>>)
          BY <1>1, <1>e, <3>1, ScanQuoted, Zenon DEF Start
        <5>3. SubSeq(list, 1, (i + 1) - 1) = <<>>
          BY <3>1, <4>1, SubSeqEmpty
        <5> QED BY <5>1, <5>2, <5>3, Zenon
      <4>2. CASE i # 0
        <5> DEFINE ended == State("plain", FALSE, <<>>, SubSeq(list, 1, i))
        <5>1. i \in 1..n /\ i - 1 \in 0..(n - 1) /\ (i - 1) + 1 = i
          BY <1>1, <3>1, <4>2
        <5>2. Scanned(Start, h[i]) = after(i)
          BY <2>2, <4>2
        <5>3. part(i + 1) = <<Blank>> \o shellQuote(list[i + 1])
          BY <4>2 DEF part
        <5>4. shellQuote(list[i + 1]) \in Seq(Symbols) /\ after(i) \in States
          BY <1>1, <1>7, <1>e, <3>1, <5>1, ScanQuoted, Zenon
        <5>5. Scanned(after(i), part(i + 1))
                = Scanned(Scanned(after(i), <<Blank>>), shellQuote(list[i + 1]))
          <6> HIDE DEF after, ended, P
          <6>1. Scanned(after(i), <<Blank>> \o shellQuote(list[i + 1]))
                  = Scanned(Scanned(after(i), <<Blank>>), shellQuote(list[i + 1]))
            BY <1>b, <5>4, ScanConcat, Zenon
          <6> QED BY <5>3, <6>1, Zenon
        <5>6. Scanned(after(i), <<Blank>>) = Scan(after(i), Blank)
          <6> HIDE DEF after
          <6> QED BY <1>b, <5>4, ScanShort
        <5>7. Scan(after(i), Blank)
                = State("plain", FALSE, <<>>, Append(SubSeq(list, 1, i - 1), list[i]))
          BY <1>1, <1>7, <1>e, <5>1, Moves, Zenon
        <5>8. Append(SubSeq(list, 1, i - 1), list[i]) = SubSeq(list, 1, i)
          <6>1. Append(SubSeq(list, 1, i - 1), list[(i - 1) + 1]) = SubSeq(list, 1, (i - 1) + 1)
            BY <1>1, <5>1, PrefixGrows DEF n
          <6> QED BY <5>1, <6>1
        <5>9. SubSeq(list, 1, i) \in Seq(Seq(Symbols))
          BY <1>7, <3>1
        <5>10. Scanned(ended, shellQuote(list[i + 1]))
                 = State("plain", TRUE, list[i + 1], SubSeq(list, 1, i))
          BY <1>1, <1>e, <3>1, <5>9, ScanQuoted, Zenon
        <5> QED BY <3>1, <5>2, <5>5, <5>6, <5>7, <5>8, <5>10, Zenon
      <4> QED BY <4>1, <4>2
    <3> QED BY <3>1, <3>3, <3>4, Zenon
  <2>3. \A i \in 0..(n - 1) : i \in P => i + 1 \in P
    BY <2>2
  <2> HIDE DEF P
  <2> QED BY <1>1, <2>1, <2>3, IndexInduction
<1>9. Scanned(Start, shellJoin(list)) = after(n)
  <2>1. n \in 0..n
    BY <1>1
  <2>2. Scanned(Start, h[n]) = after(n)
    BY <1>1, <1>8, <2>1, Zenon
  <2> QED BY <1>3, <1>4, <1>5, <2>2, Zenon
<1>10. after(n).mode = "plain" /\ EndWord(after(n)).words = Append(SubSeq(list, 1, n - 1), list[n])
  BY DEF EndWord, State
<1>11. Append(SubSeq(list, 1, n - 1), list[n]) = list
  <2>1. n - 1 \in 0..(n - 1) /\ (n - 1) + 1 = n
    BY <1>1
  <2>2. Append(SubSeq(list, 1, n - 1), list[(n - 1) + 1]) = SubSeq(list, 1, (n - 1) + 1)
    BY <1>1, <2>1, PrefixGrows DEF n
  <2>3. SubSeq(list, 1, n) = list
    BY <1>1, SubSeqFull DEF n
  <2> QED BY <2>1, <2>2, <2>3
<1> QED BY <1>9, <1>10, <1>11, Zenon DEF Words

\* The arguments reach the command as they were given, however many there
\* are and whatever they are made of.
THEOREM ShellArgsSurvive == ShellSpec => []ArgsSurvive
<1> DEFINE Lists == args \in Seq(Seq(ShellChars))
<1>1. ShellInit => Lists
  BY EmptySeq DEF ShellInit
<1>2. Lists /\ [ShellNext]_args => Lists'
  <2> SUFFICES ASSUME Lists, [ShellNext]_args PROVE Lists'
    OBVIOUS
  <2>1. CASE NewArg
    BY <2>1, EmptySeq DEF NewArg
  <2>2. CASE GrowArg
    <3>1. PICK ch \in ShellChars : args' = [args EXCEPT ![Len(args)] = Append(@, ch)]
      BY <2>2 DEF GrowArg
    <3>2. Len(args) \in 1..Len(args)
      BY <2>2, EmptySeq DEF GrowArg
    <3>3. Append(args[Len(args)], ch) \in Seq(ShellChars)
      BY <3>2, ElementOfSeq
    <3> QED BY <3>1, <3>2, <3>3, ExceptSeq
  <2> QED BY <2>1, <2>2 DEF ShellNext
<1>3. Lists => ArgsSurvive
  <2> SUFFICES ASSUME Lists, Len(args) >= 2 PROVE Words(CommandLine(args)) = args
    BY DEF ArgsSurvive
  <2>1. Len(args) # 1 /\ args # <<>>
    <3>1. Len(args) \in Nat /\ Len(<<>>) = 0
      BY LenProperties, EmptySeq
    <3> DEFINE n == Len(args)
    <3>2. n # 1 /\ n # 0
      <4>1. n \in Nat /\ n >= 2
        BY <3>1
      <4> HIDE DEF n
      <4> QED BY <4>1
    <3>3. args = <<>> => n = 0
      BY <3>1, Zenon
    <3> QED BY <3>2, <3>3, Zenon
  <2> QED BY <2>1, WordsOfJoined DEF CommandLine
<1> QED BY <1>1, <1>2, <1>3, PTL DEF ShellSpec

(***************************************************************************)
(* Paths                                                                   *)
(***************************************************************************)
PathNames ==
    Entries \cup {"missing", "tmpfs", "usr", "etc", "dev", "proc", "tmp", "shm"}

Path == Seq(PathNames)

\* A prefix is an initial part, position by position.
LEMMA PrefixEntries ==
  ASSUME NEW q \in Path, NEW p \in Path
  PROVE  IsPrefix(q, p) <=> Len(q) <= Len(p) /\ \A i \in 1..Len(q) : q[i] = p[i]
<1> DEFINE m == Len(q)
           a == SubSeq(q, 1, m)
           b == SubSeq(p, 1, m)
<1>1. Len(q) \in Nat /\ Len(p) \in Nat
  BY LenProperties DEF Path
<1>2. a = q
  BY SubSeqFull DEF Path
<1>3. CASE m <= Len(p)
  <2>1. \A i \in 1..m : p[i] \in PathNames
    BY <1>1, <1>3 DEF Path
  <2>2. b \in Seq(PathNames) /\ Len(b) = m /\ \A i \in 1..m : b[i] = p[i]
    <3>1. /\ b \in Seq(PathNames) /\ Len(b) = IF 1 <= m THEN m - 1 + 1 ELSE 0
          /\ \A i \in 1..(m - 1 + 1) : b[i] = p[1 + i - 1]
      BY <1>1, <2>1, SubSeqProperties
    <3> HIDE DEF b, m
    <3>2. m \in Nat
      BY <1>1 DEF m
    <3> QED BY <3>1, <3>2
  <2>3. q = b <=> \A i \in 1..m : q[i] = b[i]
    BY <2>2, SeqEqual DEF Path
  <2> QED BY <1>2, <1>3, <2>2, <2>3, Zenon DEF IsPrefix
<1> QED BY <1>1, <1>3 DEF IsPrefix

\* What is beyond a prefix is the rest.
LEMMA BeyondEntries ==
  ASSUME NEW q \in Path, NEW p \in Path, Len(q) <= Len(p)
  PROVE  /\ Beyond(p, q) \in Path /\ Len(Beyond(p, q)) = Len(p) - Len(q)
         /\ \A i \in 1..(Len(p) - Len(q)) : Beyond(p, q)[i] = p[Len(q) + i]
<1> DEFINE m == Len(q)
           n == Len(p)
           b == SubSeq(p, m + 1, n)
<1>1. m \in Nat /\ n \in Nat
  BY LenProperties DEF Path
<1>2. \A i \in (m + 1)..n : p[i] \in PathNames
  BY <1>1 DEF Path
<1>3. /\ b \in Seq(PathNames) /\ Len(b) = IF m + 1 <= n THEN n - (m + 1) + 1 ELSE 0
      /\ \A i \in 1..(n - (m + 1) + 1) : b[i] = p[(m + 1) + i - 1]
  <2> HIDE DEF m, n
  <2> QED BY <1>1, <1>2, SubSeqProperties
<1>4. m <= n /\ Beyond(p, q) = b
  BY DEF Beyond
<1>5. b \in Path /\ Len(b) = n - m /\ \A i \in 1..(n - m) : b[i] = p[m + i]
  <2> HIDE DEF m, n, b
  <2> QED BY <1>1, <1>3, <1>4 DEF Path
<1> QED BY <1>4, <1>5, Zenon

\* Concatenation, position by position.
LEMMA JoinEntries ==
  ASSUME NEW u \in Path, NEW v \in Path
  PROVE  /\ u \o v \in Path /\ Len(u \o v) = Len(u) + Len(v)
         /\ \A i \in 1..(Len(u) + Len(v)) :
               (u \o v)[i] = IF i <= Len(u) THEN u[i] ELSE v[i - Len(u)]
BY ConcatProperties, Zenon DEF Path

\* A path is a prefix of what is put after it, ...
LEMMA JoinPrefix ==
  ASSUME NEW u \in Path, NEW v \in Path
  PROVE  IsPrefix(u, u \o v)
<1>1. Len(u) \in Nat /\ Len(v) \in Nat
  BY LenProperties DEF Path
<1> DEFINE w == u \o v
<1>2. /\ w \in Path /\ Len(w) = Len(u) + Len(v)
      /\ \A i \in 1..(Len(u) + Len(v)) : w[i] = IF i <= Len(u) THEN u[i] ELSE v[i - Len(u)]
  BY JoinEntries, Zenon
<1> HIDE DEF w
<1>3. Len(u) <= Len(w) /\ \A i \in 1..Len(u) : u[i] = w[i]
  BY <1>1, <1>2
<1>4. IsPrefix(u, w)
  BY <1>2, <1>3, PrefixEntries
<1> QED BY <1>4 DEF w

\* ... and what is beyond the first of three parts of a path is beyond the
\* first and the second, put after the second.
LEMMA BeyondTwice ==
  ASSUME NEW l \in Path, NEW q \in Path, NEW p \in Path, Len(l) <= Len(q), IsPrefix(q, p)
  PROVE  Beyond(p, l) = Beyond(q, l) \o Beyond(p, q)
<1> DEFINE a == Beyond(p, l)
           b == Beyond(q, l)
           c == Beyond(p, q)
           w == b \o c
<1>1. /\ Len(l) \in Nat /\ Len(q) \in Nat /\ Len(p) \in Nat
      /\ Len(q) <= Len(p) /\ \A i \in 1..Len(q) : q[i] = p[i]
  BY LenProperties, PrefixEntries DEF Path
<1>2. Len(l) <= Len(p)
  BY <1>1
<1>3. /\ a \in Path /\ Len(a) = Len(p) - Len(l)
      /\ \A i \in 1..(Len(p) - Len(l)) : a[i] = p[Len(l) + i]
  BY <1>2, BeyondEntries, Zenon
<1>4. /\ b \in Path /\ Len(b) = Len(q) - Len(l)
      /\ \A i \in 1..(Len(q) - Len(l)) : b[i] = q[Len(l) + i]
  BY BeyondEntries, Zenon
<1>5. /\ c \in Path /\ Len(c) = Len(p) - Len(q)
      /\ \A i \in 1..(Len(p) - Len(q)) : c[i] = p[Len(q) + i]
  BY <1>1, BeyondEntries, Zenon
<1>6. /\ w \in Path /\ Len(w) = Len(b) + Len(c)
      /\ \A i \in 1..(Len(b) + Len(c)) : w[i] = IF i <= Len(b) THEN b[i] ELSE c[i - Len(b)]
  BY <1>4, <1>5, JoinEntries, Zenon
<1> HIDE DEF a, b, c, w
<1>7. Len(w) = Len(a)
  BY <1>1, <1>3, <1>4, <1>5, <1>6
<1>8. ASSUME NEW i \in 1..Len(a) PROVE a[i] = w[i]
  <2>1. i \in 1..(Len(p) - Len(l)) /\ i \in 1..(Len(b) + Len(c)) /\ a[i] = p[Len(l) + i]
    BY <1>1, <1>3, <1>4, <1>5
  <2>2. CASE i <= Len(b)
    <3>1. i \in 1..(Len(q) - Len(l)) /\ Len(l) + i \in 1..Len(q)
      BY <1>1, <1>4, <2>2
    <3> QED BY <1>1, <1>4, <1>6, <2>1, <2>2, <3>1, Zenon
  <2>3. CASE ~(i <= Len(b))
    <3>1. i - Len(b) \in 1..(Len(p) - Len(q)) /\ Len(q) + (i - Len(b)) = Len(l) + i
      BY <1>1, <1>4, <2>1, <2>3
    <3>2. w[i] = c[i - Len(b)]
      BY <1>6, <2>1, <2>3, Zenon
    <3>3. c[i - Len(b)] = p[Len(q) + (i - Len(b))]
      BY <1>5, <3>1
    <3> QED BY <2>1, <3>1, <3>2, <3>3, Zenon
  <2> QED BY <2>2, <2>3
<1>9. a = w
  BY <1>3, <1>6, <1>7, <1>8, SeqEqual DEF Path
<1> QED BY <1>9 DEF a, b, c, w

\* A path is its prefix and what is beyond it.
LEMMA PrefixAndBeyond ==
  ASSUME NEW q \in Path, NEW p \in Path, IsPrefix(q, p)
  PROVE  p = q \o Beyond(p, q)
<1> DEFINE c == Beyond(p, q)
           w == q \o c
<1>1. /\ Len(q) \in Nat /\ Len(p) \in Nat
      /\ Len(q) <= Len(p) /\ \A i \in 1..Len(q) : q[i] = p[i]
  BY LenProperties, PrefixEntries DEF Path
<1>2. /\ c \in Path /\ Len(c) = Len(p) - Len(q)
      /\ \A i \in 1..(Len(p) - Len(q)) : c[i] = p[Len(q) + i]
  BY <1>1, BeyondEntries, Zenon
<1>3. /\ w \in Path /\ Len(w) = Len(q) + Len(c)
      /\ \A i \in 1..(Len(q) + Len(c)) : w[i] = IF i <= Len(q) THEN q[i] ELSE c[i - Len(q)]
  BY <1>2, JoinEntries, Zenon
<1> HIDE DEF c, w
<1>4. Len(w) = Len(p)
  BY <1>1, <1>2, <1>3
<1>5. ASSUME NEW i \in 1..Len(p) PROVE p[i] = w[i]
  <2>0. i \in 1..(Len(q) + Len(c))
    BY <1>1, <1>2
  <2>1. CASE i <= Len(q)
    <3>1. i \in 1..Len(q)
      BY <1>1, <2>1
    <3> QED BY <1>1, <1>3, <2>0, <2>1, <3>1, Zenon
  <2>2. CASE ~(i <= Len(q))
    <3>1. i - Len(q) \in 1..(Len(p) - Len(q)) /\ Len(q) + (i - Len(q)) = i
      BY <1>1, <2>2
    <3>2. w[i] = c[i - Len(q)]
      BY <1>3, <2>0, <2>2, Zenon
    <3>3. c[i - Len(q)] = p[Len(q) + (i - Len(q))]
      BY <1>2, <3>1, Zenon
    <3> QED BY <3>1, <3>2, <3>3, Zenon
  <2> QED BY <2>1, <2>2
<1>6. p = w
  BY <1>3, <1>4, <1>5, SeqEqual DEF Path
<1> QED BY <1>6 DEF c, w

(***************************************************************************)
(* Links                                                                   *)
(***************************************************************************)
\* The host's directories, links and homes are paths; a link is one name.
LEMMA HostPaths ==
  /\ \A p \in Dirs \cup Homes \cup DOMAIN Links : p \in Path /\ p \in Seq(Entries)
  /\ \A l \in DOMAIN Links : Len(l) = 1 /\ l[1] \in Entries /\ Links[l] \in Path
<1>1. \A p \in Seq(Entries) : p \in Path
  BY SeqMonotonic DEF Path, PathNames
<1>2. \A p \in Dirs \cup Homes \cup DOMAIN Links : p \in Seq(Entries)
  BY SandboxAssumption
<1>3. \A l \in DOMAIN Links : Len(l) = 1 /\ Links[l] \in Dirs
  BY SandboxAssumption
<1>4. ASSUME NEW l \in DOMAIN Links PROVE l[1] \in Entries
  BY <1>2, <1>3
<1> QED BY <1>1, <1>2, <1>3, <1>4

\* A link is above a path if the path begins with its name.
LEMMA LinkAbove ==
  ASSUME NEW l \in DOMAIN Links, NEW p \in Path
  PROVE  IsPrefix(l, p) <=> p # <<>> /\ l[1] = p[1]
<1>1. l \in Path /\ Len(l) = 1
  BY HostPaths
<1>2. IsPrefix(l, p) <=> Len(l) <= Len(p) /\ \A i \in 1..Len(l) : l[i] = p[i]
  BY <1>1, PrefixEntries
<1>3. Len(p) \in Nat /\ (p # <<>> => Len(p) # 0) /\ (p = <<>> => Len(p) = 0)
  BY LenProperties, EmptySeq DEF Path
<1> QED BY <1>1, <1>2, <1>3

\* Two links above a path are one.
LEMMA OneLink ==
  ASSUME NEW k \in DOMAIN Links, NEW l \in DOMAIN Links, k[1] = l[1]
  PROVE  k = l
<1>1. k \in Path /\ l \in Path /\ Len(k) = 1 /\ Len(l) = 1
  BY HostPaths
<1>2. \A i \in 1..Len(k) : k[i] = l[i]
  BY <1>1
<1> QED BY <1>1, <1>2, SeqEqual DEF Path

\* What canonicalize does (main.rs:66-67).
LEMMA CanonicalForm ==
  ASSUME NEW p \in Path
  PROVE  /\ canonicalize(p) \in Path
         /\ (\A l \in DOMAIN Links : ~IsPrefix(l, p)) => canonicalize(p) = p
         /\ \A l \in DOMAIN Links : IsPrefix(l, p) =>
               canonicalize(p) = Links[l] \o Beyond(p, l)
<1> DEFINE above == {l \in DOMAIN Links : IsPrefix(l, p)}
           top == CHOOSE l \in above : TRUE
<1>1. canonicalize(p) = IF above = {} THEN p ELSE Links[top] \o Beyond(p, top)
  BY Zenon DEF canonicalize
<1>2. above # {} => top \in above
  BY Zenon
<1> HIDE DEF top
<1>3. ASSUME NEW l \in DOMAIN Links, IsPrefix(l, p)
      PROVE  canonicalize(p) = Links[l] \o Beyond(p, l) /\ canonicalize(p) \in Path
  <2>1. above # {} /\ top \in DOMAIN Links /\ IsPrefix(top, p)
    BY <1>2, <1>3
  <2>2. top = l
    BY <1>3, <2>1, LinkAbove, OneLink, Zenon
  <2>3. canonicalize(p) = Links[l] \o Beyond(p, l)
    BY <1>1, <2>1, <2>2, Zenon
  <2>4. l \in Path /\ Links[l] \in Path
    BY HostPaths
  <2>5. Len(l) <= Len(p)
    BY <1>3, <2>4, PrefixEntries
  <2>6. Beyond(p, l) \in Path
    BY <2>4, <2>5, BeyondEntries
  <2>7. Links[l] \o Beyond(p, l) \in Path
    BY <2>4, <2>6, JoinEntries
  <2> QED BY <2>3, <2>7
<1>4. (\A l \in DOMAIN Links : ~IsPrefix(l, p)) => canonicalize(p) = p
  BY <1>1
<1> QED BY <1>3, <1>4

\* A canonical path is its own, and so is a tmpfs's name.
LEMMA CanonicalDirs == \A d \in Dirs \cup {Tmpfs} : d \in Path /\ canonicalize(d) = d
<1>1. ASSUME NEW d \in Dirs PROVE d \in Path /\ canonicalize(d) = d
  BY HostPaths, CanonicalForm, SandboxAssumption
<1>2. Tmpfs \in Path /\ Tmpfs # <<>> /\ Tmpfs[1] = "tmpfs"
  BY DEF Tmpfs, Path, PathNames
<1>3. "tmpfs" \notin Entries
  BY SandboxAssumption
<1>4. ASSUME NEW l \in DOMAIN Links PROVE ~IsPrefix(l, Tmpfs)
  <2>1. l[1] \in Entries
    BY HostPaths
  <2>2. IsPrefix(l, Tmpfs) <=> Tmpfs # <<>> /\ l[1] = Tmpfs[1]
    BY <1>2, LinkAbove
  <2> QED BY <1>2, <1>3, <2>1, <2>2
<1>5. canonicalize(Tmpfs) = Tmpfs
  BY <1>2, <1>4, CanonicalForm
<1> QED BY <1>1, <1>2, <1>5

\* Below a directory other than the root the same link is above a path, so
\* that prefixes stay prefixes.
LEMMA CanonicalPrefix ==
  ASSUME NEW q \in Path, NEW p \in Path, IsPrefix(q, p), q # <<>>
  PROVE  canonicalize(p) = canonicalize(q) \o Beyond(p, q)
<1>1. /\ Len(q) \in Nat /\ Len(q) # 0 /\ Len(p) \in Nat
      /\ Len(q) <= Len(p) /\ \A i \in 1..Len(q) : q[i] = p[i]
  BY LenProperties, PrefixEntries, EmptySeq DEF Path
<1>2. q[1] = p[1] /\ p # <<>>
  <2>1. 1 \in 1..Len(q) /\ Len(p) # 0
    BY <1>1
  <2>2. Len(<<>>) = 0
    BY EmptySeq
  <2> QED BY <1>1, <2>1, <2>2, Zenon
<1>3. \A l \in DOMAIN Links : IsPrefix(l, q) <=> IsPrefix(l, p)
  BY <1>2, LinkAbove
<1>4. CASE \A l \in DOMAIN Links : ~IsPrefix(l, q)
  <2>1. canonicalize(q) = q /\ canonicalize(p) = p
    BY <1>3, <1>4, CanonicalForm, Zenon
  <2> QED BY <2>1, PrefixAndBeyond
<1>5. ASSUME NEW l \in DOMAIN Links, IsPrefix(l, q)
      PROVE  canonicalize(p) = canonicalize(q) \o Beyond(p, q)
  <2>1. canonicalize(q) = Links[l] \o Beyond(q, l) /\ canonicalize(p) = Links[l] \o Beyond(p, l)
    BY <1>3, <1>5, CanonicalForm
  <2>2. l \in Path /\ Links[l] \in Path /\ Len(l) <= Len(q)
    BY <1>5, HostPaths, PrefixEntries
  <2>3. Beyond(p, l) = Beyond(q, l) \o Beyond(p, q)
    BY <2>2, BeyondTwice
  <2>4. Beyond(q, l) \in Path /\ Beyond(p, q) \in Path
    BY <1>1, <2>2, BeyondEntries
  <2>5. (Links[l] \o Beyond(q, l)) \o Beyond(p, q) = Links[l] \o (Beyond(q, l) \o Beyond(p, q))
    BY <2>2, <2>4, ConcatAssociative DEF Path
  <2> QED BY <2>1, <2>3, <2>5, Zenon
<1> QED BY <1>4, <1>5

\* A path that a mount may be asked for.
LEMMA AskablePaths == Paths \subseteq Path
<1>1. <<"missing">> \in Path
  BY DEF Path, PathNames
<1>2. ASSUME NEW l \in DOMAIN Links, NEW d \in Dirs, IsPrefix(Links[l], d)
      PROVE  l \o Beyond(d, Links[l]) \in Path
  <2>1. l \in Path /\ d \in Path /\ Links[l] \in Path
    BY HostPaths
  <2>2. Len(Links[l]) <= Len(d)
    BY <1>2, <2>1, PrefixEntries
  <2>3. Beyond(d, Links[l]) \in Path
    BY <2>1, <2>2, BeyondEntries
  <2> QED BY <2>1, <2>3, JoinEntries
<1>3. Dirs \subseteq Path
  BY HostPaths
<1> SUFFICES ASSUME NEW x \in Paths PROVE x \in Path
  OBVIOUS
<1>4. CASE x \in Dirs \cup {<<"missing">>}
  BY <1>1, <1>3, <1>4
<1>5. CASE x \notin Dirs \cup {<<"missing">>}
  <2>1. PICK l \in DOMAIN Links :
           x \in {l \o Beyond(d, Links[l]) : d \in {e \in Dirs : IsPrefix(Links[l], e)}}
    BY <1>5, Zenon DEF Paths
  <2>2. PICK d \in {e \in Dirs : IsPrefix(Links[l], e)} : x = l \o Beyond(d, Links[l])
    BY <2>1, Zenon
  <2> QED BY <1>2, <2>2, Zenon
<1> QED BY <1>4, <1>5

(***************************************************************************)
(* Mounts                                                                  *)
(***************************************************************************)
\* The command lines: what is asked for, and what is given with --home, are of
\* Paths.
CliOK == cli \in [home : Paths \cup {Tmpfs}, env : Homes, rw : Seq(Paths), ro : Seq(Paths)]

Mount == [src : Path, dst : Path, rw : BOOLEAN]

\* A nonempty set of positions has a last one, and Max is it.
LEMMA LastPosition ==
  ASSUME NEW n \in Nat, NEW T, T \subseteq 1..n, T # {}
  PROVE  Max(T) \in T /\ \A i \in T : i <= Max(T)
<1> DEFINE U == {k \in Nat : \A i \in T : i <= k}
<1>1. n \in U
  OBVIOUS
<1>2. PICK k \in U : \A i \in U : ~(i < k)
  <2>1. U \subseteq Nat
    OBVIOUS
  <2>2. U # {}
    BY <1>1
  <2> HIDE DEF U
  <2>3. PICK k \in U : \A i \in U : <<i, k>> \notin OpToRel(<, Nat)
    BY <2>1, <2>2, NatLessThanWellFounded, WFMin
  <2> QED BY <2>1, <2>3 DEF OpToRel
<1>3. k \in T
  <2>1. SUFFICES ASSUME k \notin T PROVE FALSE
    OBVIOUS
  <2>2. k - 1 \in U
    <3>1. PICK t \in T : TRUE
      OBVIOUS
    <3>2. t <= k /\ t # k /\ t \in 1..n
      BY <2>1, <3>1
    <3>3. \A i \in T : i <= k - 1
      BY <2>1
    <3> QED BY <3>2, <3>3
  <2> QED BY <1>2, <2>2
<1>4. \E x \in T : \A y \in T : x >= y
  BY <1>3
<1>5. Max(T) \in T /\ \A y \in T : Max(T) >= y
  BY <1>4, Zenon DEF Max
<1> QED BY <1>5

\* A mount for every position up to a last one is a list of mounts.
LEMMA MountList ==
  ASSUME NEW k \in Nat, NEW f \in [1..k -> Mount]
  PROVE  f \in Seq(Mount) /\ Len(f) = k
<1> HIDE DEF Mount
<1>1. f \in Seq(Mount)
  OBVIOUS
<1>2. DOMAIN f = 1..k
  OBVIOUS
<1> QED BY <1>1, <1>2

\* The concatenation of lists of mounts, position by position.
LEMMA JoinMounts ==
  ASSUME NEW u \in Seq(Mount), NEW v \in Seq(Mount)
  PROVE  /\ u \o v \in Seq(Mount) /\ Len(u \o v) = Len(u) + Len(v)
         /\ \A i \in 1..(Len(u) + Len(v)) :
               (u \o v)[i] = IF i <= Len(u) THEN u[i] ELSE v[i - Len(u)]
BY ConcatProperties, Zenon

\* A mount that every jail has: a filesystem of its own, or a directory of the
\* host at its canonical path.
BaseMount == {m \in Mount : \/ m.src = Tmpfs
                            \/ m.src = m.dst /\ canonicalize(m.dst) = m.dst}

\* A directory of the host that every jail shows is one of them.
LEMMA BoundMount ==
  ASSUME NEW d \in Path, d \in HostDirectories
  PROVE  bind_mount(d, FALSE) \in BaseMount
<1>1. \A l \in DOMAIN Links : ~IsPrefix(l, d)
  BY SandboxAssumption
<1>2. canonicalize(d) = d
  BY <1>1, CanonicalForm
<1> QED BY <1>2 DEF bind_mount, Mount, BaseMount

\* And so is a filesystem of the jail's own.
LEMMA OwnMount ==
  ASSUME NEW p \in Path
  PROVE  own_mount(p) \in BaseMount
<1>1. Tmpfs \in Path
  BY CanonicalDirs
<1> QED BY <1>1 DEF own_mount, Mount, BaseMount

\* The directories of the host's layout are listed in some order.
LEMMA LayoutMounts == get_host_layout_mounts \in Seq(BaseMount)
<1> DEFINE S == LayoutDirs \cap Dirs
           n == Cardinality(S)
           found == SetToSeq(S)
           mounts == [i \in DOMAIN found |-> bind_mount(found[i], FALSE)]
<1>1. IsFiniteSet(S)
  <2> DEFINE A == {<<"bin">>, <<"sbin">>, <<"lib">>}
             B == {<<"lib32">>, <<"lib64">>, <<"run", "systemd", "resolve">>}
  <2>1. \A x, y, z : IsFiniteSet({x, y, z})
    <3> TAKE x, y, z
    <3>1. IsFiniteSet({})
      BY FS_EmptySet
    <3>2. IsFiniteSet({} \cup {x})
      BY <3>1, FS_AddElement
    <3>3. IsFiniteSet(({} \cup {x}) \cup {y})
      BY <3>2, FS_AddElement
    <3>4. IsFiniteSet((({} \cup {x}) \cup {y}) \cup {z})
      BY <3>3, FS_AddElement
    <3>5. (({} \cup {x}) \cup {y}) \cup {z} = {x, y, z}
      OBVIOUS
    <3> QED BY <3>4, <3>5, Zenon
  <2>2. IsFiniteSet(A) /\ IsFiniteSet(B)
    BY <2>1, Zenon
  <2>3. LayoutDirs = A \cup B
    BY DEF LayoutDirs
  <2> HIDE DEF A, B
  <2>4. IsFiniteSet(A \cup B)
    BY <2>2, FS_Union
  <2>5. S \in SUBSET (A \cup B)
    BY <2>3
  <2> QED BY <2>4, <2>5, FS_Subset
<1>2. n \in Nat /\ ExistsBijection(1..n, S)
  BY <1>1, FS_CardinalityType
<1>3. \E f \in [1..n -> S] : IsInjective(f)
  BY <1>2, Zenon DEF ExistsBijection, Bijection, Injection
<1>4. found = CHOOSE f \in [1..n -> S] : IsInjective(f)
  BY Zenon DEF SetToSeq
<1>5. found \in [1..n -> S]
  <2> HIDE DEF S, n, found
  <2> QED BY <1>3, <1>4
<1>6. \A d \in S : bind_mount(d, FALSE) \in BaseMount
  BY BoundMount, HostPaths DEF HostDirectories
<1>7. mounts \in [1..n -> BaseMount]
  <2> HIDE DEF S, n, found, BaseMount
  <2>1. DOMAIN found = 1..n /\ \A i \in 1..n : found[i] \in S
    BY <1>5
  <2> QED BY <1>6, <2>1
<1>8. mounts \in Seq(BaseMount)
  <2> HIDE DEF n, mounts, BaseMount
  <2> QED BY <1>2, <1>7
<1> QED BY <1>8, Zenon DEF get_host_layout_mounts

\* The mounts of jail.txtpb, and those of the host's layout.
LEMMA BaseShape ==
  BaseMounts \in Seq(BaseMount) /\ Len(BaseMounts) \in Nat
<1>1. /\ <<"usr">> \in Path /\ <<"etc">> \in Path /\ <<"dev">> \in Path
      /\ <<"proc">> \in Path /\ <<"tmp">> \in Path /\ <<"dev", "shm">> \in Path
  BY DEF Path, PathNames
<1>2. <<"usr">> \in HostDirectories /\ <<"etc">> \in HostDirectories /\ <<"dev">> \in HostDirectories
  BY DEF HostDirectories
<1>3. /\ bind_mount(<<"usr">>, FALSE) \in BaseMount
      /\ bind_mount(<<"etc">>, FALSE) \in BaseMount
      /\ bind_mount(<<"dev">>, FALSE) \in BaseMount
  BY <1>1, <1>2, BoundMount
<1>4. /\ own_mount(<<"proc">>) \in BaseMount /\ own_mount(<<"tmp">>) \in BaseMount
      /\ own_mount(<<"dev", "shm">>) \in BaseMount
  BY <1>1, OwnMount
<1>5. \A a, b, c, d, e, f \in BaseMount : <<a, b, c, d, e, f>> \in Seq(BaseMount)
  <2> HIDE DEF BaseMount
  <2> QED OBVIOUS
<1>6. JailMounts \in Seq(BaseMount)
  BY <1>3, <1>4, <1>5, Zenon DEF JailMounts
<1>7. BaseMounts \in Seq(BaseMount)
  BY <1>6, LayoutMounts, ConcatProperties, Zenon DEF BaseMounts
<1> QED BY <1>7, LenProperties

\* The place of the jail's home, after the mounts that every jail has.
HomeAt == Len(BaseMounts) + 1

\* What every jail has, its home, and then what was asked for, --ro mounts last.
LEMMA MountsShape ==
  ASSUME CliOK
  PROVE  /\ Len(cli.rw) \in Nat /\ Len(cli.ro) \in Nat /\ HomeAt \in Nat \ {0}
         /\ Mounts \in Seq(Mount) /\ Len(Mounts) = HomeAt + Len(cli.rw) + Len(cli.ro)
         /\ \A i \in 1..(HomeAt - 1) : Mounts[i] \in BaseMount /\ Mounts[i] \in Range(BaseMounts)
         /\ Mounts[HomeAt] = HomeMount
         /\ \A i \in 1..Len(cli.rw) : Mounts[HomeAt + i] = bind_mount(cli.rw[i], TRUE)
         /\ \A i \in 1..Len(cli.ro) :
               Mounts[HomeAt + Len(cli.rw) + i] = bind_mount(cli.ro[i], FALSE)
<1> DEFINE m == Len(cli.rw)
           n == Len(cli.ro)
           k == Len(BaseMounts)
           h == HomeAt
           u == BaseMounts
           v == <<HomeMount>>
           w == [i \in DOMAIN cli.rw |-> bind_mount(cli.rw[i], TRUE)]
           x == [i \in DOMAIN cli.ro |-> bind_mount(cli.ro[i], FALSE)]
           uv == u \o v
           uvw == uv \o w
           all == uvw \o x
<1>1. m \in Nat /\ n \in Nat /\ DOMAIN cli.rw = 1..m /\ DOMAIN cli.ro = 1..n
  BY LenProperties DEF CliOK
<1>2. \A q \in Paths, b \in BOOLEAN : bind_mount(q, b) \in Mount
  BY AskablePaths DEF bind_mount, Mount
<1>3. HomeMount \in Mount
  <2>1. cli.env \in Path /\ cli.home \in Path
    BY HostPaths, AskablePaths, CanonicalDirs DEF CliOK
  <2> QED BY <2>1 DEF HomeMount, Mount
<1>4. /\ u \in Seq(Mount) /\ Len(u) = k /\ k \in Nat /\ h = k + 1
      /\ \A i \in 1..k : u[i] \in BaseMount /\ u[i] \in Range(BaseMounts)
  <2>1. u \in Seq(BaseMount) /\ k \in Nat
    BY BaseShape
  <2>2. u \in Seq(Mount)
    <3>1. BaseMount \subseteq Mount
      BY DEF BaseMount
    <3> QED BY <2>1, <3>1, SeqMonotonic, Zenon
  <2>3. DOMAIN u = 1..k
    BY <2>1, LenProperties, Zenon
  <2>4. \A i \in 1..k : u[i] \in BaseMount
    <3> HIDE DEF BaseMount, k, u
    <3> QED BY <2>1, <2>3, ElementOfSeq DEF k, u
  <2>5. \A i \in 1..k : u[i] \in Range(BaseMounts)
    BY <2>3, Zenon DEF Range
  <2> QED BY <2>1, <2>2, <2>4, <2>5, Zenon DEF HomeAt
<1>5. v \in Seq(Mount) /\ Len(v) = 1 /\ v[1] = HomeMount
  BY <1>3
<1>6. w \in Seq(Mount) /\ Len(w) = m /\ \A i \in 1..m : w[i] = bind_mount(cli.rw[i], TRUE)
  <2>1. \A i \in 1..m : cli.rw[i] \in Paths
    BY <1>1 DEF CliOK
  <2>2. w \in [1..m -> Mount]
    BY <1>1, <1>2, <2>1, Zenon
  <2>3. w \in Seq(Mount) /\ Len(w) = m
    BY <1>1, <2>2, MountList, Zenon
  <2>4. \A i \in 1..m : w[i] = bind_mount(cli.rw[i], TRUE)
    BY <1>1, Zenon
  <2> QED BY <2>3, <2>4, Zenon
<1>7. x \in Seq(Mount) /\ Len(x) = n /\ \A i \in 1..n : x[i] = bind_mount(cli.ro[i], FALSE)
  <2>1. \A i \in 1..n : cli.ro[i] \in Paths
    BY <1>1 DEF CliOK
  <2>2. x \in [1..n -> Mount]
    BY <1>1, <1>2, <2>1, Zenon
  <2>3. x \in Seq(Mount) /\ Len(x) = n
    BY <1>1, <2>2, MountList, Zenon
  <2>4. \A i \in 1..n : x[i] = bind_mount(cli.ro[i], FALSE)
    BY <1>1, Zenon
  <2> QED BY <2>3, <2>4, Zenon
<1>8. all = Mounts
  BY DEF Mounts
<1> HIDE DEF m, n, k, h, u, v, w, x
<1>9. /\ uv \in Seq(Mount) /\ Len(uv) = Len(u) + Len(v)
      /\ \A i \in 1..(Len(u) + Len(v)) : uv[i] = IF i <= Len(u) THEN u[i] ELSE v[i - Len(u)]
  <2>1. u \in Seq(Mount) /\ v \in Seq(Mount)
    BY <1>4, <1>5, Zenon
  <2> QED BY <2>1, JoinMounts, Zenon
<1> HIDE DEF uv
<1>10. /\ uvw \in Seq(Mount) /\ Len(uvw) = Len(uv) + Len(w)
       /\ \A i \in 1..(Len(uv) + Len(w)) : uvw[i] = IF i <= Len(uv) THEN uv[i] ELSE w[i - Len(uv)]
  <2>1. uv \in Seq(Mount) /\ w \in Seq(Mount)
    BY <1>6, <1>9, Zenon
  <2> QED BY <2>1, JoinMounts, Zenon
<1> HIDE DEF uvw
<1>11. /\ all \in Seq(Mount) /\ Len(all) = Len(uvw) + Len(x)
       /\ \A i \in 1..(Len(uvw) + Len(x)) :
             all[i] = IF i <= Len(uvw) THEN uvw[i] ELSE x[i - Len(uvw)]
  <2>1. uvw \in Seq(Mount) /\ x \in Seq(Mount)
    BY <1>7, <1>10, Zenon
  <2> QED BY <2>1, JoinMounts, Zenon
<1> HIDE DEF all
<1>12. /\ h \in Nat \ {0} /\ h - 1 = k
       /\ Len(uv) = h /\ Len(uvw) = h + m /\ Len(all) = h + m + n
  BY <1>1, <1>4, <1>5, <1>6, <1>7, <1>9, <1>10, <1>11
<1>13. \A i \in 1..h : all[i] = IF i <= k THEN u[i] ELSE v[i - k]
  <2> SUFFICES ASSUME NEW i \in 1..h PROVE all[i] = IF i <= k THEN u[i] ELSE v[i - k]
    OBVIOUS
  <2>1. /\ i \in 1..(Len(uvw) + Len(x)) /\ i <= Len(uvw)
        /\ i \in 1..(Len(uv) + Len(w)) /\ i <= Len(uv) /\ i \in 1..(Len(u) + Len(v))
    BY <1>1, <1>4, <1>5, <1>6, <1>7, <1>12
  <2>2. all[i] = uvw[i] /\ uvw[i] = uv[i]
    BY <1>10, <1>11, <2>1, Zenon
  <2>3. uv[i] = IF i <= k THEN u[i] ELSE v[i - k]
    BY <1>4, <1>9, <2>1, Zenon
  <2> QED BY <2>2, <2>3, Zenon
<1>14. /\ \A i \in 1..(h - 1) : all[i] \in BaseMount /\ all[i] \in Range(BaseMounts)
       /\ all[h] = HomeMount
  <2>1. \A i \in 1..(h - 1) : i \in 1..h /\ i \in 1..k /\ i <= k
    BY <1>4, <1>12
  <2>2. \A i \in 1..(h - 1) : all[i] = u[i]
    BY <1>13, <2>1, Zenon
  <2>3. h \in 1..h /\ ~(h <= k) /\ h - k = 1
    BY <1>4, <1>12
  <2>4. all[h] = v[1]
    BY <1>13, <2>3, Zenon
  <2> QED BY <1>4, <1>5, <2>1, <2>2, <2>4, Zenon
<1>15. ASSUME NEW i \in 1..m PROVE all[h + i] = bind_mount(cli.rw[i], TRUE)
  <2>1. uvw[h + i] = w[i]
    <3>1. h + i \in 1..(Len(uv) + Len(w)) /\ ~(h + i <= Len(uv)) /\ (h + i) - Len(uv) = i
      BY <1>1, <1>6, <1>12
    <3> QED BY <1>10, <3>1, Zenon
  <2>2. all[h + i] = uvw[h + i]
    <3>1. h + i \in 1..(Len(uvw) + Len(x)) /\ h + i <= Len(uvw)
      BY <1>1, <1>7, <1>12
    <3> QED BY <1>11, <3>1, Zenon
  <2> QED BY <1>6, <2>1, <2>2, Zenon
<1>16. ASSUME NEW i \in 1..n PROVE all[h + m + i] = bind_mount(cli.ro[i], FALSE)
  <2>1. /\ h + m + i \in 1..(Len(uvw) + Len(x)) /\ ~(h + m + i <= Len(uvw))
        /\ (h + m + i) - Len(uvw) = i
    BY <1>1, <1>7, <1>12
  <2>2. all[h + m + i] = x[i]
    BY <1>11, <2>1, Zenon
  <2> QED BY <1>7, <2>2, Zenon
<1> QED BY <1>1, <1>8, <1>11, <1>12, <1>14, <1>15, <1>16, Zenon DEF m, n, h

(***************************************************************************)
(* The jail                                                                *)
(***************************************************************************)
\* What was asked for comes after the home: every asked path has a mount, at
\* that path, --ro mounts come after --rw ones, and no other mount is later.
LEMMA AskedMounts ==
  ASSUME CliOK
  PROVE  /\ \A i \in (HomeAt + 1)..Len(Mounts) :
               /\ Mounts[i].src = Mounts[i].dst /\ Mounts[i].dst \in Asked
               /\ Mounts[i].rw <=> i <= HomeAt + Len(cli.rw)
               /\ i > HomeAt + Len(cli.rw) => Mounts[i].dst \in Range(cli.ro)
         /\ \A q \in Asked : \E i \in (HomeAt + 1)..Len(Mounts) : Mounts[i].dst = q
         /\ \A q \in Range(cli.ro) :
               \E i \in (HomeAt + 1)..Len(Mounts) : Mounts[i].dst = q /\ i > HomeAt + Len(cli.rw)
<1> DEFINE m == Len(cli.rw)
           n == Len(cli.ro)
           h == HomeAt
           s == Mounts
<1>1. m \in Nat /\ n \in Nat /\ h \in Nat /\ Len(s) = h + m + n
  BY MountsShape, Zenon
<1>m. \A i \in 1..m : s[h + i] = bind_mount(cli.rw[i], TRUE)
  BY MountsShape, Zenon
<1>n. \A i \in 1..n : s[h + m + i] = bind_mount(cli.ro[i], FALSE)
  BY MountsShape, Zenon
<1>2. DOMAIN cli.rw = 1..m /\ DOMAIN cli.ro = 1..n
  BY LenProperties DEF CliOK
<1>3. /\ Range(cli.rw) = {cli.rw[i] : i \in 1..m} /\ Range(cli.ro) = {cli.ro[i] : i \in 1..n}
      /\ Asked = Range(cli.rw) \cup Range(cli.ro)
  BY <1>2, Zenon DEF Range, Asked
<1> HIDE DEF m, n, h, s
<1>5. ASSUME NEW i \in (h + 1)..Len(s)
      PROVE  /\ s[i].src = s[i].dst /\ s[i].dst \in Asked
             /\ s[i].rw <=> i <= h + m
             /\ i > h + m => s[i].dst \in Range(cli.ro)
  <2>1. CASE i <= h + m
    <3>1. i - h \in 1..m /\ h + (i - h) = i /\ ~(i > h + m)
      BY <1>1, <2>1
    <3>2. s[i] = bind_mount(cli.rw[i - h], TRUE)
      BY <1>m, <3>1, Zenon
    <3>3. cli.rw[i - h] \in Asked
      BY <1>3, <3>1
    <3>4. s[i].src = cli.rw[i - h] /\ s[i].dst = cli.rw[i - h] /\ s[i].rw = TRUE
      BY <3>2 DEF bind_mount
    <3> QED BY <2>1, <3>1, <3>3, <3>4
  <2>2. CASE ~(i <= h + m)
    <3> DEFINE j == i - (h + m)
    <3>1. j \in 1..n /\ h + m + j = i
      BY <1>1, <2>2
    <3> HIDE DEF j
    <3>2. s[i] = bind_mount(cli.ro[j], FALSE)
      BY <1>n, <3>1, Zenon
    <3>3. cli.ro[j] \in Range(cli.ro) /\ cli.ro[j] \in Asked
      BY <1>3, <3>1
    <3>4. s[i].src = cli.ro[j] /\ s[i].dst = cli.ro[j] /\ s[i].rw = FALSE
      BY <3>2 DEF bind_mount
    <3> QED BY <2>2, <3>3, <3>4
  <2> QED BY <2>1, <2>2
<1>6. ASSUME NEW i \in 1..m PROVE \E k \in (h + 1)..Len(s) : s[k].dst = cli.rw[i]
  <2>1. h + i \in (h + 1)..Len(s)
    BY <1>1
  <2>2. s[h + i].dst = cli.rw[i]
    <3>1. s[h + i] = bind_mount(cli.rw[i], TRUE)
      BY <1>m, Zenon
    <3> QED BY <3>1 DEF bind_mount
  <2> QED BY <2>1, <2>2, Zenon
<1>7. ASSUME NEW i \in 1..n
      PROVE  \E k \in (h + 1)..Len(s) : s[k].dst = cli.ro[i] /\ k > h + m
  <2>1. h + m + i \in (h + 1)..Len(s) /\ h + m + i > h + m
    BY <1>1
  <2>2. s[h + m + i].dst = cli.ro[i]
    <3>1. s[h + m + i] = bind_mount(cli.ro[i], FALSE)
      BY <1>n, Zenon
    <3> QED BY <3>1 DEF bind_mount
  <2> QED BY <2>1, <2>2, Zenon
<1>8. \A q \in Range(cli.ro) : \E k \in (h + 1)..Len(s) : s[k].dst = q /\ k > h + m
  BY <1>3, <1>7, Zenon
<1>9. \A q \in Range(cli.rw) : \E k \in (h + 1)..Len(s) : s[k].dst = q
  BY <1>3, <1>6, Zenon
<1>10. \A q \in Asked : \E k \in (h + 1)..Len(s) : s[k].dst = q
  BY <1>3, <1>8, <1>9, Zenon
<1> QED BY <1>5, <1>8, <1>10, Zenon DEF m, h, s

\* The mount at a path is the last one that covers it.
LEMMA LastMount ==
  ASSUME CliOK, NEW p \in Path, Covering(p) # {}
  PROVE  /\ Max(Covering(p)) \in 1..Len(Mounts) /\ MountAt(p) = Mounts[Max(Covering(p))]
         /\ MountAt(p) \in Mount /\ IsPrefix(MountAt(p).dst, p)
         /\ \A i \in Covering(p) : i <= Max(Covering(p))
<1>1. Mounts \in Seq(Mount)
  BY MountsShape
<1>2. Len(Mounts) \in Nat /\ DOMAIN Mounts = 1..Len(Mounts)
  BY <1>1, LenProperties
<1>3. Covering(p) \subseteq 1..Len(Mounts)
  BY <1>2, Zenon DEF Covering
<1>4. Max(Covering(p)) \in Covering(p) /\ \A i \in Covering(p) : i <= Max(Covering(p))
  BY <1>2, <1>3, LastPosition
<1>5. Max(Covering(p)) \in 1..Len(Mounts) /\ IsPrefix(Mounts[Max(Covering(p))].dst, p)
  BY <1>3, <1>4, Zenon DEF Covering
<1>6. \A i \in 1..Len(Mounts) : Mounts[i] \in Mount
  BY <1>1
<1> QED BY <1>4, <1>5, <1>6, Zenon DEF MountAt

\* A tmpfs holds no home.
LEMMA TmpfsIsBeside ==
  ASSUME NEW h \in Homes
  PROVE  ~IsPrefix(Tmpfs, canonicalize(h))
<1> DEFINE real == canonicalize(h)
<1>1. real \in Dirs
  BY SandboxAssumption DEF Exists
<1> HIDE DEF real
<1>2. real \in Seq(Entries) /\ "tmpfs" \notin Entries /\ real \in Path
  BY <1>1, SandboxAssumption, HostPaths
<1>3. Tmpfs \in Path /\ Len(Tmpfs) = 1 /\ Tmpfs[1] = "tmpfs"
  BY DEF Tmpfs, Path, PathNames
<1> SUFFICES ASSUME IsPrefix(Tmpfs, real) PROVE FALSE
  BY DEF real
<1>4. Len(Tmpfs) <= Len(real) /\ \A i \in 1..Len(Tmpfs) : Tmpfs[i] = real[i]
  BY <1>2, <1>3, PrefixEntries
<1>5. Len(real) \in Nat /\ 1 <= Len(real) /\ real[1] = "tmpfs"
  BY <1>2, <1>3, <1>4, LenProperties
<1>6. real[1] \in Entries
  BY <1>2, <1>5
<1> QED BY <1>2, <1>5, <1>6

\* Nothing that was asked for and not refused holds the real home, by no name.
LEMMA AskedIsBeside ==
  ASSUME CliOK, ~Refused, Starts, NEW q \in Asked
  PROVE  /\ q \in Path /\ q # <<>>
         /\ ~IsPrefix(canonicalize(q), canonicalize(cli.env)) /\ ~IsPrefix(q, cli.env)
<1>1. q \in Path
  <2>1. DOMAIN cli.rw = 1..Len(cli.rw) /\ DOMAIN cli.ro = 1..Len(cli.ro)
    BY LenProperties DEF CliOK
  <2>2. Range(cli.rw) \subseteq Paths /\ Range(cli.ro) \subseteq Paths
    BY <2>1 DEF CliOK, Range
  <2> QED BY <2>2, AskablePaths DEF Asked
<1>2. cli.env \in Path
  BY HostPaths DEF CliOK
<1>3. q # Tmpfs => Exists(q)
  <2>1. PICK i \in (HomeAt + 1)..Len(Mounts) : Mounts[i].dst = q
    BY AskedMounts
  <2>2. Mounts[i].src = q
    BY <2>1, AskedMounts
  <2>3. Mounts \in Seq(Mount) /\ HomeAt \in Nat
    BY MountsShape
  <2>4. i \in DOMAIN Mounts
    BY <2>3, LenProperties
  <2> QED BY <2>2, <2>4, Zenon DEF Starts, Range
<1>4. ~IsPrefix(canonicalize(q), canonicalize(cli.env))
  <2>1. CASE q = Tmpfs
    BY <2>1, CanonicalDirs, TmpfsIsBeside DEF CliOK
  <2>2. CASE q # Tmpfs
    <3>1. Exists(q) /\ Exists(cli.env)
      BY <1>3, <2>2, SandboxAssumption DEF CliOK
    <3> QED BY <3>1, Zenon DEF Refused, exposes_home
  <2> QED BY <2>1, <2>2
<1>5. canonicalize(cli.env) \in Path /\ canonicalize(q) \in Path
  BY <1>1, <1>2, CanonicalForm
<1>6. q # <<>>
  <2>1. SUFFICES ASSUME q = <<>> PROVE FALSE
    OBVIOUS
  <2>2. <<>> \in Path /\ Len(<<>>) = 0 /\ \A l \in DOMAIN Links : ~IsPrefix(l, <<>>)
    BY <1>1, <2>1, LinkAbove, EmptySeq
  <2>3. canonicalize(q) = <<>>
    BY <2>1, <2>2, CanonicalForm
  <2>4. Len(canonicalize(cli.env)) \in Nat
    BY <1>5, LenProperties DEF Path
  <2>5. IsPrefix(<<>>, canonicalize(cli.env))
    BY <1>5, <2>2, <2>4, PrefixEntries
  <2> QED BY <1>4, <2>3, <2>5
<1>7. ~IsPrefix(q, cli.env)
  <2>1. SUFFICES ASSUME IsPrefix(q, cli.env) PROVE FALSE
    OBVIOUS
  <2>2. canonicalize(cli.env) = canonicalize(q) \o Beyond(cli.env, q)
    BY <1>1, <1>2, <1>6, <2>1, CanonicalPrefix
  <2>3. Beyond(cli.env, q) \in Path
    BY <1>1, <1>2, <2>1, PrefixEntries, BeyondEntries
  <2> QED BY <1>4, <1>5, <2>2, <2>3, JoinPrefix
<1> QED BY <1>1, <1>4, <1>6, <1>7

\* The jail's home is at $HOME: the mounts after it are beside it (main.rs:204-218).
LEMMA HomeShown ==
  ASSUME CliOK, ~Refused, Starts
  PROVE  /\ HomeAt \in Covering(cli.env) /\ MountAt(cli.env) = HomeMount
         /\ Shown(cli.env) = canonicalize(cli.home) /\ MountAt(cli.env).rw
<1>1. cli.env \in Path /\ cli.home \in Path
  BY HostPaths, AskablePaths, CanonicalDirs DEF CliOK
<1>2. HomeMount.src = cli.home /\ HomeMount.dst = cli.env /\ HomeMount.rw
  BY DEF HomeMount
<1>3. /\ Len(cli.rw) \in Nat /\ Len(cli.ro) \in Nat /\ HomeAt \in Nat \ {0}
      /\ Mounts \in Seq(Mount) /\ Len(Mounts) = HomeAt + Len(cli.rw) + Len(cli.ro)
      /\ Mounts[HomeAt] = HomeMount
  BY MountsShape
<1>4. DOMAIN Mounts = 1..Len(Mounts)
  BY <1>3, LenProperties
<1>5. HomeAt \in 1..Len(Mounts) /\ Len(Mounts) \in Nat
  <2>1. \A h \in Nat \ {0}, m, n \in Nat : h \in 1..(h + m + n) /\ h + m + n \in Nat
    OBVIOUS
  <2> QED BY <1>3, <2>1, Zenon
<1>6. HomeAt \in Covering(cli.env)
  <2>1. IsPrefix(cli.env, cli.env)
    BY <1>1, LenProperties, PrefixEntries DEF Path
  <2> QED BY <1>2, <1>3, <1>4, <1>5, <2>1, Zenon DEF Covering
<1> DEFINE last == Max(Covering(cli.env))
<1>7. /\ last \in 1..Len(Mounts) /\ MountAt(cli.env) = Mounts[last]
      /\ IsPrefix(MountAt(cli.env).dst, cli.env) /\ HomeAt <= last
  BY <1>1, <1>6, LastMount
<1> HIDE DEF last
<1>8. last \notin (HomeAt + 1)..Len(Mounts)
  <2>1. SUFFICES ASSUME last \in (HomeAt + 1)..Len(Mounts) PROVE FALSE
    OBVIOUS
  <2>2. Mounts[last].dst \in Asked
    BY <2>1, AskedMounts, Zenon
  <2> QED BY <1>7, <2>2, AskedIsBeside
<1>9. last = HomeAt
  <2>1. \A h, n \in Nat : \A i \in 1..n : h <= i /\ i \notin (h + 1)..n => i = h
    OBVIOUS
  <2>2. HomeAt \in Nat
    BY <1>3
  <2> QED BY <1>5, <1>7, <1>8, <2>1, <2>2, Zenon
<1>10. MountAt(cli.env) = HomeMount
  BY <1>3, <1>7, <1>9, Zenon
<1>11. Beyond(cli.env, cli.env) = <<>>
  <2>1. Len(cli.env) \in Nat
    BY <1>1, LenProperties DEF Path
  <2>2. Beyond(cli.env, cli.env) \in Path /\ Len(Beyond(cli.env, cli.env)) = 0
    BY <1>1, <2>1, BeyondEntries
  <2> HIDE DEF Beyond
  <2> QED BY <2>2, EmptySeq DEF Path
<1>12. canonicalize(cli.home) \o <<>> = canonicalize(cli.home)
  BY <1>1, CanonicalForm, ConcatEmptySeq DEF Path
<1> QED BY <1>2, <1>6, <1>10, <1>11, <1>12, Zenon DEF Shown

\* Only a mount whose source holds the real home shows it.
LEMMA ShownByHolder ==
  ASSUME CliOK, NEW p \in Path, Covering(p) # {}, Shown(p) = canonicalize(cli.env)
  PROVE  Holds(MountAt(p).src)
<1> DEFINE c == canonicalize(MountAt(p).src)
           rest == Beyond(p, MountAt(p).dst)
<1>1. MountAt(p) \in Mount /\ IsPrefix(MountAt(p).dst, p)
  BY LastMount
<1>2. MountAt(p).src \in Path /\ MountAt(p).dst \in Path
  BY <1>1 DEF Mount
<1>3. c \in Path
  BY <1>2, CanonicalForm
<1>4. rest \in Path
  BY <1>1, <1>2, PrefixEntries, BeyondEntries
<1>5. IsPrefix(c, c \o rest)
  BY <1>3, <1>4, JoinPrefix
<1> QED BY <1>5 DEF Shown, Holds

\* The real home is hidden: of the mounts, only one that every jail has may
\* hold it, and then $HOME is its canonical path, where the jail's own home is
\* mounted later (main.rs:63-69, 204-218).
LEMMA HomeHidden ==
  ASSUME CliOK, ~Refused, Starts
  PROVE  HomeIsPrivate
<1> SUFFICES ASSUME HomeIsApart, NEW p \in Paths, Covering(p) # {},
                    Shown(p) = canonicalize(cli.env)
             PROVE  FALSE
  BY HomeShown DEF HomeIsPrivate
<1> DEFINE at == Max(Covering(p))
<1>1. p \in Path /\ cli.env \in Path
  BY AskablePaths, HostPaths DEF CliOK
<1>2. /\ at \in 1..Len(Mounts) /\ MountAt(p) = Mounts[at]
      /\ MountAt(p) \in Mount /\ IsPrefix(MountAt(p).dst, p)
      /\ \A i \in Covering(p) : i <= at
  BY <1>1, LastMount
<1>3. Holds(MountAt(p).src)
  BY <1>1, ShownByHolder
<1>4. /\ HomeAt \in Nat \ {0} /\ Len(Mounts) \in Nat
      /\ Mounts \in Seq(Mount) /\ Mounts[HomeAt] = HomeMount
      /\ \A i \in 1..(HomeAt - 1) : Mounts[i] \in BaseMount /\ Mounts[i] \in Range(BaseMounts)
  BY MountsShape, LenProperties
<1> HIDE DEF at
<1>5. CASE at \in (HomeAt + 1)..Len(Mounts)
  <2>1. MountAt(p).src \in Asked
    BY <1>2, <1>5, AskedMounts, Zenon
  <2> QED BY <1>3, <2>1, AskedIsBeside DEF Holds
<1>6. CASE at = HomeAt
  <2>1. MountAt(p).src = cli.home
    BY <1>2, <1>4, <1>6 DEF HomeMount
  <2> QED BY <1>3, <2>1 DEF HomeIsApart
<1>7. CASE at \in 1..(HomeAt - 1)
  <2>1. MountAt(p) \in BaseMount /\ MountAt(p) \in Range(BaseMounts)
    BY <1>2, <1>4, <1>7, Zenon
  <2>2. MountAt(p).src # Tmpfs
    <3>1. ~IsPrefix(canonicalize(Tmpfs), canonicalize(cli.env))
      BY CanonicalDirs, TmpfsIsBeside DEF CliOK
    <3> QED BY <1>3, <3>1, Zenon DEF Holds
  <2>3. canonicalize(cli.env) = cli.env
    BY <1>3, <2>1, Zenon DEF HomeIsApart
  <2>4. canonicalize(MountAt(p).src) = MountAt(p).dst
    BY <2>1, <2>2 DEF BaseMount
  <2>5. MountAt(p).dst \in Path
    BY <1>2 DEF Mount
  <2>6. p = cli.env
    BY <1>1, <1>2, <2>3, <2>4, <2>5, PrefixAndBeyond, Zenon DEF Shown
  <2>7. HomeAt <= at
    BY <1>2, <2>6, HomeShown, Zenon
  <2> QED BY <1>4, <1>7, <2>7
<1> QED BY <1>2, <1>4, <1>5, <1>6, <1>7

\* What was asked for is shown at its own path, and may be written unless a
\* --ro mount includes it: its own mount, or one asked for above it, is the
\* last one there (main.rs:220-236).
LEMMA AskedShown ==
  ASSUME CliOK, ~Refused, Starts
  PROVE  AskedIsShown /\ RightsAreKept
<1> SUFFICES ASSUME NEW p \in Asked
             PROVE  /\ Shown(p) = canonicalize(p)
                    /\ MountAt(p).rw <=> \A q \in Range(cli.ro) : ~IsPrefix(q, p)
  BY DEF AskedIsShown, RightsAreKept
<1> DEFINE last == Max(Covering(p))
<1>1. p \in Path
  BY AskedIsBeside
<1>2. /\ Len(cli.rw) \in Nat /\ HomeAt \in Nat /\ Len(Mounts) \in Nat
      /\ DOMAIN Mounts = 1..Len(Mounts)
  BY MountsShape, LenProperties
<1>3. \A i \in (HomeAt + 1)..Len(Mounts) : IsPrefix(Mounts[i].dst, p) => i \in Covering(p)
  BY <1>2 DEF Covering
<1>4. PICK own \in (HomeAt + 1)..Len(Mounts) : Mounts[own].dst = p
  BY AskedMounts
<1>5. IsPrefix(p, p)
  BY <1>1, LenProperties, PrefixEntries DEF Path
<1>6. own \in Covering(p)
  BY <1>3, <1>4, <1>5, Zenon
<1>7. /\ last \in 1..Len(Mounts) /\ MountAt(p) = Mounts[last]
      /\ IsPrefix(MountAt(p).dst, p) /\ \A i \in Covering(p) : i <= last
  BY <1>1, <1>6, LastMount, Zenon
<1> HIDE DEF last
<1>8. last \in (HomeAt + 1)..Len(Mounts)
  BY <1>2, <1>6, <1>7
<1>9. /\ MountAt(p).src = MountAt(p).dst /\ MountAt(p).dst \in Asked
      /\ MountAt(p).rw <=> last <= HomeAt + Len(cli.rw)
      /\ last > HomeAt + Len(cli.rw) => MountAt(p).dst \in Range(cli.ro)
  BY <1>7, <1>8, AskedMounts, Zenon
<1>10. Shown(p) = canonicalize(p)
  <2> DEFINE q == MountAt(p).dst
  <2>1. q \in Path /\ q # <<>> /\ IsPrefix(q, p)
    BY <1>7, <1>9, AskedIsBeside
  <2>2. canonicalize(p) = canonicalize(q) \o Beyond(p, q)
    BY <1>1, <2>1, CanonicalPrefix
  <2> QED BY <1>9, <2>2, Zenon DEF Shown
<1>11. ASSUME MountAt(p).rw, NEW q \in Range(cli.ro), IsPrefix(q, p) PROVE FALSE
  <2>1. PICK i \in (HomeAt + 1)..Len(Mounts) : Mounts[i].dst = q /\ i > HomeAt + Len(cli.rw)
    BY AskedMounts, Zenon
  <2>2. i <= last
    BY <1>3, <1>7, <1>11, <2>1, Zenon
  <2> QED BY <1>2, <1>8, <1>9, <1>11, <2>1, <2>2
<1>12. ASSUME ~MountAt(p).rw PROVE \E q \in Range(cli.ro) : IsPrefix(q, p)
  <2>1. last > HomeAt + Len(cli.rw)
    BY <1>2, <1>8, <1>9, <1>12
  <2> QED BY <1>7, <1>9, <2>1, Zenon
<1>13. MountAt(p).rw <=> \A q \in Range(cli.ro) : ~IsPrefix(q, p)
  BY <1>11, <1>12
<1> QED BY <1>10, <1>13

\* Every command line is one of CliOK's.
LEMMA CommandLines == CliSpec => []CliOK
<1>1. CliInit => CliOK
  <2> SUFFICES ASSUME CliInit PROVE CliOK
    OBVIOUS
  <2> DEFINE h == CHOOSE h \in Homes : TRUE
  <2>1. h \in Homes
    BY SandboxAssumption
  <2> HIDE DEF h
  <2>2. cli = [home |-> Tmpfs, env |-> h, rw |-> <<>>, ro |-> <<>>]
    BY DEF CliInit, Default, h
  <2>3. <<>> \in Seq(Paths)
    BY EmptySeq
  <2> QED BY <2>1, <2>2, <2>3 DEF CliOK
<1>2. CliOK /\ [CliNext]_cli => CliOK'
  <2> SUFFICES ASSUME CliOK, [CliNext]_cli PROVE CliOK'
    OBVIOUS
  <2>1. CASE SetHome
    <3>1. PICK env \in Homes, home \in {Tmpfs} \cup Paths :
             cli' = [cli EXCEPT !.home = home, !.env = env]
      BY <2>1 DEF SetHome
    <3>2. cli' = [home |-> home, env |-> env, rw |-> cli.rw, ro |-> cli.ro]
      BY <3>1 DEF CliOK
    <3> QED BY <3>2 DEF CliOK
  <2>2. CASE AddMount
    <3>1. PICK path \in Paths :
             \/ cli' = [cli EXCEPT !.rw = Append(@, path)]
             \/ cli' = [cli EXCEPT !.ro = Append(@, path)]
      BY <2>2 DEF AddMount
    <3>2. \A q \in Seq(Paths) : Append(q, path) \in Seq(Paths)
      BY AppendProperties, Zenon
    <3> QED BY <3>1, <3>2 DEF CliOK
  <2>3. CASE UNCHANGED cli
    BY <2>3 DEF CliOK
  <2> QED BY <2>1, <2>2, <2>3 DEF CliNext
<1> QED BY <1>1, <1>2, PTL DEF CliSpec

\* A jail that starts shows what its command line asks for, whatever is
\* mounted within what, by whatever path it is named, and hides the real home
\* if it is apart from --home and from what every jail shows (main.rs:63-117,
\* 190-236): for every host whose links are in its root directory, every
\* command line and every number of mounts.
THEOREM SandboxJail == CliSpec => []JailShowsWhatWasAsked
<1>1. CliOK => JailShowsWhatWasAsked
  BY HomeHidden, AskedShown DEF JailShowsWhatWasAsked
<1> QED BY <1>1, CommandLines, PTL

=============================================================================
