-------------------------- MODULE NamespaceProofs --------------------------
(***************************************************************************)
(* The round trip of namespaced names, and the need for every refusal of a *)
(* server name, for names of every length.                                 *)
(***************************************************************************)
EXTENDS Namespace, SequenceTheorems, WellFoundedInduction, TLAPS

\* The separator is made of characters (namespace.go:24).
LEMMA SepIsText == namespaceSep \in Seq(Chars) /\ Len(namespaceSep) = 2
<1>1. Underscore \in Chars
  BY DEF Chars
<1> QED BY <1>1 DEF namespaceSep

\* The library's facts about a concatenation, for every pair of sequences
\* (the concatenations of namespace.go:43).
LEMMA ConcatEntries ==
  \A S : \A u, v \in Seq(S) :
    /\ u \o v \in Seq(S)
    /\ Len(u \o v) = Len(u) + Len(v)
    /\ \A i \in 1..(Len(u) + Len(v)) :
         (u \o v)[i] = IF i <= Len(u) THEN u[i] ELSE v[i - Len(u)]
<1> SUFFICES ASSUME NEW S, NEW u \in Seq(S), NEW v \in Seq(S)
             PROVE  /\ u \o v \in Seq(S)
                    /\ Len(u \o v) = Len(u) + Len(v)
                    /\ \A i \in 1..(Len(u) + Len(v)) :
                         (u \o v)[i] = IF i <= Len(u) THEN u[i] ELSE v[i - Len(u)]
  OBVIOUS
<1> QED BY ConcatProperties, Zenon

\* The characters of a concatenation around a separator of two characters
\* (namespace.go:43).
LEMMA ConcatAroundTwo ==
  ASSUME NEW S, NEW s \in Seq(S), NEW m \in Seq(S), Len(m) = 2, NEW t \in Seq(S)
  PROVE  /\ s \o m \o t \in Seq(S)
         /\ Len(s \o m \o t) = Len(s) + 2 + Len(t)
         /\ \A i \in 1..Len(s) : (s \o m \o t)[i] = s[i]
         /\ (s \o m \o t)[Len(s) + 1] = m[1]
         /\ (s \o m \o t)[Len(s) + 2] = m[2]
         /\ \A i \in 1..Len(t) : (s \o m \o t)[Len(s) + 2 + i] = t[i]
<1> DEFINE p == s \o m
<1>1. Len(s) \in Nat /\ Len(t) \in Nat
  BY LenProperties
<1>2. /\ p \in Seq(S) /\ Len(p) = Len(s) + 2
      /\ \A i \in 1..(Len(s) + 2) : p[i] = IF i <= Len(s) THEN s[i] ELSE m[i - Len(s)]
  <2>1. /\ p \in Seq(S) /\ Len(p) = Len(s) + Len(m)
        /\ \A i \in 1..(Len(s) + Len(m)) :
             p[i] = IF i <= Len(s) THEN s[i] ELSE m[i - Len(s)]
    BY ConcatEntries, Zenon
  <2> HIDE DEF p
  <2> QED BY <2>1
<1> HIDE DEF p
<1>3. /\ p \o t \in Seq(S) /\ Len(p \o t) = Len(p) + Len(t)
      /\ \A i \in 1..(Len(p) + Len(t)) :
           (p \o t)[i] = IF i <= Len(p) THEN p[i] ELSE t[i - Len(p)]
  <2>1. p \in Seq(S) /\ t \in Seq(S)
    BY <1>2
  <2> QED BY <2>1, ConcatEntries, Zenon
<1>4. \A i \in 1..(Len(s) + 2) : (p \o t)[i] = p[i]
  BY <1>1, <1>2, <1>3
<1>5. \A i \in 1..Len(s) : (p \o t)[i] = s[i]
  BY <1>1, <1>2, <1>4
<1>6. (p \o t)[Len(s) + 1] = m[1] /\ (p \o t)[Len(s) + 2] = m[2]
  <2>1. p[Len(s) + 1] = m[1] /\ p[Len(s) + 2] = m[2]
    BY <1>1, <1>2, SMTT(30)
  <2>2. Len(s) + 1 \in 1..(Len(s) + 2) /\ Len(s) + 2 \in 1..(Len(s) + 2)
    BY <1>1
  <2>3. /\ (p \o t)[Len(s) + 1] = p[Len(s) + 1]
        /\ (p \o t)[Len(s) + 2] = p[Len(s) + 2]
    BY <2>2, <1>4, Zenon
  <2> QED BY <2>1, <2>3, Zenon
<1>7. \A i \in 1..Len(t) : (p \o t)[Len(s) + 2 + i] = t[i]
  <2> SUFFICES ASSUME NEW i \in 1..Len(t) PROVE (p \o t)[Len(s) + 2 + i] = t[i]
    OBVIOUS
  <2>1. /\ Len(s) + 2 + i \in 1..(Len(p) + Len(t)) /\ ~(Len(s) + 2 + i <= Len(p))
        /\ (Len(s) + 2 + i) - Len(p) = i
    BY <1>1, <1>2
  <2> QED BY <2>1, <1>3
<1> QED BY <1>2, <1>3, <1>5, <1>6, <1>7 DEF p

\* The characters of a namespaced name, position by position
\* (namespace.go:42-44).
LEMMA PrefixedCharacters ==
  ASSUME NEW s \in Text, NEW t \in Text
  PROVE  /\ PrefixTool(s, t) \in Text
         /\ Len(PrefixTool(s, t)) = Len(s) + 2 + Len(t)
         /\ \A i \in 1..Len(s) : PrefixTool(s, t)[i] = s[i]
         /\ PrefixTool(s, t)[Len(s) + 1] = Underscore
         /\ PrefixTool(s, t)[Len(s) + 2] = Underscore
         /\ \A i \in 1..Len(t) : PrefixTool(s, t)[Len(s) + 2 + i] = t[i]
<1>1. s \in Seq(Chars) /\ t \in Seq(Chars)
  BY DEF Text
<1>2. namespaceSep[1] = Underscore /\ namespaceSep[2] = Underscore
  BY DEF namespaceSep
<1> QED BY <1>1, <1>2, SepIsText, ConcatAroundTwo, SMTT(30) DEF PrefixTool, Text

\* The first separator of a namespaced name is the one PrefixTool put there,
\* if the server name is valid (namespace.go:28-44).
LEMMA FirstIsOwn ==
  ASSUME NEW s \in Text, NEW t \in Text, ValidateServerName(s)
  PROVE  /\ Separators(PrefixTool(s, t)) # {}
         /\ FirstSeparator(PrefixTool(s, t)) = Len(s) + 1
<1> DEFINE n == PrefixTool(s, t)
<1>1. Len(s) \in Nat /\ Len(t) \in Nat
  BY DEF Text
<1>c. /\ Len(n) = Len(s) + 2 + Len(t)
      /\ \A i \in 1..Len(s) : n[i] = s[i]
      /\ n[Len(s) + 1] = Underscore /\ n[Len(s) + 2] = Underscore
  BY PrefixedCharacters
<1> HIDE DEF n
<1>2. Len(s) + 1 \in Separators(n)
  BY <1>1, <1>c DEF Separators
<1>3. ASSUME NEW j \in Separators(n) PROVE Len(s) + 1 <= j
  <2> SUFFICES ASSUME j <= Len(s) PROVE FALSE
    BY <1>1 DEF Separators
  <2>1. CASE j = Len(s)
    BY <2>1, <1>1, <1>c DEF Separators, ValidateServerName
  <2>2. CASE j < Len(s)
    <3>1. s[j] = Underscore /\ s[j + 1] = Underscore
      BY <2>2, <1>1, <1>c DEF Separators
    <3> QED BY <3>1, <2>2, <1>1 DEF Separators, ValidateServerName
  <2> QED BY <2>1, <2>2, <1>1 DEF Separators
<1>4. \A i \in Separators(n) : i \in Nat
  BY DEF Separators
<1> QED BY <1>1, <1>2, <1>3, <1>4 DEF FirstSeparator, n

\* A tool of a server with a valid name is split into that server and that
\* tool again (namespace.go:26-55).
THEOREM PrefixSplit ==
  \A s, t \in Text : ValidateServerName(s) => RoundTrip(s, t)
<1> SUFFICES ASSUME NEW s \in Text, NEW t \in Text, ValidateServerName(s)
             PROVE  RoundTrip(s, t)
  OBVIOUS
<1> DEFINE n == PrefixTool(s, t)
<1>1. /\ s \in Seq(Chars) /\ t \in Seq(Chars) /\ n \in Seq(Chars)
      /\ Len(n) = Len(s) + 2 + Len(t)
      /\ \A i \in 1..Len(s) : n[i] = s[i]
      /\ \A i \in 1..Len(t) : n[Len(s) + 2 + i] = t[i]
  BY PrefixedCharacters DEF Text
<1>2. Separators(n) # {} /\ FirstSeparator(n) = Len(s) + 1
  BY FirstIsOwn
<1> HIDE DEF n
<1>3. Len(s) \in Nat /\ Len(t) \in Nat
  BY <1>1
<1>4. SubSeq(n, 1, Len(s)) = s
  <2>1. /\ SubSeq(n, 1, Len(s)) \in Seq(Chars)
        /\ Len(SubSeq(n, 1, Len(s))) = Len(s)
        /\ \A i \in 1..Len(s) : SubSeq(n, 1, Len(s))[i] = s[i]
    BY <1>1, <1>3
  <2> QED BY <1>1, <2>1, SeqEqual
<1>5. SubSeq(n, Len(s) + 3, Len(n)) = t
  <2>1. /\ SubSeq(n, Len(s) + 3, Len(n)) \in Seq(Chars)
        /\ Len(SubSeq(n, Len(s) + 3, Len(n))) = Len(t)
        /\ \A i \in 1..Len(t) : SubSeq(n, Len(s) + 3, Len(n))[i] = n[Len(s) + 2 + i]
    BY <1>1, <1>3
  <2> QED BY <1>1, <2>1, SeqEqual
<1>6. FirstSeparator(n) - 1 = Len(s) /\ FirstSeparator(n) + 2 = Len(s) + 3
  BY <1>2, <1>3
<1>7. SplitTool(n) = [server |-> s, tool |-> t, ok |-> TRUE]
  BY <1>2, <1>4, <1>5, <1>6 DEF SplitTool
<1> QED BY <1>7 DEF RoundTrip, n

\* Two tools have one namespaced name only if they are the same tool of the same
\* server, so that Proxy may name a registered tool by the pair of its names
\* (namespace.go:42-44, proxy.go:157).
THEOREM NamespacedNamesDiffer ==
  \A s1, s2, t1, t2 \in Text :
     ValidateServerName(s1) /\ ValidateServerName(s2) /\ PrefixTool(s1, t1) = PrefixTool(s2, t2)
        => s1 = s2 /\ t1 = t2
<1> SUFFICES ASSUME NEW s1 \in Text, NEW s2 \in Text, NEW t1 \in Text, NEW t2 \in Text,
                    ValidateServerName(s1), ValidateServerName(s2),
                    PrefixTool(s1, t1) = PrefixTool(s2, t2)
             PROVE  s1 = s2 /\ t1 = t2
  OBVIOUS
<1>1. RoundTrip(s1, t1) /\ RoundTrip(s2, t2)
  BY PrefixSplit
<1>2. [server |-> s1, tool |-> t1, ok |-> TRUE] = [server |-> s2, tool |-> t2, ok |-> TRUE]
  BY <1>1 DEF RoundTrip
<1> QED BY <1>2

\* Every pair of names the runs reach, of any length, makes the round trip.
THEOREM NamespaceRoundTrips == Spec => []RoundTrips
<1> DEFINE Names == server \in Text /\ tool \in Text
<1>1. Init => Names
  BY DEF Init, Text
<1>2. Names /\ [Next]_vars => Names'
  BY SMTT(30) DEF Next, GrowServer, GrowTool, vars, Text
<1>3. Names => RoundTrips
  BY PrefixSplit DEF RoundTrips
<1> QED BY <1>1, <1>2, <1>3, PTL DEF Spec

\* A name that has a separator has a first one; strings.Index finds it
\* (namespace.go:49).
LEMMA FirstExists ==
  ASSUME NEW n \in Text, NEW j \in Separators(n)
  PROVE  FirstSeparator(n) \in Nat /\ FirstSeparator(n) <= j
<1> DEFINE less == OpToRel(<, Nat)
           T == Separators(n)
<1>1. T \subseteq Nat /\ T # {}
  BY DEF Separators
<1>2. \A x, y \in Nat : <<y, x>> \in less <=> y < x
  BY DEF OpToRel
<1>3. IsWellFoundedOn(less, Nat)
  BY NatLessThanWellFounded
<1> HIDE DEF less, T
<1>4. PICK x \in T : \A y \in T : ~(<<y, x>> \in less)
  BY <1>1, <1>3, WFMin, Zenon
<1>5. \A y \in T : x <= y
  <2> SUFFICES ASSUME NEW y \in T PROVE x <= y
    OBVIOUS
  <2>1. x \in Nat /\ y \in Nat
    BY <1>1, <1>4
  <2>2. ~(y < x)
    BY <1>2, <1>4, <2>1, Zenon
  <2> QED BY <2>1, <2>2
<1>6. FirstSeparator(n) \in T /\ \A y \in T : FirstSeparator(n) <= y
  BY <1>5 DEF FirstSeparator, T
<1> QED BY <1>1, <1>6 DEF T

\* A namespaced name with a separator that begins within the server's name is
\* split too early (namespace.go:28-39).
LEMMA SplitTooEarly ==
  ASSUME NEW s \in Text, NEW t \in Text,
         NEW j \in Separators(PrefixTool(s, t)), j <= Len(s)
  PROVE  ~RoundTrip(s, t)
<1> DEFINE n == PrefixTool(s, t)
           f == FirstSeparator(n)
<1>1. /\ n \in Seq(Chars) /\ Len(s) \in Nat /\ Len(t) \in Nat
      /\ Len(n) = Len(s) + 2 + Len(t)
  <2>1. n \in Text /\ Len(n) = Len(s) + 2 + Len(t)
    BY PrefixedCharacters
  <2>2. Len(s) \in Nat /\ Len(t) \in Nat
    BY DEF Text
  <2> HIDE DEF n
  <2> QED BY <2>1, <2>2 DEF Text
<1>2. f \in Nat /\ j \in Nat /\ f <= j /\ j <= Len(s) /\ Separators(n) # {}
  <2>1. f \in Nat /\ f <= j /\ Separators(n) # {}
    BY <1>1, FirstExists DEF Text
  <2>2. j \in Nat
    BY DEF Separators
  <2> QED BY <2>1, <2>2
<1>3. f \in Separators(n) => f >= 1
  BY DEF Separators
<1> SUFFICES ASSUME RoundTrip(s, t) PROVE FALSE
  OBVIOUS
<1> HIDE DEF n, f
<1>4. SubSeq(n, 1, f - 1) = s
  BY <1>2 DEF RoundTrip, SplitTool, n, f
<1>5. Len(SubSeq(n, 1, f - 1)) < Len(s)
  <2>1. CASE f = 0
    <3>1. Len(SubSeq(n, 1, f - 1)) = 0
      BY <1>1, <2>1, SubSeqProperties
    <3> QED BY <3>1, <1>1, <1>2 DEF Separators, n
  <2>2. CASE f # 0
    <3>1. f - 1 \in Nat /\ f - 1 < Len(s) /\ f - 1 <= Len(n)
      BY <1>1, <1>2, <2>2
    <3> QED BY <3>1, <1>1
  <2> QED BY <2>1, <2>2
<1>6. Len(s) < Len(s)
  BY <1>4, <1>5, Zenon
<1> QED BY <1>1, <1>6

\* A name that ValidateServerName refuses has a separator, or ends with half of
\* one that PrefixTool completes (namespace.go:28-44).
THEOREM RefusedSplitsEarly ==
  \A s, t \in Text : (s # <<>> /\ ~ValidateServerName(s)) => ~RoundTrip(s, t)
<1> SUFFICES ASSUME NEW s \in Text, NEW t \in Text, s # <<>>, ~ValidateServerName(s)
             PROVE  \E j \in Separators(PrefixTool(s, t)) : j <= Len(s)
  BY SplitTooEarly
<1> DEFINE n == PrefixTool(s, t)
<1>1. /\ Len(s) \in Nat /\ Len(t) \in Nat /\ Len(s) >= 1
      /\ Len(n) = Len(s) + 2 + Len(t)
      /\ \A i \in 1..Len(s) : n[i] = s[i]
      /\ n[Len(s) + 1] = Underscore
  <2>1. Len(s) # 0 /\ Len(s) \in Nat /\ Len(t) \in Nat
    BY EmptySeq DEF Text
  <2>2. /\ Len(n) = Len(s) + 2 + Len(t)
        /\ \A i \in 1..Len(s) : n[i] = s[i]
        /\ n[Len(s) + 1] = Underscore
    BY PrefixedCharacters
  <2> HIDE DEF n
  <2> QED BY <2>1, <2>2
<1> HIDE DEF n
<1>2. CASE s[Len(s)] = Underscore
  <2>1. Len(s) \in Separators(n)
    BY <1>1, <1>2 DEF Separators
  <2> QED BY <2>1, <1>1 DEF n
<1>3. CASE Separators(s) # {}
  <2>1. PICK i \in Separators(s) : TRUE
    BY <1>3
  <2>2. i \in Separators(n) /\ i <= Len(s)
    BY <2>1, <1>1 DEF Separators
  <2> QED BY <2>2 DEF n
<1> QED BY <1>2, <1>3 DEF ValidateServerName

\* No refusal is needless, whatever the length of the names.
THEOREM NamespaceRefusals == Spec => []RefusalsAreNeeded
<1> DEFINE Names == server \in Text /\ tool \in Text
<1>1. Init => Names
  BY DEF Init, Text
<1>2. Names /\ [Next]_vars => Names'
  BY SMTT(30) DEF Next, GrowServer, GrowTool, vars, Text
<1>3. Names => RefusalsAreNeeded
  BY RefusedSplitsEarly DEF RefusalsAreNeeded
<1> QED BY <1>1, <1>2, <1>3, PTL DEF Spec
=============================================================================
