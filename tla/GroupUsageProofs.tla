-------------------------- MODULE GroupUsageProofs --------------------------
(***************************************************************************)
(* The usage of groups, for every name and every set of pods: no two names *)
(* have one label, what is counted for a group is of its own pods that     *)
(* live, and the memory that is reported is no less than what their limits *)
(* say.                                                                    *)
(***************************************************************************)
EXTENDS GroupUsage, PaginationProofs

-----------------------------------------------------------------------------
(* The label of a group.                                                   *)

\* The function that FlattenSeq recurses by is there.
LEMMA FlattenExists ==
    ASSUME NEW seqs, NEW n \in Nat
    PROVE  \E g : g = [i \in 1..n |-> IF i = 1 THEN seqs[i] ELSE g[i - 1] \o seqs[i]]
<1> DEFINE IsFlat(g, k) == g = [i \in 1..k |-> IF i = 1 THEN seqs[i] ELSE g[i - 1] \o seqs[i]]
           P == {k \in Nat : \E g : IsFlat(g, k)}
<1>1. 0 \in P
  <2>1. 1..0 = {}
    OBVIOUS
  <2>2. IsFlat([i \in 1..0 |-> 0], 0)
    BY <2>1
  <2> HIDE DEF IsFlat
  <2> QED
    BY <2>2
<1>2. ASSUME NEW k \in P PROVE k + 1 \in P
  <2>1. PICK g : IsFlat(g, k)
    BY <1>2
  <2> DEFINE h == [i \in 1..(k + 1) |->
                     IF i <= k THEN g[i] ELSE IF i = 1 THEN seqs[i] ELSE g[i - 1] \o seqs[i]]
  <2>2. \A i \in 1..k : g[i] = IF i = 1 THEN seqs[i] ELSE g[i - 1] \o seqs[i]
    BY <2>1
  <2>3. \A i \in 1..(k + 1) : i # 1 => i - 1 \in 1..k
    OBVIOUS
  <2>4. \A i \in 1..k : h[i] = g[i]
    OBVIOUS
  <2>5. \A i \in 1..(k + 1) : h[i] = IF i = 1 THEN seqs[i] ELSE g[i - 1] \o seqs[i]
    BY <2>2
  <2>6. \A i \in 1..(k + 1) : h[i] = IF i = 1 THEN seqs[i] ELSE h[i - 1] \o seqs[i]
    BY <2>3, <2>4, <2>5
  <2>7. h = [i \in 1..(k + 1) |-> h[i]]
    OBVIOUS
  <2> HIDE DEF h
  <2>8. [i \in 1..(k + 1) |-> h[i]]
           = [i \in 1..(k + 1) |-> IF i = 1 THEN seqs[i] ELSE h[i - 1] \o seqs[i]]
    BY <2>6
  <2>9. IsFlat(h, k + 1)
    BY <2>7, <2>8
  <2> HIDE DEF IsFlat
  <2> QED
    BY <2>9
<1>3. P \in SUBSET Nat
  OBVIOUS
<1> HIDE DEF P
<1>4. P = Nat
  BY <1>1, <1>2, <1>3, SetInduction
<1> QED
  BY <1>4 DEF P

\* What FlattenSeq is, step by step.
LEMMA FlattenSteps ==
    ASSUME NEW seqs, NEW n \in Nat \ {0}, Len(seqs) = n
    PROVE  \E g : /\ FlattenSeq(seqs) = g[n]
                  /\ DOMAIN g = 1..n /\ g[1] = seqs[1]
                  /\ \A i \in 2..n : g[i] = g[i - 1] \o seqs[i]
<1> DEFINE IsFlat(g) == g = [i \in 1..n |-> IF i = 1 THEN seqs[i] ELSE g[i - 1] \o seqs[i]]
           flat == CHOOSE g : IsFlat(g)
<1>1. \E g : IsFlat(g)
  BY FlattenExists
<1>2. IsFlat(flat)
  <2> HIDE DEF IsFlat
  <2> QED
    BY <1>1
<1>3. FlattenSeq(seqs) = flat[n]
  BY DEF FlattenSeq
<1> HIDE DEF flat
<1>4. DOMAIN flat = 1..n /\ flat[1] = seqs[1]
  BY <1>2
<1>5. ASSUME NEW i \in 2..n PROVE flat[i] = flat[i - 1] \o seqs[i]
  <2>1. i \in 1..n /\ i # 1
    OBVIOUS
  <2> QED
    BY <1>2, <2>1
<1> QED
  BY <1>3, <1>4, <1>5

-----------------------------------------------------------------------------
(* Labels.                                                                 *)

\* The characters of a label.
LabelCharacter == Safe \cup {Dash}

\* One character becomes one that is safe, or a dash and two that are.
LEMMA EscapedIs ==
    ASSUME NEW c \in Character
    PROVE  /\ Escaped(c) \in Seq(LabelCharacter)
           /\ c \in Safe => Escaped(c) = <<c>>
           /\ c \notin Safe => /\ c \in DOMAIN Hex /\ Hex[c] \in Safe \X Safe
                               /\ Len(Escaped(c)) = 3 /\ Escaped(c)[1] = Dash
                               /\ Escaped(c)[2] = Hex[c][1] /\ Escaped(c)[3] = Hex[c][2]
<1>1. CASE c \in Safe
  BY <1>1 DEF Escaped, LabelCharacter
<1>2. CASE c \notin Safe
  <2>1. c \in DOMAIN Hex /\ Hex[c] \in Safe \X Safe
    BY <1>2, GroupUsageAssumption DEF Character, GroupUsageAssumption
  <2>2. PICK x \in Safe, y \in Safe : Hex[c] = <<x, y>>
    BY <2>1
  <2>3. Escaped(c) = <<Dash>> \o <<x, y>>
    BY <1>2, <2>2 DEF Escaped
  <2>4. <<Dash>> \in Seq(LabelCharacter) /\ <<x, y>> \in Seq(LabelCharacter)
    BY DEF LabelCharacter
  <2>5. Len(<<Dash>>) = 1 /\ Len(<<x, y>>) = 2
    OBVIOUS
  <2> DEFINE s == <<Dash>>
             t == <<x, y>>
  <2>6. s[1] = Dash /\ t[1] = x /\ t[2] = y
    OBVIOUS
  <2> HIDE DEF s, t
  <2>7. s \in Seq(LabelCharacter) /\ t \in Seq(LabelCharacter) /\ Len(s) = 1 /\ Len(t) = 2
    BY <2>4, <2>5 DEF s, t
  <2>8. /\ s \o t \in Seq(LabelCharacter) /\ Len(s \o t) = Len(s) + Len(t)
        /\ \A i \in 1..(Len(s) + Len(t)) : (s \o t)[i] = IF i <= Len(s) THEN s[i] ELSE t[i - Len(s)]
    BY <2>7, ConcatProperties
  <2>9. Escaped(c) = s \o t
    BY <2>3 DEF s, t
  <2>10. Hex[c][1] = x /\ Hex[c][2] = y
    BY <2>2
  <2>11. (s \o t)[1] = Dash /\ (s \o t)[2] = x /\ (s \o t)[3] = y
    BY <2>6, <2>7, <2>8
  <2> QED
    BY <1>2, <2>1, <2>7, <2>8, <2>9, <2>10, <2>11
<1> QED
  BY <1>1, <1>2

\* G[i] is the code of the first i characters of a name.
IsCode(G, name) ==
    /\ \A i \in 0..Len(name) : G[i] \in Seq(LabelCharacter)
    /\ G[0] = <<>>
    /\ \A i \in 1..Len(name) : G[i] = G[i - 1] \o Escaped(name[i])

\* Every name has codes of its beginnings, and its label is the last of them.
LEMMA CodeExists ==
    ASSUME NEW name \in Seq(Character)
    PROVE  \E G : /\ IsCode(G, name)
                  /\ FlattenSeq([i \in DOMAIN name |-> Escaped(name[i])]) = G[Len(name)]
<1> DEFINE n == Len(name)
           seqs == [i \in DOMAIN name |-> Escaped(name[i])]
<1>1. n \in Nat /\ DOMAIN name = 1..n /\ \A i \in 1..n : name[i] \in Character
  BY LenProperties, ElementOfSeq
<1>2. \A i \in 1..n : seqs[i] = Escaped(name[i]) /\ seqs[i] \in Seq(LabelCharacter)
  BY <1>1, EscapedIs
<1>3. seqs \in Seq(Seq(LabelCharacter)) /\ Len(seqs) = n
  <2>1. seqs \in [1..n -> Seq(LabelCharacter)]
    BY <1>1, <1>2
  <2> HIDE DEF seqs, n
  <2> QED
    BY <1>1, <2>1
<1> HIDE DEF n, seqs
<1>4. CASE n = 0
  <2>1. seqs = <<>>
    BY <1>3, <1>4, EmptySeq
  <2>2. FlattenSeq(seqs) = <<>>
    BY <1>3, <1>4, <2>1 DEF FlattenSeq
  <2> DEFINE G == [i \in {0} |-> <<>>]
  <2>3. IsCode(G, name) /\ G[n] = <<>>
    BY <1>4, EmptySeq DEF IsCode, n
  <2> QED
    BY <2>2, <2>3 DEF seqs, n
<1>5. CASE n # 0
  <2>0. n \in Nat \ {0}
    BY <1>1, <1>5
  <2>1. PICK g : /\ FlattenSeq(seqs) = g[n]
                 /\ DOMAIN g = 1..n /\ g[1] = seqs[1]
                 /\ \A i \in 2..n : g[i] = g[i - 1] \o seqs[i]
    BY <1>3, <2>0, FlattenSteps
  <2> DEFINE G == [i \in 0..n |-> IF i = 0 THEN <<>> ELSE g[i]]
  <2>2. G[0] = <<>> /\ \A i \in 1..n : G[i] = g[i]
    BY <1>1
  <2> HIDE DEF G
  <2>3. \A i \in 1..n : G[i] = G[i - 1] \o seqs[i]
    <3>1. G[1] = G[0] \o seqs[1]
      BY <1>1, <1>2, <1>5, <2>1, <2>2, ConcatEmptySeq
    <3>2. ASSUME NEW i \in 2..n PROVE G[i] = G[i - 1] \o seqs[i]
      <4>1. i \in 1..n /\ i - 1 \in 1..n
        BY <1>1
      <4> QED
        BY <2>1, <2>2, <4>1
    <3>3. ASSUME NEW i \in 1..n PROVE G[i] = G[i - 1] \o seqs[i]
      <4>1. CASE i = 1
        <5>1. i - 1 = 0
          BY <4>1
        <5>2. G[i] = G[0] \o seqs[i]
          BY <3>1, <4>1, Zenon
        <5> QED
          BY <5>1, <5>2, Zenon
      <4>2. CASE i # 1
        <5>1. i \in 2..n
          BY <1>1, <4>2
        <5> QED
          BY <3>2, <5>1
      <4> QED
        BY <4>1, <4>2
    <3> QED
      BY <3>3
  <2> DEFINE P == {i \in Nat : i <= n => G[i] \in Seq(LabelCharacter)}
  <2>4. 0 \in P
    BY <2>2, EmptySeq
  <2>5. ASSUME NEW i \in P PROVE i + 1 \in P
    <3>1. CASE i + 1 <= n
      <4>1. i + 1 \in 1..n /\ (i + 1) - 1 = i /\ G[i] \in Seq(LabelCharacter)
        BY <1>1, <2>5, <3>1
      <4>2. G[i + 1] = G[i] \o seqs[i + 1]
        BY <2>3, <4>1
      <4>3. G[i] \in Seq(LabelCharacter) /\ seqs[i + 1] \in Seq(LabelCharacter)
        BY <1>2, <4>1
      <4>4. G[i] \o seqs[i + 1] \in Seq(LabelCharacter)
        BY <4>3, ConcatProperties
      <4> QED
        <5>1. G[i + 1] \in Seq(LabelCharacter)
          BY <4>2, <4>4, Zenon
        <5>2. i + 1 \in Nat
          BY <2>5
        <5> QED
          BY <5>1, <5>2, Zenon
    <3>2. CASE ~(i + 1 <= n)
      BY <3>2
    <3> QED
      BY <3>1, <3>2
  <2>6. P \in SUBSET Nat
    OBVIOUS
  <2>7. P = Nat
    <3> HIDE DEF P
    <3> QED
      BY <2>4, <2>5, <2>6, SetInduction
  <2>8. \A i \in 0..n : G[i] \in Seq(LabelCharacter)
    BY <1>1, <2>7
  <2>9. IsCode(G, name)
    BY <1>2, <2>2, <2>3, <2>8 DEF IsCode, n
  <2>10. FlattenSeq(seqs) = G[n]
    BY <1>1, <1>5, <2>1, <2>2
  <2> QED
    BY <2>9, <2>10 DEF seqs, n
<1> QED
  BY <1>4, <1>5

\* A dash of a code has two characters after it.
LEMMA CodeDash ==
    ASSUME NEW name \in Seq(Character), NEW G, IsCode(G, name),
           NEW i \in 0..Len(name), NEW p \in 1..Len(G[i]), G[i][p] = Dash
    PROVE  p + 2 <= Len(G[i])
<1> DEFINE n == Len(name)
           P == {k \in Nat : k <= n => \A q \in 1..Len(G[k]) : G[k][q] = Dash => q + 2 <= Len(G[k])}
<1>1. n \in Nat /\ \A k \in 1..n : name[k] \in Character
  BY LenProperties, ElementOfSeq
<1>2. 0 \in P
  BY DEF IsCode
<1>3. ASSUME NEW k \in P, k + 1 <= n PROVE k + 1 \in P
  <2> DEFINE s == G[k]
             t == Escaped(name[k + 1])
  <2>1. k \in Nat /\ k \in 0..n /\ k + 1 \in 1..n /\ (k + 1) - 1 = k
    BY <1>1, <1>3
  <2>2. s \in Seq(LabelCharacter) /\ \A q \in 1..Len(s) : s[q] = Dash => q + 2 <= Len(s)
    BY <1>3, <2>1 DEF IsCode
  <2>3. G[k + 1] = s \o t
    BY <2>1 DEF IsCode
  <2>4. /\ t \in Seq(LabelCharacter)
        /\ \/ Len(t) = 1 /\ t[1] # Dash
           \/ Len(t) = 3 /\ t[2] # Dash /\ t[3] # Dash
    <3> DEFINE c == name[k + 1]
    <3>1. c \in Character
      BY <1>1, <2>1
    <3> HIDE DEF c
    <3>2. Dash \notin Safe
      BY GroupUsageAssumption DEF GroupUsageAssumption
    <3>3. CASE c \in Safe
      <4>1. Escaped(c) = <<c>> /\ Escaped(c) \in Seq(LabelCharacter)
        BY <3>1, <3>3, EscapedIs
      <4> QED
        BY <3>2, <3>3, <4>1 DEF c
    <3>4. CASE c \notin Safe
      <4>1. /\ Hex[c] \in Safe \X Safe /\ Escaped(c) \in Seq(LabelCharacter) /\ Len(Escaped(c)) = 3
            /\ Escaped(c)[2] = Hex[c][1] /\ Escaped(c)[3] = Hex[c][2]
        BY <3>1, <3>4, EscapedIs
      <4>2. Hex[c][1] \in Safe /\ Hex[c][2] \in Safe
        BY <4>1
      <4> QED
        BY <3>2, <4>1, <4>2 DEF c
    <3> QED
      BY <3>3, <3>4
  <2> HIDE DEF s, t
  <2>5. Len(s) \in Nat /\ Len(t) \in Nat
    BY <2>2, <2>4, LenProperties
  <2>6. /\ Len(s \o t) = Len(s) + Len(t)
        /\ \A q \in 1..(Len(s) + Len(t)) : (s \o t)[q] = IF q <= Len(s) THEN s[q] ELSE t[q - Len(s)]
    BY <2>2, <2>4, ConcatProperties
  <2>7. ASSUME NEW q \in 1..Len(s \o t), (s \o t)[q] = Dash PROVE q + 2 <= Len(s \o t)
    <3>1. CASE q <= Len(s)
      <4>1. q \in 1..Len(s) /\ s[q] = Dash
        BY <2>5, <2>6, <2>7, <3>1
      <4> QED
        BY <2>2, <2>5, <2>6, <4>1
    <3>2. CASE q > Len(s)
      <4>1. q - Len(s) \in 1..Len(t) /\ t[q - Len(s)] = Dash
        BY <2>5, <2>6, <2>7, <3>2
      <4>2. CASE Len(t) = 1
        BY <2>4, <4>1, <4>2
      <4>3. CASE Len(t) = 3
        <5>1. q - Len(s) = 1
          BY <2>4, <4>1, <4>3
        <5> QED
          BY <2>5, <2>6, <4>3, <5>1
      <4> QED
        BY <2>4, <4>2, <4>3
    <3> QED
      BY <2>5, <2>6, <3>1, <3>2
  <2>8. \A q \in 1..Len(G[k + 1]) : G[k + 1][q] = Dash => q + 2 <= Len(G[k + 1])
    BY <2>3, <2>7, Zenon
  <2>9. k + 1 \in Nat
    BY <2>1
  <2> QED
    BY <2>8, <2>9, Zenon
<1>4. ASSUME NEW k \in P PROVE k + 1 \in P
  <2>1. CASE k + 1 <= n
    BY <1>3, <2>1
  <2>2. CASE ~(k + 1 <= n)
    BY <2>2
  <2> QED
    BY <2>1, <2>2
<1>5. P \in SUBSET Nat
  OBVIOUS
<1>6. P = Nat
  <2> HIDE DEF P
  <2> QED
    BY <1>2, <1>4, <1>5, SetInduction
<1>7. i \in P /\ i <= n
  BY <1>1, <1>6
<1> HIDE DEF n
<1> QED
  BY <1>7

\* The last character of a name, and the code before it, can be told from the code.
LEMMA LastCode ==
    ASSUME NEW c \in Character, NEW d \in Character,
           NEW s \in Seq(LabelCharacter), NEW t \in Seq(LabelCharacter),
           \A p \in 1..Len(s) : s[p] = Dash => p + 2 <= Len(s),
           \A p \in 1..Len(t) : t[p] = Dash => p + 2 <= Len(t),
           s \o Escaped(c) = t \o Escaped(d)
    PROVE  s = t /\ c = d
<1> DEFINE e == Escaped(c)
           f == Escaped(d)
           LC == LabelCharacter
<1>1. e \in Seq(LC) /\ f \in Seq(LC)
  BY EscapedIs
<1>2. /\ c \in Safe => e = <<c>>
      /\ d \in Safe => f = <<d>>
  BY EscapedIs
<1>3. /\ c \notin Safe => /\ c \in DOMAIN Hex /\ Hex[c] \in Safe \X Safe
                          /\ Len(e) = 3 /\ e[1] = Dash /\ e[2] = Hex[c][1] /\ e[3] = Hex[c][2]
      /\ d \notin Safe => /\ d \in DOMAIN Hex /\ Hex[d] \in Safe \X Safe
                          /\ Len(f) = 3 /\ f[1] = Dash /\ f[2] = Hex[d][1] /\ f[3] = Hex[d][2]
  BY EscapedIs
<1>4. /\ c \in Safe => Len(e) = 1 /\ e[1] = c
      /\ d \in Safe => Len(f) = 1 /\ f[1] = d
  BY <1>2
<1>5. s \o e = t \o f
  OBVIOUS
<1>6. s \in Seq(LC) /\ t \in Seq(LC)
  OBVIOUS
<1> HIDE DEF e, f, LC
<1>7. Len(s) \in Nat /\ Len(t) \in Nat /\ Len(e) \in Nat /\ Len(f) \in Nat
  BY <1>1, <1>6, LenProperties
<1>8. /\ Len(s \o e) = Len(s) + Len(e)
      /\ \A i \in 1..(Len(s) + Len(e)) : (s \o e)[i] = IF i <= Len(s) THEN s[i] ELSE e[i - Len(s)]
  BY <1>1, <1>6, ConcatProperties
<1>9. /\ Len(t \o f) = Len(t) + Len(f)
      /\ \A i \in 1..(Len(t) + Len(f)) : (t \o f)[i] = IF i <= Len(t) THEN t[i] ELSE f[i - Len(t)]
  BY <1>1, <1>6, ConcatProperties
<1> DEFINE w == s \o e
<1>10. /\ Len(w) = Len(s) + Len(e) /\ Len(w) = Len(t) + Len(f)
       /\ \A i \in 1..Len(s) : w[i] = s[i]
       /\ \A i \in 1..Len(t) : w[i] = t[i]
       /\ \A i \in 1..Len(e) : w[Len(s) + i] = e[i]
       /\ \A i \in 1..Len(f) : w[Len(t) + i] = f[i]
  <2>1. Len(w) = Len(s) + Len(e) /\ Len(w) = Len(t) + Len(f)
    BY <1>5, <1>8, <1>9
  <2>2. ASSUME NEW i \in 1..Len(s) PROVE w[i] = s[i]
    BY <1>7, <1>8
  <2>3. ASSUME NEW i \in 1..Len(t) PROVE w[i] = t[i]
    BY <1>5, <1>7, <1>9
  <2>4. ASSUME NEW i \in 1..Len(e) PROVE w[Len(s) + i] = e[i]
    <3>1. /\ Len(s) + i \in 1..(Len(s) + Len(e)) /\ ~(Len(s) + i <= Len(s))
          /\ (Len(s) + i) - Len(s) = i
      BY <1>7
    <3> QED
      BY <1>8, <3>1
  <2>5. ASSUME NEW i \in 1..Len(f) PROVE w[Len(t) + i] = f[i]
    <3>1. /\ Len(t) + i \in 1..(Len(t) + Len(f)) /\ ~(Len(t) + i <= Len(t))
          /\ (Len(t) + i) - Len(t) = i
      BY <1>7
    <3> QED
      BY <1>5, <1>9, <3>1
  <2> QED
    BY <2>1, <2>2, <2>3, <2>4, <2>5
<1> HIDE DEF w
\* One cannot end in a safe character and the other in an escape.
<1>11. ASSUME c \in Safe, d \notin Safe PROVE FALSE
  <2>1. Len(e) = 1 /\ Len(f) = 3 /\ f[1] = Dash
    BY <1>3, <1>4, <1>11
  <2>2. Len(s) = Len(t) + 2 /\ w[Len(t) + 1] = Dash
    BY <1>7, <1>10, <2>1
  <2>3. Len(t) + 1 \in 1..Len(s) /\ s[Len(t) + 1] = Dash
    BY <1>7, <1>10, <2>2
  <2> QED
    BY <1>7, <2>2, <2>3
<1>12. ASSUME c \notin Safe, d \in Safe PROVE FALSE
  <2>1. Len(f) = 1 /\ Len(e) = 3 /\ e[1] = Dash
    BY <1>3, <1>4, <1>12
  <2>2. Len(t) = Len(s) + 2 /\ w[Len(s) + 1] = Dash
    BY <1>7, <1>10, <2>1
  <2>3. Len(s) + 1 \in 1..Len(t) /\ t[Len(s) + 1] = Dash
    BY <1>7, <1>10, <2>2
  <2> QED
    BY <1>7, <2>2, <2>3
<1>13. c = d
  <2>1. CASE c \in Safe /\ d \in Safe
    <3>1. Len(e) = 1 /\ Len(f) = 1 /\ e[1] = c /\ f[1] = d
      BY <1>4, <2>1
    <3>2. Len(s) = Len(t)
      BY <1>7, <1>10, <3>1
    <3>3. w[Len(s) + 1] = e[1] /\ w[Len(t) + 1] = f[1]
      BY <1>10, <3>1
    <3> QED
      BY <3>1, <3>2, <3>3
  <2>2. CASE c \notin Safe /\ d \notin Safe
    <3>1. Len(e) = 3 /\ Len(f) = 3
      BY <1>3, <2>2
    <3>2. Len(s) = Len(t)
      BY <1>7, <1>10, <3>1
    <3>3. 2 \in 1..Len(e) /\ 3 \in 1..Len(e) /\ 2 \in 1..Len(f) /\ 3 \in 1..Len(f)
      BY <3>1
    <3>4. e[2] = f[2] /\ e[3] = f[3]
      BY <1>10, <3>2, <3>3
    <3>5. Hex[c][1] = Hex[d][1] /\ Hex[c][2] = Hex[d][2]
      BY <1>3, <2>2, <3>4
    <3>6. Hex[c] = Hex[d]
      BY <1>3, <2>2, <3>5
    <3> QED
      BY <1>3, <2>2, <3>6, GroupUsageAssumption DEF GroupUsageAssumption
  <2> QED
    BY <1>11, <1>12, <2>1, <2>2
<1>14. s = t
  <2>1. e = f
    BY <1>13 DEF e, f
  <2>2. s \o e = t \o e
    BY <1>5, <2>1
  <2> QED
    BY <1>1, <1>6, <2>2, ConcatSimplifications
<1> QED
  BY <1>13, <1>14

\* Two names with one code, as far as it goes, are one.
LEMMA CodesTell ==
    ASSUME NEW a \in Seq(Character), NEW b \in Seq(Character),
           NEW G, IsCode(G, a), NEW H, IsCode(H, b), G[Len(a)] = H[Len(b)]
    PROVE  a = b
<1> DEFINE m == Len(a)
           n == Len(b)
           Same(k) == \A j \in 0..n : G[k] = H[j] => k = j /\ \A i \in 1..k : a[i] = b[i]
           P == {k \in Nat : k <= m => Same(k)}
<1>1. /\ m \in Nat /\ \A i \in 1..m : a[i] \in Character
      /\ n \in Nat /\ \A i \in 1..n : b[i] \in Character
  BY LenProperties, ElementOfSeq
<1>2. /\ \A i \in 0..m : G[i] \in Seq(LabelCharacter)
      /\ \A i \in 1..m : G[i] = G[i - 1] \o Escaped(a[i])
      /\ \A i \in 0..n : H[i] \in Seq(LabelCharacter)
      /\ \A i \in 1..n : H[i] = H[i - 1] \o Escaped(b[i])
      /\ G[0] = <<>> /\ H[0] = <<>>
  BY DEF IsCode
<1>3. ASSUME NEW s \in Seq(LabelCharacter), NEW c \in Character PROVE s \o Escaped(c) # <<>>
  <2>1. Escaped(c) \in Seq(LabelCharacter) /\ Escaped(c) # <<>>
    <3>1. CASE c \in Safe
      <4>1. Escaped(c) = <<c>> /\ Escaped(c) \in Seq(LabelCharacter)
        BY <3>1, EscapedIs
      <4>2. <<c>> # <<>>
        OBVIOUS
      <4> QED
        BY <4>1, <4>2
    <3>2. CASE c \notin Safe
      BY <3>2, EscapedIs, EmptySeq
    <3> QED
      BY <3>1, <3>2
  <2> QED
    BY <2>1, ConcatEqualIffEmpty
<1>4. \A i \in 0..m : \A p \in 1..Len(G[i]) : G[i][p] = Dash => p + 2 <= Len(G[i])
  BY CodeDash
<1>5. \A i \in 0..n : \A p \in 1..Len(H[i]) : H[i][p] = Dash => p + 2 <= Len(H[i])
  BY CodeDash
<1> HIDE DEF m, n
<1>6. Same(0)
  <2> SUFFICES ASSUME NEW j \in 0..n, G[0] = H[j] PROVE j = 0
    OBVIOUS
  <2>1. CASE j \in 1..n
    <3>1. j - 1 \in 0..n
      BY <1>1, <2>1
    <3>2. H[j - 1] \in Seq(LabelCharacter) /\ b[j] \in Character /\ H[j] = H[j - 1] \o Escaped(b[j])
      BY <1>1, <1>2, <2>1, <3>1
    <3> QED
      BY <1>2, <1>3, <3>2
  <2> QED
    BY <1>1, <2>1
<1>7. ASSUME NEW k \in Nat, Same(k), k + 1 <= m PROVE Same(k + 1)
  <2> SUFFICES ASSUME NEW j \in 0..n, G[k + 1] = H[j]
               PROVE  k + 1 = j /\ \A i \in 1..(k + 1) : a[i] = b[i]
    OBVIOUS
  <2>1. k \in 0..m /\ k + 1 \in 1..m /\ (k + 1) - 1 = k
    BY <1>1, <1>7
  <2>2. /\ G[k] \in Seq(LabelCharacter) /\ a[k + 1] \in Character
        /\ G[k + 1] = G[k] \o Escaped(a[k + 1])
    BY <1>1, <1>2, <2>1
  <2>3. j # 0
    BY <1>2, <1>3, <2>2
  <2>4. j \in 1..n /\ j - 1 \in 0..n
    BY <1>1, <2>3
  <2>5. H[j - 1] \in Seq(LabelCharacter) /\ b[j] \in Character /\ H[j] = H[j - 1] \o Escaped(b[j])
    BY <1>1, <1>2, <2>4
  <2> DEFINE s == G[k]
             t == H[j - 1]
             c == a[k + 1]
             d == b[j]
  <2>6. /\ \A p \in 1..Len(s) : s[p] = Dash => p + 2 <= Len(s)
        /\ \A p \in 1..Len(t) : t[p] = Dash => p + 2 <= Len(t)
    BY <1>4, <1>5, <2>1, <2>4
  <2>7. /\ s \in Seq(LabelCharacter) /\ t \in Seq(LabelCharacter)
        /\ c \in Character /\ d \in Character /\ s \o Escaped(c) = t \o Escaped(d)
    BY <2>2, <2>5
  <2> HIDE DEF s, t, c, d
  <2>8. s = t /\ c = d
    BY <2>6, <2>7, LastCode
  <2>9. k = j - 1 /\ \A i \in 1..k : a[i] = b[i]
    BY <1>7, <2>4, <2>8 DEF s, t
  <2>10. k + 1 = j /\ a[k + 1] = b[k + 1]
    BY <2>4, <2>8, <2>9 DEF c, d
  <2> QED
    BY <2>9, <2>10
<1>8. 0 \in P
  BY <1>6
<1>9. ASSUME NEW k \in P PROVE k + 1 \in P
  <2> HIDE DEF Same
  <2>1. CASE k + 1 <= m
    <3>1. k \in Nat /\ k <= m
      BY <1>1, <1>9, <2>1
    <3> QED
      BY <1>7, <1>9, <2>1, <3>1
  <2>2. CASE ~(k + 1 <= m)
    BY <1>9, <2>2
  <2> QED
    BY <2>1, <2>2
<1>10. P \in SUBSET Nat
  OBVIOUS
<1>11. P = Nat
  <2> HIDE DEF P
  <2> QED
    BY <1>8, <1>9, <1>10, SetInduction
<1>12. Same(m)
  <2> HIDE DEF Same
  <2> QED
    BY <1>1, <1>11
<1>13. n \in 0..n /\ G[m] = H[n]
  BY <1>1 DEF m, n
<1>14. m = n /\ \A i \in 1..m : a[i] = b[i]
  BY <1>12, <1>13
<1> QED
  BY <1>14, SeqEqual DEF m, n

\* No two names have one label.
THEOREM LabelInjective ==
    ASSUME NEW a \in Seq(Character), NEW b \in Seq(Character), Label(a) = Label(b)
    PROVE  a = b
<1> DEFINE A == FlattenSeq([i \in DOMAIN a |-> Escaped(a[i])])
           B == FlattenSeq([i \in DOMAIN b |-> Escaped(b[i])])
           S == LabelCharacter \cup {"escaped-"}
           e == <<"escaped-">>
<1>1. PICK G : IsCode(G, a) /\ A = G[Len(a)]
  BY CodeExists
<1>2. PICK H : IsCode(H, b) /\ B = H[Len(b)]
  BY CodeExists
<1>3. A \in Seq(LabelCharacter) /\ B \in Seq(LabelCharacter)
  <2>1. Len(a) \in 0..Len(a) /\ Len(b) \in 0..Len(b)
    BY LenProperties
  <2> QED
    BY <1>1, <1>2, <2>1 DEF IsCode
<1>4. e \o A = e \o B
  BY DEF Label
<1>5. e \in Seq(S)
  OBVIOUS
<1> HIDE DEF A, B, e
<1>6. A \in Seq(S) /\ B \in Seq(S)
  BY <1>3, SeqMonotonic
<1> HIDE DEF S
<1>7. A = B
  BY <1>4, <1>5, <1>6, ConcatSimplifications
<1> QED
  BY <1>1, <1>2, <1>7, CodesTell

-----------------------------------------------------------------------------
(* Sums.                                                                   *)

\* One of a set.
Pick(s) == CHOOSE x \in s : TRUE

\* The function that a sum recurses by.
IsSum(g, f, D) ==
    g = [s \in SUBSET D |-> IF s = {} THEN 0 ELSE f[Pick(s)] + g[s \ {Pick(s)}]]

\* There is one.
LEMMA SumExists ==
    ASSUME NEW D, IsFiniteSet(D), NEW f
    PROVE  \E g : IsSum(g, f, D)
<1> DEFINE Small(n) == {s \in SUBSET D : Cardinality(s) <= n}
           IsPart(g, n) == g = [s \in Small(n) |->
                                  IF s = {} THEN 0 ELSE f[Pick(s)] + g[s \ {Pick(s)}]]
           P == {n \in Nat : \E g : IsPart(g, n)}
<1>1. ASSUME NEW s \in SUBSET D
      PROVE  /\ IsFiniteSet(s) /\ Cardinality(s) \in Nat /\ Cardinality(s) <= Cardinality(D)
             /\ Cardinality(s) = 0 <=> s = {}
             /\ s # {} => /\ Pick(s) \in s /\ s \ {Pick(s)} \in SUBSET D
                          /\ Cardinality(s \ {Pick(s)}) = Cardinality(s) - 1
  <2>1. IsFiniteSet(s) /\ Cardinality(s) <= Cardinality(D)
    BY FS_Subset
  <2>2. Cardinality(s) \in Nat /\ (Cardinality(s) = 0 <=> s = {})
    BY <2>1, FS_CardinalityType, FS_EmptySet
  <2>3. s # {} => Pick(s) \in s
    BY DEF Pick
  <2>4. s # {} => Cardinality(s \ {Pick(s)}) = Cardinality(s) - 1
    BY <2>1, <2>3, FS_RemoveElement
  <2> QED
    BY <2>1, <2>2, <2>3, <2>4
<1>2. 0 \in P
  <2> DEFINE h == [s \in Small(0) |-> 0]
  <2>1. ASSUME NEW s \in Small(0) PROVE s = {}
    <3>1. s \in SUBSET D /\ Cardinality(s) <= 0
      OBVIOUS
    <3> HIDE DEF Small
    <3>2. Cardinality(s) \in Nat /\ (Cardinality(s) = 0 <=> s = {})
      BY <1>1, <3>1
    <3> QED
      BY <3>1, <3>2
  <2>2. IsPart(h, 0)
    BY <2>1
  <2> HIDE DEF IsPart, h
  <2> QED
    BY <2>2
<1>3. ASSUME NEW n \in P PROVE n + 1 \in P
  <2>1. PICK g : IsPart(g, n)
    BY <1>3
  <2> DEFINE h == [s \in Small(n + 1) |->
                     IF s = {} THEN 0 ELSE f[Pick(s)] + g[s \ {Pick(s)}]]
  <2>2. \A s \in Small(n) : g[s] = IF s = {} THEN 0 ELSE f[Pick(s)] + g[s \ {Pick(s)}]
    BY <2>1
  <2>3. n \in Nat /\ \A s \in Small(n) : s \in Small(n + 1)
    <3>1. n \in Nat
      BY <1>3
    <3>2. \A s \in Small(n) : Cardinality(s) \in Nat
      BY <1>1
    <3> QED
      BY <3>1, <3>2
  <2>4. \A s \in Small(n) : h[s] = g[s]
    BY <2>2, <2>3
  <2>5. \A s \in Small(n + 1) : s # {} => s \ {Pick(s)} \in Small(n)
    BY <1>1, <2>3
  <2>6. \A s \in Small(n + 1) : h[s] = IF s = {} THEN 0 ELSE f[Pick(s)] + g[s \ {Pick(s)}]
    OBVIOUS
  <2>7. h = [s \in Small(n + 1) |-> h[s]]
    OBVIOUS
  <2> HIDE DEF h, Small
  <2>8. \A s \in Small(n + 1) : h[s] = IF s = {} THEN 0 ELSE f[Pick(s)] + h[s \ {Pick(s)}]
    BY <2>4, <2>5, <2>6
  <2>9. IsPart(h, n + 1)
    BY <2>7, <2>8
  <2> HIDE DEF IsPart
  <2> QED
    BY <2>3, <2>9
<1>4. P \in SUBSET Nat
  OBVIOUS
<1>5. P = Nat
  <2> HIDE DEF P
  <2> QED
    BY <1>2, <1>3, <1>4, SetInduction
<1>6. Cardinality(D) \in Nat
  BY FS_CardinalityType
<1>7. PICK g : IsPart(g, Cardinality(D))
  BY <1>5, <1>6
<1>8. Small(Cardinality(D)) = SUBSET D
  BY <1>1
<1> HIDE DEF Small
<1> QED
  BY <1>7, <1>8 DEF IsSum

\* A sum, step by step: of nothing it is zero, and else an amount and the sum of
\* the rest.
StepByStep(g, f, D) ==
    /\ SumFunction(f) = g[D] /\ g[{}] = 0
    /\ \A s \in SUBSET D : s # {} => g[s] = f[Pick(s)] + g[s \ {Pick(s)}]

LEMMA SumSteps ==
    ASSUME NEW D, IsFiniteSet(D), NEW f \in [D -> Nat]
    PROVE  \E g : StepByStep(g, f, D)
<1> DEFINE sum == CHOOSE g : IsSum(g, f, D)
<1>1. IsSum(sum, f, D)
  BY SumExists
<1>2. SumFunction(f) = SumFunctionOnSet(f, D)
  BY DEF SumFunction
<1>3. SumFunctionOnSet(f, D) = sum[D]
  BY Zenon DEF SumFunctionOnSet, FoldFunctionOnSet, MapThenFoldSet, IsSum, Pick
<1> HIDE DEF sum
<1>4. \A s \in SUBSET D : sum[s] = IF s = {} THEN 0 ELSE f[Pick(s)] + sum[s \ {Pick(s)}]
  BY <1>1 DEF IsSum
<1>5. StepByStep(sum, f, D)
  BY <1>2, <1>3, <1>4 DEF StepByStep
<1> QED
  BY <1>5

\* Of amounts that are no less the sum is no less.
LEMMA SumMonotone ==
    ASSUME NEW D, IsFiniteSet(D), NEW f \in [D -> Nat], NEW h \in [D -> Nat],
           \A x \in D : f[x] <= h[x]
    PROVE  /\ SumFunction(f) \in Nat /\ SumFunction(h) \in Nat
           /\ SumFunction(f) <= SumFunction(h)
<1>a. PICK F : StepByStep(F, f, D)
  BY SumSteps
<1>b. PICK H : StepByStep(H, h, D)
  BY SumSteps
<1>1. /\ SumFunction(f) = F[D] /\ F[{}] = 0
      /\ \A s \in SUBSET D : s # {} => F[s] = f[Pick(s)] + F[s \ {Pick(s)}]
  BY <1>a DEF StepByStep
<1>2. /\ SumFunction(h) = H[D] /\ H[{}] = 0
      /\ \A s \in SUBSET D : s # {} => H[s] = h[Pick(s)] + H[s \ {Pick(s)}]
  BY <1>b DEF StepByStep
<1> DEFINE Fine(s) == F[s] \in Nat /\ H[s] \in Nat /\ F[s] <= H[s]
           P == {n \in Nat : \A s \in SUBSET D : Cardinality(s) = n => Fine(s)}
<1>3. \A s \in SUBSET D : IsFiniteSet(s)
  BY FS_Subset
<1>4. 0 \in P
  <2>1. \A s \in SUBSET D : Cardinality(s) = 0 => s = {}
    BY <1>3, FS_EmptySet
  <2>2. Fine({})
    BY <1>1, <1>2
  <2> HIDE DEF Fine
  <2> QED
    BY <2>1, <2>2
<1>5. ASSUME NEW n \in P PROVE n + 1 \in P
  <2>1. ASSUME NEW s \in SUBSET D, Cardinality(s) = n + 1 PROVE Fine(s)
    <3>1. n \in Nat /\ Cardinality(s) # 0
      BY <1>5, <2>1
    <3>2. s # {}
      BY <3>1, FS_EmptySet
    <3> DEFINE x == Pick(s)
               r == s \ {x}
    <3>3. x \in s
      BY <3>2 DEF Pick
    <3>4. r \in SUBSET D /\ x \in D
      BY <3>3
    <3>5. Cardinality(r) = n
      <4>1. IsFiniteSet(s)
        BY <1>3
      <4>2. Cardinality(r) = Cardinality(s) - 1
        <5> HIDE DEF x
        <5> QED
          BY <3>3, <4>1, FS_RemoveElement
      <4> QED
        BY <2>1, <3>1, <4>2
    <3>6. F[s] = f[x] + F[r] /\ H[s] = h[x] + H[r]
      BY <1>1, <1>2, <3>2
    <3> HIDE DEF r, x
    <3>7. F[r] \in Nat /\ H[r] \in Nat /\ F[r] <= H[r]
      BY <1>5, <3>4, <3>5
    <3>8. f[x] \in Nat /\ h[x] \in Nat /\ f[x] <= h[x]
      BY <3>4
    <3> QED
      BY <3>6, <3>7, <3>8
  <2> HIDE DEF Fine
  <2> QED
    BY <2>1, <1>5
<1>6. P \in SUBSET Nat
  OBVIOUS
<1>7. P = Nat
  <2> HIDE DEF P
  <2> QED
    BY <1>4, <1>5, <1>6, SetInduction
<1>8. Fine(D)
  <2> HIDE DEF Fine
  <2>1. Cardinality(D) \in Nat
    BY FS_CardinalityType
  <2> QED
    BY <1>7, <2>1
<1> QED
  BY <1>1, <1>2, <1>8

-----------------------------------------------------------------------------
(* The usage.                                                              *)

\* What the reflector has.
UsageInv ==
    /\ IsFiniteSet(pods)
    /\ pods \subseteq [id : PodId, group : Name, phase : Phases,
                       containers : Container \X Container]

\* Every step keeps it.
LEMMA UsageInvStep ==
    ASSUME UsageInv, [UsageNext]_pods
    PROVE  UsageInv'
<1> DEFINE Pod == [id : PodId, group : Name, phase : Phases, containers : Container \X Container]
<1>1. IsFiniteSet(pods) /\ pods \subseteq Pod
  BY DEF UsageInv
<1>2. ASSUME NEW id \in PodId, NEW group \in Name, NEW containers \in Container \X Container,
             Added(id, group, containers)
      PROVE  UsageInv'
  <2> DEFINE p == [id |-> id, group |-> group, phase |-> "Pending", containers |-> containers]
  <2>1. pods' = pods \cup {p} /\ p \in Pod
    BY <1>2 DEF Added, Phases
  <2> HIDE DEF p
  <2>2. IsFiniteSet(pods \cup {p})
    BY <1>1, FS_AddElement
  <2> QED
    BY <1>1, <2>1, <2>2 DEF UsageInv
<1>3. ASSUME NEW p \in pods, Deleted(p)
      PROVE  UsageInv'
  <2>1. pods' = pods \ {p}
    BY <1>3 DEF Deleted
  <2>2. IsFiniteSet(pods \ {p})
    BY <1>1, FS_RemoveElement
  <2> QED
    BY <1>1, <2>1, <2>2 DEF UsageInv
<1>4. ASSUME NEW p \in pods, NEW phase \in Phases, Moved(p, phase)
      PROVE  UsageInv'
  <2> DEFINE q == [p EXCEPT !.phase = phase]
  <2>1. pods' = (pods \ {p}) \cup {q} /\ q \in Pod
    BY <1>1, <1>4 DEF Moved
  <2> HIDE DEF q
  <2>2. IsFiniteSet((pods \ {p}) \cup {q})
    <3>1. IsFiniteSet(pods \ {p})
      BY <1>1, FS_RemoveElement
    <3> QED
      BY <3>1, FS_AddElement
  <2> QED
    BY <1>1, <2>1, <2>2 DEF UsageInv
<1>5. CASE UNCHANGED pods
  BY <1>5 DEF UsageInv
<1> QED
  BY <1>2, <1>3, <1>4, <1>5 DEF UsageNext

\* The invariant of the reflector.
THEOREM UsageInvariant == UsageSpec => []UsageInv
<1>1. UsageInit => UsageInv
  BY FS_EmptySet DEF UsageInit, UsageInv
<1>2. UsageInv /\ [UsageNext]_pods => UsageInv'
  BY UsageInvStep
<1> QED
  BY <1>1, <1>2, PTL DEF UsageSpec

\* The pods that are counted for a group are its own that live.
LEMMA ExistingAreOwn ==
    ASSUME UsageInv, NEW g \in Name
    PROVE  Existing(g) = {p \in pods : p.group = g /\ p.phase # "Succeeded"}
<1>1. ASSUME NEW p \in pods
      PROVE  /\ Label(p.group) = Label(g) <=> p.group = g
             /\ p.phase \in {"Pending", "Running"} <=> p.phase # "Succeeded"
  <2>1. p.group \in Name /\ p.phase \in Phases
    BY DEF UsageInv
  <2>2. p.group \in Seq(Character) /\ g \in Seq(Character)
    BY <2>1, GroupUsageAssumption DEF GroupUsageAssumption
  <2>3. Label(p.group) = Label(g) => p.group = g
    BY <2>2, LabelInjective
  <2> QED
    BY <2>1, <2>3 DEF Phases
<1> QED
  BY <1>1 DEF Existing

\* The usage of a group is that of its own pods, of each container once.
LEMMA InvGivesOwn == UsageInv => UsageOfOwnPods
<1> SUFFICES ASSUME UsageInv, NEW g \in Name
             PROVE  LET own == {p \in pods : p.group = g /\ p.phase # "Succeeded"}
                    IN  IF Usage(g) = <<>>
                        THEN \E slot \in Limited(own) : ~Readable(At(slot))
                        ELSE /\ Usage(g)[1].cpu = Total(own, Millis)
                             /\ Usage(g)[1].gpu = Total(own, Gpus)
                             /\ Usage(g)[1].memory = Tenths(Total(own, Bytes))
  BY Zenon DEF UsageOfOwnPods
<1> DEFINE own == {p \in pods : p.group = g /\ p.phase # "Succeeded"}
           all == <<[cpu |-> Total(own, Millis), gpu |-> Total(own, Gpus),
                     memory |-> Tenths(Total(own, Bytes))]>>
<1>1. Existing(g) = own
  BY ExistingAreOwn
<1> HIDE DEF own
<1>2. Usage(g) = IF \E slot \in Limited(own) : ~Readable(At(slot)) THEN <<>> ELSE all
  BY <1>1, Zenon DEF Usage
<1>3. /\ all[1].cpu = Total(own, Millis) /\ all[1].gpu = Total(own, Gpus)
      /\ all[1].memory = Tenths(Total(own, Bytes)) /\ all # <<>>
  BY DEF Total
<1> HIDE DEF all
<1>4. IF Usage(g) = <<>> THEN \E slot \in Limited(own) : ~Readable(At(slot))
      ELSE /\ Usage(g)[1].cpu = Total(own, Millis)
           /\ Usage(g)[1].gpu = Total(own, Gpus)
           /\ Usage(g)[1].memory = Tenths(Total(own, Bytes))
  BY <1>2, <1>3, Zenon
<1> QED
  BY <1>4, Zenon DEF own

-----------------------------------------------------------------------------
(* Memory.                                                                 *)

\* A readable quantity is taken for no less than it is.
LEMMA UnitNeverLess ==
    ASSUME NEW u, MemUnit(u) # <<>>
    PROVE  MemUnit(u)[1] \in Nat /\ TrueUnit(u) \in Nat /\ TrueUnit(u) <= MemUnit(u)[1]
<1> DEFINE b2 == Binary * Binary
           b3 == b2 * Binary
           d2 == Decimal * Decimal
           d3 == d2 * Decimal
<1>1. Binary \in Nat /\ Decimal \in Nat /\ 0 < Decimal /\ Decimal <= Binary
  BY GroupUsageAssumption DEF GroupUsageAssumption
<1>2. b2 \in Nat /\ d2 \in Nat /\ d2 <= b2
  <2>1. Decimal * Decimal <= Decimal * Binary
    BY <1>1, Times
  <2>2. Binary * Decimal <= Binary * Binary
    BY <1>1, Times
  <2>3. Decimal * Binary = Binary * Decimal
    BY <1>1
  <2>4. Decimal * Decimal \in Nat /\ Binary * Decimal \in Nat /\ Binary * Binary \in Nat
    BY <1>1
  <2> QED
    BY <2>1, <2>2, <2>3, <2>4
<1> HIDE DEF b2, d2
<1>3. b3 \in Nat /\ d3 \in Nat /\ d3 <= b3
  <2>1. d2 * Decimal <= d2 * Binary
    BY <1>1, <1>2, Times
  <2>2. Binary * d2 <= Binary * b2
    BY <1>1, <1>2, Times
  <2>3. d2 * Binary = Binary * d2 /\ b2 * Binary = Binary * b2
    BY <1>1, <1>2
  <2>4. d2 * Decimal \in Nat /\ Binary * d2 \in Nat /\ b2 * Binary \in Nat
    BY <1>1, <1>2
  <2> QED
    BY <2>1, <2>2, <2>3, <2>4
<1> HIDE DEF b3, d3
<1>4. u \in {"Gi", "G"} => /\ MemUnit(u)[1] = b3
                            /\ TrueUnit(u) = IF u = "Gi" THEN b3 ELSE d3
  BY DEF MemUnit, TrueUnit, b2, b3, d2, d3
<1>5. u \in {"Mi", "M"} => /\ MemUnit(u)[1] = b2
                            /\ TrueUnit(u) = IF u = "Mi" THEN b2 ELSE d2
  BY DEF MemUnit, TrueUnit, b2, d2
<1>6. u \in {"Ki", "K", "k"} => /\ MemUnit(u)[1] = Binary
                                 /\ \/ TrueUnit(u) = Binary
                                    \/ TrueUnit(u) = Decimal
                                    \/ TrueUnit(u) = 1
  BY DEF MemUnit, TrueUnit
<1>7. u = "" => MemUnit(u)[1] = 1 /\ TrueUnit(u) = 1
  BY DEF MemUnit, TrueUnit
<1>8. u \in {"Gi", "G", "Mi", "M", "Ki", "K", "k", ""}
  BY DEF MemUnit
<1>9. CASE u \in {"Gi", "G"}
  BY <1>3, <1>4, <1>9
<1>10. CASE u \in {"Mi", "M"}
  BY <1>2, <1>5, <1>10
<1>11. CASE u \in {"Ki", "K", "k"}
  BY <1>1, <1>6, <1>11
<1>12. CASE u = ""
  <2>1. MemUnit(u)[1] = 1 /\ TrueUnit(u) = 1
    BY <1>7, <1>12, Zenon
  <2> QED
    BY <2>1
<1> QED
  BY <1>8, <1>9, <1>10, <1>11, <1>12

\* Rounded, more is not less.
LEMMA TenthsMonotone ==
    ASSUME NEW a \in Nat, NEW b \in Nat, a <= b
    PROVE  Tenths(a) <= Tenths(b)
<1> DEFINE gib == Binary * Binary * Binary
           x == 20 * a + gib
           y == 20 * b + gib
           d == 2 * gib
<1>1. gib \in Nat \ {0}
  <2>1. Binary \in Nat /\ Binary > 0
    BY GroupUsageAssumption DEF GroupUsageAssumption
  <2>2. Binary * Binary \in Nat /\ Binary * Binary > 0
    BY <2>1
  <2> DEFINE b2 == Binary * Binary
  <2>3. b2 \in Nat /\ b2 > 0
    BY <2>2
  <2> HIDE DEF b2
  <2>4. b2 * Binary \in Nat /\ b2 * Binary > 0
    BY <2>1, <2>3
  <2> QED
    BY <2>4 DEF b2
<1>2. Tenths(a) = x \div d /\ Tenths(b) = y \div d
  BY Zenon DEF Tenths
<1> HIDE DEF gib
<1>3. x \in Nat /\ y \in Nat /\ d \in Nat \ {0} /\ x <= y
  BY <1>1
<1> HIDE DEF x, y, d
<1> DEFINE p == x \div d
           q == y \div d
<1>4. /\ p \in Nat /\ d * p <= x
      /\ q \in Nat /\ y < d * (q + 1)
  BY <1>3, Division
<1> HIDE DEF p, q
<1>5. ASSUME q < p PROVE FALSE
  <2>1. d * (q + 1) <= d * p
    BY <1>3, <1>4, <1>5, Times
  <2>2. d * (q + 1) \in Int /\ d * p \in Int
    BY <1>3, <1>4
  <2> QED
    BY <1>3, <1>4, <2>1, <2>2
<1> QED
  BY <1>2, <1>4, <1>5 DEF p, q

\* The places of containers with limits are finitely many.
LEMMA LimitedAre ==
    ASSUME UsageInv, NEW some \in SUBSET pods
    PROVE  /\ IsFiniteSet(Limited(some))
           /\ \A slot \in Limited(some) : At(slot).memory.number \in Nat
<1>1. IsFiniteSet(some)
  BY FS_Subset DEF UsageInv
<1>2. ASSUME NEW p \in some
      PROVE  DOMAIN p.containers = 1..2 /\ \A i \in 1..2 : p.containers[i] \in Container
  <2>1. p.containers \in Container \X Container
    BY DEF UsageInv
  <2> QED
    BY <2>1
<1>3. Limited(some) \in SUBSET (some \X (1..2))
  BY <1>2 DEF Limited
<1>4. IsFiniteSet(some \X (1..2))
  <2>1. IsFiniteSet(1..2)
    <3>1. \A n \in Nat : IsFiniteSet(1..n)
      BY FS_Interval
    <3> QED
      BY <3>1
  <2> QED
    BY <1>1, <2>1, FS_Product
<1>5. IsFiniteSet(Limited(some))
  BY <1>3, <1>4, FS_Subset
<1>6. ASSUME NEW slot \in Limited(some) PROVE At(slot).memory.number \in Nat
  <2>1. slot[1] \in some /\ slot[2] \in 1..2 /\ slot[1].containers[slot[2]] # <<>>
    BY <1>3 DEF Limited
  <2>2. slot[1].containers[slot[2]] \in Container
    BY <1>2, <2>1
  <2> QED
    BY <2>1, <2>2, GroupUsageAssumption DEF GroupUsageAssumption, At
<1> QED
  BY <1>5, <1>6

\* The memory is no less than that of the limits, rounded.
LEMMA InvGivesMemory == UsageInv => MemoryNeverLess
<1> SUFFICES ASSUME UsageInv, NEW g \in Name, Usage(g) # <<>>
             PROVE  LET live == {p \in pods : p.group = g /\ p.phase # "Succeeded"}
                    IN  Usage(g)[1].memory >=
                          Tenths(Total(live, LAMBDA c : c.memory.number * TrueUnit(c.memory.unit)))
  BY Zenon DEF MemoryNeverLess
<1> DEFINE live == {p \in pods : p.group = g /\ p.phase # "Succeeded"}
           D == Limited(live)
           said == [slot \in D |-> Bytes(At(slot))]
           true == [slot \in D |-> At(slot).memory.number * TrueUnit(At(slot).memory.unit)]
<1>1. Existing(g) = live
  BY ExistingAreOwn
<1>2. live \in SUBSET pods
  OBVIOUS
<1> HIDE DEF live
<1>3. IsFiniteSet(D) /\ \A slot \in D : At(slot).memory.number \in Nat
  BY <1>2, LimitedAre
<1>4. ~(\E slot \in D : ~Readable(At(slot)))
  BY <1>1, Zenon DEF Usage
<1>5. Usage(g)[1].memory = Tenths(SumFunction(said))
  <2> DEFINE cpu == Total(live, Millis)
             gpu == Total(live, Gpus)
             memory == Tenths(Total(live, Bytes))
  <2>1. Usage(g) = <<[cpu |-> cpu, gpu |-> gpu, memory |-> memory]>>
    BY <1>1, <1>4, Zenon DEF Usage
  <2>2. memory = Tenths(SumFunction(said))
    BY Zenon DEF Total
  <2> HIDE DEF cpu, gpu, memory, said
  <2> QED
    BY <2>1, <2>2
<1>6. Total(live, LAMBDA c : c.memory.number * TrueUnit(c.memory.unit)) = SumFunction(true)
  BY Zenon DEF Total
<1>7. ASSUME NEW slot \in D
      PROVE  said[slot] \in Nat /\ true[slot] \in Nat /\ true[slot] <= said[slot]
  <2> DEFINE n == At(slot).memory.number
             a == TrueUnit(At(slot).memory.unit)
             b == MemUnit(At(slot).memory.unit)[1]
  <2>1. MemUnit(At(slot).memory.unit) # <<>>
    BY <1>4, <1>7 DEF Readable
  <2>2. a \in Nat /\ b \in Nat /\ a <= b
    BY <2>1, UnitNeverLess
  <2>3. n \in Nat
    BY <1>3
  <2>4. said[slot] = n * b /\ true[slot] = n * a
    BY <1>7 DEF Bytes
  <2> HIDE DEF n, a, b
  <2>5. n * a <= n * b
    BY <2>2, <2>3, Times
  <2> QED
    BY <2>2, <2>3, <2>4, <2>5
<1>8. said \in [D -> Nat] /\ true \in [D -> Nat]
  BY <1>7
<1> HIDE DEF D, said, true
<1>9. /\ SumFunction(true) \in Nat /\ SumFunction(said) \in Nat
      /\ SumFunction(true) <= SumFunction(said)
  BY <1>3, <1>7, <1>8, SumMonotone
<1>10. Tenths(SumFunction(true)) <= Tenths(SumFunction(said))
  BY <1>9, TenthsMonotone
<1>12. Usage(g)[1].memory >=
          Tenths(Total(live, LAMBDA c : c.memory.number * TrueUnit(c.memory.unit)))
  BY <1>5, <1>6, <1>10
<1> QED
  BY <1>12, Zenon DEF live

\* What a group is told of its memory is no less than its limits add up to.
THEOREM MemoryKept == UsageSpec => []MemoryNeverLess
BY UsageInvariant, InvGivesMemory, PTL

\* The pods of other groups, and those that have ended, count for nothing.
THEOREM UsageOwn == UsageSpec => []UsageOfOwnPods
BY UsageInvariant, InvGivesOwn, PTL
=============================================================================
