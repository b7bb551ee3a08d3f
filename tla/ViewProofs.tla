----------------------------- MODULE ViewProofs -----------------------------
(***************************************************************************)
(* Lemmas about the list a client makes of the frames, in three parts.     *)
(* Folding a sequence with an operator Op, as a client applies its frames  *)
(* and its runnables: Op is a constant, for the modules that instantiate   *)
(* this one to give, and induction is by the smallest exception, for which *)
(* no operator is needed as a parameter.  What adding, removing and        *)
(* renaming a row does to a list that shows each window once.  And that    *)
(* two lists of the same windows stay so whatever is done to both.         *)
(***************************************************************************)
EXTENDS ClientView, FiniteSetTheorems, WellFoundedInduction, TLAPS

CONSTANT Op(_, _)  \* what is folded

-----------------------------------------------------------------------------
(* Numbers.                                                                *)

\* The order of the natural numbers, which is well-founded.
Less == {p \in Nat \X Nat : p[1] < p[2]}

\* So a set of numbers has a smallest.
LEMMA Smallest ==
    ASSUME NEW S, S \subseteq Nat, S # {}
    PROVE  \E x \in S : \A y \in S : x <= y
<1>1. IsWellFoundedOn(Less, Nat)
  BY NatLessThanWellFounded, Zenon DEF Less, OpToRel
<1>2. PICK x \in S : \A y \in S : <<y, x>> \notin Less
  BY <1>1, WFMin, Zenon
<1>3. ASSUME NEW y \in S, ~(x <= y) PROVE FALSE
  <2>1. <<y, x>> \in Nat \X Nat /\ y < x
    BY <1>3
  <2>. QED
    BY <1>2, <2>1 DEF Less
<1>. QED
  BY <1>3

\* So numbers can be counted through: take the smallest exception.
LEMMA Induction ==
  ASSUME NEW S, 0 \in S, \A n \in Nat : n \in S => n + 1 \in S
  PROVE \A n \in Nat : n \in S
<1>. SUFFICES ASSUME Nat \ S # {} PROVE FALSE
  OBVIOUS
<1>1. PICK x \in Nat \ S : \A y \in Nat \ S : x <= y
  BY Smallest
<1>2. x # 0 /\ x - 1 \in Nat
  BY <1>1
<1>3. x - 1 \in S
  BY <1>1, <1>2
<1>4. x - 1 + 1 = x
  BY <1>1
<1>. QED BY <1>1, <1>2, <1>3, <1>4

-----------------------------------------------------------------------------
(* Folding a sequence.                                                     *)

\* The function that FoldLeft defines on the sets of the first n places.
Iterates(it, n, base, seq) ==
    it = [S \in SUBSET (1 .. n) |->
            IF S = {} THEN base ELSE Op(it[S \ {Max(S)}], seq[Max(S)])]

\* The definition of Max by CHOOSE finds the largest number there is.
LEMMA MaxIs ==
    ASSUME NEW S, S \subseteq Nat, NEW m \in S, \A x \in S : x <= m
    PROVE  Max(S) = m
<1>1. \A x \in S : m >= x
  OBVIOUS
<1>2. Max(S) \in S /\ \A x \in S : Max(S) >= x
  <2>. DEFINE P(x) == x \in S /\ \A y \in S : x >= y
  <2>1. P(m)
    BY <1>1
  <2>2. P(CHOOSE x : P(x))
    BY <2>1, Zenon
  <2>. QED
    BY <2>2, Zenon DEF Max
<1>3. Max(S) \in Nat /\ m \in Nat /\ Max(S) <= m /\ Max(S) >= m
  BY <1>2
<1>. HIDE DEF Max
<1>. QED
  BY <1>3

\* The largest index of a sequence is its last, and the others are a prefix.
LEMMA MaxOfPrefix ==
    ASSUME NEW n \in Nat
    PROVE  /\ Max(1 .. (n + 1)) = n + 1
           /\ 1 .. (n + 1) # {} /\ (1 .. (n + 1)) \ {n + 1} = 1 .. n
<1>1. n + 1 \in 1 .. (n + 1) /\ \A x \in 1 .. (n + 1) : x <= n + 1
  OBVIOUS
<1>2. Max(1 .. (n + 1)) = n + 1
  BY <1>1, MaxIs
<1>. QED
  BY <1>2

\* One step of the iteration over the first places.
LEMMA IterationStep ==
    ASSUME NEW base, NEW seq, NEW n \in Nat, NEW it, Iterates(it, n, base, seq)
    PROVE  /\ it[1 .. 0] = base
           /\ \A k \in 0 .. n - 1 : it[1 .. (k + 1)] = Op(it[1 .. k], seq[k + 1])
<1>1. it[1 .. 0] = base
  <2>1. 1 .. 0 = {} /\ {} \in SUBSET (1 .. n)
    OBVIOUS
  <2>. QED
    BY <2>1 DEF Iterates
<1>2. ASSUME NEW k \in 0 .. n - 1 PROVE it[1 .. (k + 1)] = Op(it[1 .. k], seq[k + 1])
  <2>1. k \in Nat /\ 1 .. (k + 1) \in SUBSET (1 .. n)
    OBVIOUS
  <2>2. /\ Max(1 .. (k + 1)) = k + 1
        /\ 1 .. (k + 1) # {} /\ (1 .. (k + 1)) \ {k + 1} = 1 .. k
    BY <2>1, MaxOfPrefix
  <2>. DEFINE S == 1 .. (k + 1)
  <2>3. it[S] = IF S = {} THEN base ELSE Op(it[S \ {Max(S)}], seq[Max(S)])
    BY <2>1, Zenon DEF Iterates
  <2>. HIDE DEF S
  <2>4. it[S] = Op(it[S \ {Max(S)}], seq[Max(S)])
    BY <2>2, <2>3 DEF S
  <2>. QED
    BY <2>2, <2>4, Zenon DEF S
<1>. QED
  BY <1>1, <1>2

\* The fold of Op.
Fold(base, seq) == FoldLeft(Op, base, seq)

\* What the library's recursive definition of a fold computes, it computes by
\* iteration: MapThenFoldSet takes the largest index off each time.
LEMMA FoldIs ==
    ASSUME NEW base, NEW X, NEW seq \in Seq(X)
    PROVE  Fold(base, seq) =
              (CHOOSE it : Iterates(it, Len(seq), base, seq))[1 .. Len(seq)]
<1>1. DOMAIN seq = 1 .. Len(seq)
  OBVIOUS
<1>. QED
  BY <1>1, Zenon DEF Fold, FoldLeft, MapThenFoldSet, Iterates

\* Such a function exists.
LEMMA IterationExists ==
    ASSUME NEW base, NEW seq
    PROVE  \A n \in Nat : \E it : Iterates(it, n, base, seq)
<1>. DEFINE E == {n \in Nat : \E it : Iterates(it, n, base, seq)}
<1>1. 0 \in E
  <2>1. Iterates([S \in SUBSET (1 .. 0) |-> base], 0, base, seq)
    BY DEF Iterates
  <2>. QED BY <2>1
<1>2. ASSUME NEW n \in Nat, n \in E PROVE n + 1 \in E
  <2>1. PICK it : Iterates(it, n, base, seq)
    BY <1>2
  <2>. DEFINE longer == [S \in SUBSET (1 .. (n + 1)) |->
                           IF n + 1 \in S THEN Op(it[S \ {n + 1}], seq[n + 1]) ELSE it[S]]
  <2>2. ASSUME NEW S \in SUBSET (1 .. (n + 1)), S # {}
        PROVE  longer[S] = Op(longer[S \ {Max(S)}], seq[Max(S)])
    <3>1. CASE n + 1 \in S
      <4>1. Max(S) = n + 1
        <5>1. S \subseteq Nat /\ \A x \in S : x <= n + 1
          OBVIOUS
        <5>. QED BY <5>1, <3>1, MaxIs
      <4>2. S \ {n + 1} \in SUBSET (1 .. n)
        OBVIOUS
      <4>. QED BY <4>1, <4>2, <3>1
    <3>2. CASE n + 1 \notin S
      <4>1. S \in SUBSET (1 .. n)
        BY <3>2
      <4>2. S \ {Max(S)} \in SUBSET (1 .. n) /\ n + 1 \notin S \ {Max(S)}
        <5>1. \A x : S \ {x} \in SUBSET (1 .. n) /\ n + 1 \notin S \ {x}
          BY <4>1, <3>2, Zenon
        <5>. QED BY <5>1
      <4>3. it[S] = Op(it[S \ {Max(S)}], seq[Max(S)])
        BY <2>1, <2>2, <4>1 DEF Iterates
      <4>. QED BY <4>1, <4>2, <4>3, <3>2
    <3>. QED BY <3>1, <3>2
  <2>3. longer[{}] = base
    BY <2>1 DEF Iterates
  <2>4. Iterates(longer, n + 1, base, seq)
    <3>1. longer = [S \in SUBSET (1 .. (n + 1)) |-> longer[S]]
      OBVIOUS
    <3>2. \A S \in SUBSET (1 .. (n + 1)) :
             longer[S] = IF S = {} THEN base ELSE Op(longer[S \ {Max(S)}], seq[Max(S)])
      BY <2>2, <2>3
    <3>. HIDE DEF longer
    <3>. QED BY <3>1, <3>2 DEF Iterates
  <2>. QED BY <2>4
<1>. HIDE DEF E
<1>3. \A n \in Nat : n \in E
  BY <1>1, <1>2, Induction
<1>. QED BY <1>3 DEF E

\* On the first places, it is determined by them.
LEMMA IterationOfPrefix ==
    ASSUME NEW base, NEW s, NEW t, NEW m \in Nat, NEW n \in Nat, m <= n,
           \A i \in 1 .. m : s[i] = t[i],
           NEW f, NEW g, Iterates(f, m, base, s), Iterates(g, n, base, t)
    PROVE  f[1 .. m] = g[1 .. m]
<1>. DEFINE E == {k \in Nat : k <= m => f[1 .. k] = g[1 .. k]}
<1>1. 0 \in E
  <2>1. f[1 .. 0] = base /\ g[1 .. 0] = base
    BY IterationStep
  <2>. QED
    BY <2>1
<1>2. ASSUME NEW k \in Nat, k \in E PROVE k + 1 \in E
  <2>. SUFFICES ASSUME k + 1 <= m PROVE f[1 .. (k + 1)] = g[1 .. (k + 1)]
    OBVIOUS
  <2>1. k \in 0 .. m - 1 /\ k \in 0 .. n - 1 /\ s[k + 1] = t[k + 1] /\ f[1 .. k] = g[1 .. k]
    BY <1>2
  <2>2. f[1 .. (k + 1)] = Op(f[1 .. k], s[k + 1])
    BY <2>1, IterationStep
  <2>3. g[1 .. (k + 1)] = Op(g[1 .. k], t[k + 1])
    BY <2>1, IterationStep
  <2>. QED
    BY <2>1, <2>2, <2>3
<1>. HIDE DEF E
<1>3. m \in E
  BY <1>1, <1>2, Induction
<1>. QED
  BY <1>3 DEF E

\* Nothing folded is where it starts from.
THEOREM FoldEmpty == \A base : Fold(base, <<>>) = base
<1>. TAKE base
<1>1. PICK f : Iterates(f, 0, base, <<>>)
  BY IterationExists
<1>. DEFINE g == CHOOSE it : Iterates(it, 0, base, <<>>)
<1>2. Iterates(g, 0, base, <<>>)
  BY <1>1, Zenon
<1>3. Fold(base, <<>>) = g[1 .. 0]
  <2>1. <<>> \in Seq({}) /\ Len(<<>>) = 0
    OBVIOUS
  <2>. QED
    BY <2>1, FoldIs
<1>. HIDE DEF g
<1>4. g[1 .. 0] = base
  BY <1>2, IterationStep
<1>. QED
  BY <1>3, <1>4

\* The last element is applied to what the others gave: from this follows all
\* that is proved about the list a client makes of the frames it receives.
LEMMA FoldAppend ==
    ASSUME NEW base, NEW X, NEW seq \in Seq(X), NEW e \in X
    PROVE  Fold(base, Append(seq, e)) = Op(Fold(base, seq), e)
<1>. DEFINE n == Len(seq)
            t == Append(seq, e)
            f == CHOOSE it : Iterates(it, n, base, seq)
            g == CHOOSE it : Iterates(it, n + 1, base, t)
<1>1. n \in Nat /\ Len(t) = n + 1 /\ t \in Seq(X) /\ t[n + 1] = e
      /\ \A i \in 1 .. n : seq[i] = t[i]
  OBVIOUS
<1>2. Iterates(f, n, base, seq)
  <2>1. \E it : Iterates(it, n, base, seq)
    BY <1>1, IterationExists
  <2>. QED
    BY <2>1, Zenon
<1>3. Iterates(g, n + 1, base, t)
  <2>1. \E it : Iterates(it, n + 1, base, t)
    <3>1. n + 1 \in Nat
      OBVIOUS
    <3>. HIDE DEF n, t
    <3>. QED
      BY <3>1, IterationExists
  <2>. QED
    BY <2>1, Zenon
<1>4. Fold(base, seq) = f[1 .. n]
  BY FoldIs, Zenon
<1>5. Fold(base, t) = g[1 .. (n + 1)]
  <2>1. Fold(base, t) = (CHOOSE it : Iterates(it, Len(t), base, t))[1 .. Len(t)]
    BY <1>1, FoldIs, Zenon
  <2>. QED
    BY <2>1, <1>1, Zenon
<1>. HIDE DEF f, g, n, t
<1>6. f[1 .. n] = g[1 .. n]
  BY <1>1, <1>2, <1>3, IterationOfPrefix
<1>7. g[1 .. (n + 1)] = Op(g[1 .. n], e)
  <2>1. n + 1 \in Nat /\ n \in 0 .. (n + 1) - 1
    BY <1>1
  <2>. QED
    BY <2>1, <1>1, <1>3, IterationStep
<1>. QED
  BY <1>4, <1>5, <1>6, <1>7 DEF t

\* A fold can be interrupted.
THEOREM FoldConcat ==
    ASSUME NEW base, NEW X, NEW s \in Seq(X)
    PROVE  \A t \in Seq(X) : Fold(base, s \o t) = Fold(Fold(base, s), t)
<1>. DEFINE Holds(t) == Fold(base, s \o t) = Fold(Fold(base, s), t)
<1>. DEFINE E == {n \in Nat : \A t \in Seq(X) : Len(t) = n => Holds(t)}
<1>1. 0 \in E
  <2>1. \A t \in Seq(X) : Len(t) = 0 => t = <<>> /\ s \o t = s
    OBVIOUS
  <2>2. Holds(<<>>)
    <3>1. s \o <<>> = s
      OBVIOUS
    <3>. QED
      BY <3>1, FoldEmpty
  <2>. HIDE DEF Holds
  <2>. QED
    BY <2>1, <2>2
<1>2. ASSUME NEW n \in Nat, n \in E PROVE n + 1 \in E
  <2>1. ASSUME NEW t \in Seq(X), Len(t) = n + 1 PROVE Holds(t)
    <3>. DEFINE front == SubSeq(t, 1, n)
                both == s \o front
                e == t[n + 1]
    <3>1. /\ front \in Seq(X) /\ Len(front) = n /\ e \in X /\ both \in Seq(X)
          /\ t = Append(front, e) /\ s \o t = Append(both, e)
      BY <2>1
    <3>2. Fold(base, both) = Fold(Fold(base, s), front)
      BY <1>2, <3>1
    <3>. HIDE DEF front, both, e
    <3>3. Fold(base, Append(both, e)) = Op(Fold(base, both), e)
      BY <3>1, FoldAppend
    <3>4. Fold(Fold(base, s), Append(front, e)) = Op(Fold(Fold(base, s), front), e)
      BY <3>1, FoldAppend
    <3>5. Fold(base, s \o t) = Fold(base, Append(both, e))
      BY <3>1, Zenon
    <3>6. Fold(Fold(base, s), t) = Fold(Fold(base, s), Append(front, e))
      BY <3>1, Zenon
    <3>. QED
      BY <3>2, <3>3, <3>4, <3>5, <3>6, Zenon
  <2>. HIDE DEF Holds
  <2>. QED
    BY <2>1
<1>. HIDE DEF E
<1>3. \A n \in Nat : n \in E
  BY <1>1, <1>2, Induction
<1>4. ASSUME NEW t \in Seq(X) PROVE Holds(t)
  <2>1. Len(t) \in Nat
    OBVIOUS
  <2>. HIDE DEF Holds
  <2>. QED
    BY <1>3, <2>1 DEF E
<1>. QED
  BY <1>4

\* What Op keeps, its fold keeps: a relation between two values it starts from.
LEMMA FoldRelated ==
    ASSUME NEW X, NEW R, \A p \in R, e \in X : <<Op(p[1], e), Op(p[2], e)>> \in R
    PROVE  \A t \in Seq(X) : \A b, c : <<b, c>> \in R =>
              <<Fold(b, t), Fold(c, t)>> \in R
<1>. DEFINE Holds(t) == \A b, c : <<b, c>> \in R =>
                          <<Fold(b, t), Fold(c, t)>> \in R
<1>. DEFINE E == {n \in Nat : \A t \in Seq(X) : Len(t) = n => Holds(t)}
<1>1. 0 \in E
  <2>1. \A t \in Seq(X) : Len(t) = 0 => t = <<>>
    OBVIOUS
  <2>2. Holds(<<>>)
    BY FoldEmpty
  <2>. HIDE DEF Holds
  <2>. QED
    BY <2>1, <2>2
<1>2. ASSUME NEW n \in Nat, n \in E PROVE n + 1 \in E
  <2>1. ASSUME NEW t \in Seq(X), Len(t) = n + 1 PROVE Holds(t)
    <3>. DEFINE front == SubSeq(t, 1, n)
                e == t[n + 1]
    <3>1. front \in Seq(X) /\ Len(front) = n /\ e \in X /\ t = Append(front, e)
      BY <2>1
    <3>2. Holds(front)
      BY <1>2, <3>1
    <3>. HIDE DEF front, e
    <3>3. \A b : Fold(b, Append(front, e)) = Op(Fold(b, front), e)
      BY <3>1, FoldAppend
    <3>4. ASSUME NEW b, NEW c, <<b, c>> \in R PROVE <<Fold(b, t), Fold(c, t)>> \in R
      <4>1. <<Fold(b, front), Fold(c, front)>> \in R
        BY <3>2, <3>4
      <4>2. <<Op(Fold(b, front), e), Op(Fold(c, front), e)>> \in R
        BY <4>1, <3>1
      <4>3. Fold(b, t) = Op(Fold(b, front), e) /\ Fold(c, t) = Op(Fold(c, front), e)
        BY <3>1, <3>3, Zenon
      <4>. QED
        BY <4>2, <4>3
    <3>. QED
      BY <3>4
  <2>. HIDE DEF Holds
  <2>. QED
    BY <2>1
<1>. HIDE DEF E
<1>3. \A n \in Nat : n \in E
  BY <1>1, <1>2, Induction
<1>4. ASSUME NEW t \in Seq(X) PROVE Holds(t)
  <2>1. Len(t) \in Nat
    OBVIOUS
  <2>. HIDE DEF Holds
  <2>. QED
    BY <1>3, <2>1 DEF E
<1>. QED
  BY <1>4

-----------------------------------------------------------------------------
(* A list of rows.                                                         *)

\* The first place that satisfies a test, if there is one.
LEMMA MinIs ==
    ASSUME NEW S, S \subseteq Nat, S # {}
    PROVE  Min(S) \in S /\ \A x \in S : Min(S) <= x
<1>. DEFINE P(x) == x \in S /\ \A y \in S : x <= y
<1>1. \E x \in S : \A y \in S : x <= y
  BY Smallest
<1>2. P(CHOOSE x : P(x))
  BY <1>1, Zenon
<1>. QED
  BY <1>2, Zenon DEF Min

\* SetToSeq lists every member of a finite set once.
LEMMA SetListed ==
    ASSUME NEW S, IsFiniteSet(S)
    PROVE  /\ SetToSeq(S) \in Seq(S)
           /\ Len(SetToSeq(S)) = Cardinality(S)
           /\ \A i, j \in DOMAIN SetToSeq(S) : SetToSeq(S)[i] = SetToSeq(S)[j] => i = j
           /\ \A x \in S : \E i \in DOMAIN SetToSeq(S) : SetToSeq(S)[i] = x
<1>. DEFINE n == Cardinality(S)
            D == 1 .. n
            s == SetToSeq(S)
<1>1. n \in Nat /\ IsFiniteSet(D) /\ Cardinality(D) = n
  BY FS_CardinalityType, FS_Interval
<1>2. \E f \in [D -> S] : IsInjective(f)
  BY FS_CardinalityType DEF ExistsBijection, Bijection, Injection, IsInjective
<1>3. s \in [D -> S] /\ IsInjective(s)
  BY <1>2, Zenon DEF SetToSeq
<1>. HIDE DEF n, D, s
<1>4. s \in Injection(D, S)
  BY <1>3 DEF Injection
<1>5. s \in Surjection(D, S)
  BY <1>1, <1>4, FS_Injection DEF n
<1>6. \A x \in S : \E i \in D : s[i] = x
  BY <1>5 DEF Surjection
<1>7. s \in Seq(S) /\ Len(s) = n /\ DOMAIN s = D
  BY <1>1, <1>3 DEF D
<1>. QED
  BY <1>3, <1>6, <1>7 DEF n, s, IsInjective

\* The places of the tasks with this window.
Places(list, w) == {i \in 1 .. Len(list) : list[i].hwnd = w}

\* The place getTaskByHwnd and removeTaskByHwnd find.
LEMMA FirstPlace ==
    ASSUME NEW X, NEW list \in Seq(X), NEW w
    PROVE  LET k == SelectInSeq(list, LAMBDA t : t.hwnd = w) IN
           /\ Places(list, w) = {} => k = 0
           /\ Places(list, w) # {} => k = Min(Places(list, w)) /\ k \in Places(list, w)
<1>. DEFINE k == SelectInSeq(list, LAMBDA t : t.hwnd = w)
<1>1. k = IF Places(list, w) # {} THEN Min(Places(list, w)) ELSE 0
  BY Zenon DEF SelectInSeq, Places
<1>2. Places(list, w) # {} => Min(Places(list, w)) \in Places(list, w)
  <2>1. Places(list, w) \subseteq Nat
    BY DEF Places
  <2>. QED
    BY <2>1, MinIs
<1>. QED
  BY <1>1, <1>2

\* The places of a concatenation.
LEMMA ConcatIs ==
    ASSUME NEW X, NEW s \in Seq(X), NEW t \in Seq(X)
    PROVE  /\ s \o t \in Seq(X)
           /\ Len(s \o t) = Len(s) + Len(t)
           /\ \A i \in 1 .. Len(s \o t) :
                 (s \o t)[i] = IF i <= Len(s) THEN s[i] ELSE t[i - Len(s)]
OBVIOUS

\* removeTaskByHwnd closes the gap the first task leaves.
LEMMA RemovedAt ==
    ASSUME NEW X, NEW list \in Seq(X), NEW w
    PROVE  LET rest == RemoveTaskByHwnd(list, w)
               k == Min(Places(list, w)) IN
           \/ Places(list, w) = {} /\ rest = list
           \/ /\ k \in Places(list, w)
              /\ rest \in Seq(X) /\ Len(rest) = Len(list) - 1
              /\ \A i \in 1 .. Len(rest) : rest[i] = list[IF i < k THEN i ELSE i + 1]
<1>. DEFINE rest == RemoveTaskByHwnd(list, w)
            k == SelectInSeq(list, LAMBDA t : t.hwnd = w)
<1>1. rest = IF Places(list, w) # {} THEN RemoveAt(list, k) ELSE list
  <2>1. Places(list, w) # {} <=> \E i \in 1 .. Len(list) : list[i].hwnd = w
    BY DEF Places
  <2>. QED
    BY <2>1, Zenon DEF RemoveTaskByHwnd, RemoveFirstMatch
<1>2. CASE Places(list, w) = {}
  BY <1>1, <1>2
<1>3. CASE Places(list, w) # {}
  <2>1. k = Min(Places(list, w)) /\ k \in Places(list, w)
    BY <1>3, FirstPlace
  <2>. HIDE DEF k
  <2>2. k \in 1 .. Len(list)
    BY <2>1 DEF Places
  <2>. DEFINE front == SubSeq(list, 1, k - 1)
              back == SubSeq(list, k + 1, Len(list))
  <2>3. rest = front \o back
    BY <1>1, <1>3 DEF RemoveAt
  <2>. HIDE DEF rest
  <2>3a. /\ front \in Seq(X) /\ Len(front) = k - 1 /\ \A i \in 1 .. k - 1 : front[i] = list[i]
    BY <2>2
  <2>3b. /\ back \in Seq(X) /\ Len(back) = Len(list) - k
         /\ \A i \in 1 .. Len(list) - k : back[i] = list[k + i]
    BY <2>2
  <2>3c. Len(list) \in Nat /\ k \in Nat /\ k <= Len(list) /\ k >= 1
    BY <2>2
  <2>. HIDE DEF front, back
  <2>3d. /\ rest \in Seq(X) /\ Len(rest) = Len(list) - 1
         /\ \A i \in 1 .. Len(rest) :
               rest[i] = IF i <= k - 1 THEN front[i] ELSE back[i - (k - 1)]
    <3>1. /\ rest \in Seq(X) /\ Len(rest) = Len(front) + Len(back)
          /\ \A i \in 1 .. Len(rest) :
                rest[i] = IF i <= Len(front) THEN front[i] ELSE back[i - Len(front)]
      BY <2>3, <2>3a, <2>3b, ConcatIs
    <3>. QED
      BY <2>3a, <2>3b, <2>3c, <3>1
  <2>4. /\ rest \in Seq(X) /\ Len(rest) = Len(list) - 1
        /\ \A i \in 1 .. Len(rest) : rest[i] = list[IF i < k THEN i ELSE i + 1]
    <3>1. ASSUME NEW i \in 1 .. Len(rest) PROVE rest[i] = list[IF i < k THEN i ELSE i + 1]
      <4>1. CASE i < k
        BY <2>3a, <2>3c, <2>3d, <3>1, <4>1
      <4>2. CASE i >= k
        <5>1. i - (k - 1) \in 1 .. Len(list) - k /\ k + (i - (k - 1)) = i + 1
          BY <2>3c, <2>3d, <3>1, <4>2
        <5>. QED
          BY <2>3b, <2>3c, <2>3d, <3>1, <4>2, <5>1
      <4>. QED
        BY <2>3c, <2>3d, <3>1, <4>1, <4>2
    <3>. QED
      BY <2>3d, <3>1
  <2>. QED
    BY <2>1, <2>4 DEF rest
<1>. QED
  BY <1>2, <1>3

\* The row that is removed is one of the window's, and the others keep their
\* order.
LEMMA Removed ==
    ASSUME NEW X, NEW list \in Seq(X), NEW w
    PROVE  LET rest == RemoveTaskByHwnd(list, w) IN
           \/ Places(list, w) = {} /\ rest = list
           \/ \E k \in Places(list, w) :
                /\ rest \in Seq(X) /\ Len(rest) = Len(list) - 1
                /\ \A i \in 1 .. Len(rest) : rest[i] = list[IF i < k THEN i ELSE i + 1]
BY RemovedAt, Zenon

\* A list that shows each of some windows once still does so, less one of them.
LEMMA RemovedShows ==
    ASSUME NEW X, NEW list \in Seq(X), NEW w, NEW ws, ShowsOnce(list, ws),
           NEW rest, rest = RemoveTaskByHwnd(list, w)
    PROVE  /\ rest \in Seq(X)
           /\ ShowsOnce(rest, ws \ {w})
           /\ \A i \in DOMAIN rest : \E j \in DOMAIN list : rest[i] = list[j] /\ list[j].hwnd # w
<1>1. ASSUME Places(list, w) = {}, rest = list
      PROVE  /\ ShowsOnce(rest, ws \ {w})
             /\ \A i \in DOMAIN rest : \E j \in DOMAIN list : rest[i] = list[j] /\ list[j].hwnd # w
  <2>1. \A i \in DOMAIN list : list[i].hwnd # w
    BY <1>1 DEF Places
  <2>. QED
    BY <1>1, <2>1 DEF ShowsOnce
<1>2. ASSUME NEW k \in Places(list, w), rest \in Seq(X), Len(rest) = Len(list) - 1,
             \A i \in 1 .. Len(rest) : rest[i] = list[IF i < k THEN i ELSE i + 1]
      PROVE  /\ ShowsOnce(rest, ws \ {w})
             /\ \A i \in DOMAIN rest : \E j \in DOMAIN list : rest[i] = list[j] /\ list[j].hwnd # w
  <2>. DEFINE at(i) == IF i < k THEN i ELSE i + 1
  <2>1. /\ k \in 1 .. Len(list) /\ list[k].hwnd = w /\ Len(list) \in Nat
        /\ DOMAIN list = 1 .. Len(list) /\ DOMAIN rest = 1 .. Len(rest)
    BY <1>2 DEF Places
  <2>2. \A i \in DOMAIN rest : at(i) \in DOMAIN list /\ at(i) # k /\ rest[i] = list[at(i)]
    BY <1>2, <2>1
  <2>3. \A i, j \in DOMAIN rest : at(i) = at(j) => i = j
    BY <1>2, <2>1
  <2>4. \A j \in DOMAIN list : j # k => \E i \in DOMAIN rest : j = at(i)
    <3>1. ASSUME NEW j \in DOMAIN list, j # k PROVE \E i \in DOMAIN rest : j = at(i)
      <4>1. CASE j < k
        BY <1>2, <2>1, <3>1, <4>1
      <4>2. CASE j > k
        <5>1. j - 1 \in DOMAIN rest /\ at(j - 1) = j
          BY <1>2, <2>1, <3>1, <4>2
        <5>. QED
          BY <5>1
      <4>. QED
        BY <2>1, <3>1, <4>1, <4>2
    <3>. QED
      BY <3>1
  <2>. HIDE DEF at
  <2>5. \A j \in DOMAIN list : list[j].hwnd = w => j = k
    BY <2>1 DEF ShowsOnce
  <2>. QED
    BY <2>1, <2>2, <2>3, <2>4, <2>5 DEF ShowsOnce
<1>3. \/ Places(list, w) = {} /\ rest = list
      \/ \E k \in Places(list, w) :
           /\ rest \in Seq(X) /\ Len(rest) = Len(list) - 1
           /\ \A i \in 1 .. Len(rest) : rest[i] = list[IF i < k THEN i ELSE i + 1]
  BY Removed, Zenon
<1>4. /\ rest \in Seq(X)
      /\ ShowsOnce(rest, ws \ {w})
      /\ \A i \in DOMAIN rest : \E j \in DOMAIN list : rest[i] = list[j] /\ list[j].hwnd # w
  BY <1>1, <1>2, <1>3
<1>. QED
  BY <1>4

\* A row added for a window the list does not show.
LEMMA AddedShows ==
    ASSUME NEW X, NEW list \in Seq(X), NEW t \in X, NEW ws, ShowsOnce(list, ws), t.hwnd \notin ws
    PROVE  ShowsOnce(Append(list, t), ws \cup {t.hwnd})
<1>. DEFINE more == Append(list, t)
<1>1. /\ Len(list) \in Nat /\ DOMAIN list = 1 .. Len(list)
      /\ DOMAIN more = 1 .. (Len(list) + 1)
      /\ more[Len(list) + 1] = t /\ \A i \in DOMAIN list : more[i] = list[i]
  OBVIOUS
<1>2. DOMAIN more = DOMAIN list \cup {Len(list) + 1}
  BY <1>1
<1>. HIDE DEF more
<1>3. \A i \in DOMAIN list : list[i].hwnd # t.hwnd
  BY DEF ShowsOnce
<1>4. ShowsOnce(more, ws \cup {t.hwnd})
  BY <1>1, <1>2, <1>3 DEF ShowsOnce
<1>. QED
  BY <1>4 DEF more

\* A new title changes no window, and only the titles of this one.
LEMMA RetitledShows ==
    ASSUME NEW list \in Seq(Row), NEW w, NEW title \in Title, NEW ws, ShowsOnce(list, ws)
    PROVE  LET renamed == SetTitleByHwnd(list, w, title) IN
           /\ renamed \in Seq(Row)
           /\ ShowsOnce(renamed, ws)
           /\ \A i \in DOMAIN renamed :
                 IF renamed[i].hwnd = w THEN renamed[i].title = title
                 ELSE \E j \in DOMAIN list : renamed[i] = list[j]
<1>. DEFINE k == SelectInSeq(list, LAMBDA t : t.hwnd = w)
            renamed == SetTitleByHwnd(list, w, title)
<1>1. renamed = IF k = 0 THEN list ELSE [list EXCEPT ![k].title = title]
  BY Zenon DEF SetTitleByHwnd
<1>2. k = 0 \/ k \in Places(list, w)
  BY FirstPlace
<1>2a. Places(list, w) # {} => k \in Places(list, w)
  BY FirstPlace
<1>2b. 0 \notin Places(list, w)
  BY DEF Places
<1>. HIDE DEF k, renamed
<1>3. k \in Places(list, w) => k \in 1 .. Len(list) /\ list[k].hwnd = w /\ k # 0
  BY DEF Places
<1>. DEFINE Retitled ==
              /\ renamed \in Seq(Row)
              /\ ShowsOnce(renamed, ws)
              /\ \A i \in DOMAIN renamed :
                    IF renamed[i].hwnd = w THEN renamed[i].title = title
                    ELSE \E j \in DOMAIN list : renamed[i] = list[j]
<1>4. ASSUME k = 0 PROVE Retitled
  <2>1. renamed = list /\ Places(list, w) = {}
    BY <1>1, <1>2a, <1>2b, <1>4
  <2>. QED
    BY <2>1 DEF Places
<1>5. ASSUME k # 0 PROVE Retitled
  <2>. DEFINE t == [list[k] EXCEPT !.title = title]
  <2>0. /\ k \in 1 .. Len(list) /\ list[k].hwnd = w /\ list[k] \in Row
        /\ renamed = [list EXCEPT ![k] = t]
    BY <1>1, <1>2, <1>3, <1>5
  <2>0a. t \in Row /\ t.hwnd = w /\ t.title = title
    BY <2>0 DEF Row
  <2>. HIDE DEF t
  <2>1. /\ renamed \in Seq(Row) /\ DOMAIN renamed = DOMAIN list
        /\ renamed[k].hwnd = w /\ renamed[k].title = title
        /\ \A i \in DOMAIN list : i # k => renamed[i] = list[i]
    BY <2>0, <2>0a
  <2>2. \A i \in DOMAIN list : renamed[i].hwnd = list[i].hwnd
    BY <2>0, <2>1
  <2>3. ShowsOnce(renamed, ws)
    BY <2>1, <2>2 DEF ShowsOnce
  <2>4. \A i \in DOMAIN renamed : renamed[i].hwnd = w => i = k
    BY <2>0, <2>1, <2>3 DEF ShowsOnce
  <2>. QED
    BY <2>0, <2>1, <2>3, <2>4
<1>6. Retitled
  BY <1>4, <1>5
<1>. QED
  BY <1>6, Zenon DEF renamed

\* The rows of a listing, each with its own window.
LEMMA ListedShows ==
    ASSUME NEW list, NEW rows \in SUBSET Row, IsFiniteSet(rows),
           \A r, q \in rows : r.hwnd = q.hwnd => r = q
    PROVE  /\ ShowsOnce(RowsListed(list, rows), {r.hwnd : r \in rows})
           /\ \A i \in DOMAIN RowsListed(list, rows) : RowsListed(list, rows)[i] \in rows
<1>. DEFINE s == SetToSeq(rows)
<1>1. /\ s \in Seq(rows)
      /\ \A i, j \in DOMAIN s : s[i] = s[j] => i = j
      /\ \A x \in rows : \E i \in DOMAIN s : s[i] = x
  BY SetListed
<1>. HIDE DEF s
<1>2. \A i \in DOMAIN s : s[i] \in rows
  BY <1>1
<1>3. ShowsOnce(s, {r.hwnd : r \in rows})
  BY <1>1, <1>2 DEF ShowsOnce
<1>. QED
  BY <1>2, <1>3 DEF s, RowsListed

\* The title set is that of the first task.
LEMMA RetitledAt ==
    ASSUME NEW X, NEW list \in Seq(X), NEW w, NEW title
    PROVE  LET k == Min(Places(list, w)) IN
           /\ Places(list, w) = {} => SetTitleByHwnd(list, w, title) = list
           /\ Places(list, w) # {} =>
                 /\ k \in Places(list, w)
                 /\ SetTitleByHwnd(list, w, title) = [list EXCEPT ![k].title = title]
<1>. DEFINE k == SelectInSeq(list, LAMBDA t : t.hwnd = w)
<1>1. SetTitleByHwnd(list, w, title) = IF k = 0 THEN list ELSE [list EXCEPT ![k].title = title]
  BY Zenon DEF SetTitleByHwnd
<1>2. 0 \notin Places(list, w)
  BY DEF Places
<1>3. /\ Places(list, w) = {} => k = 0
      /\ Places(list, w) # {} => k = Min(Places(list, w)) /\ k \in Places(list, w)
  BY FirstPlace
<1>. HIDE DEF k
<1>. QED
  BY <1>1, <1>2, <1>3

-----------------------------------------------------------------------------
(* Two lists of the same windows, with the same titles or not.             *)

\* They show the same windows in the same order, and the same titles if asked.
Alike(a, b, titles) ==
    /\ Len(a) = Len(b)
    /\ \A i \in 1 .. Len(a) : a[i].hwnd = b[i].hwnd /\ (titles => a[i].title = b[i].title)

\* They have a window at the same places.
LEMMA SamePlaces ==
    ASSUME NEW a, NEW b, NEW titles, Alike(a, b, titles), NEW w
    PROVE  Places(a, w) = Places(b, w)
BY DEF Alike, Places

\* One more row at the end of both.
LEMMA AppendAlike ==
    ASSUME NEW X, NEW Y, NEW a \in Seq(X), NEW b \in Seq(Y), NEW titles, Alike(a, b, titles),
           NEW s \in X, NEW t \in Y, s.hwnd = t.hwnd, titles => s.title = t.title
    PROVE  Alike(Append(a, s), Append(b, t), titles)
<1>. DEFINE c == Append(a, s)
            d == Append(b, t)
            n == Len(a)
<1>1. /\ n \in Nat /\ Len(c) = n + 1 /\ c[n + 1] = s
      /\ \A i \in 1 .. n : c[i] = a[i]
  OBVIOUS
<1>2. /\ Len(b) = n /\ Len(d) = n + 1 /\ d[n + 1] = t
      /\ \A i \in 1 .. n : d[i] = b[i]
  BY DEF Alike
<1>3. 1 .. (n + 1) = 1 .. n \cup {n + 1}
  BY <1>1
<1>. HIDE DEF c, d, n
<1>4. Alike(c, d, titles)
  BY <1>1, <1>2, <1>3 DEF Alike, n
<1>. QED
  BY <1>4 DEF c, d

\* One window removed from both.
LEMMA RemoveAlike ==
    ASSUME NEW X, NEW Y, NEW a \in Seq(X), NEW b \in Seq(Y), NEW titles, Alike(a, b, titles), NEW w
    PROVE  Alike(RemoveTaskByHwnd(a, w), RemoveTaskByHwnd(b, w), titles)
<1>. DEFINE c == RemoveTaskByHwnd(a, w)
            d == RemoveTaskByHwnd(b, w)
            k == Min(Places(a, w))
<1>1. Places(a, w) = Places(b, w)
  BY SamePlaces
<1>2. CASE Places(a, w) = {}
  BY <1>1, <1>2, RemovedAt, Zenon
<1>3. CASE Places(a, w) # {}
  <2>1. /\ k \in Places(a, w) /\ Len(c) = Len(a) - 1
        /\ \A i \in 1 .. Len(c) : c[i] = a[IF i < k THEN i ELSE i + 1]
    BY <1>3, RemovedAt, Zenon
  <2>2. /\ Len(d) = Len(b) - 1
        /\ \A i \in 1 .. Len(d) : d[i] = b[IF i < k THEN i ELSE i + 1]
    BY <1>1, <1>3, RemovedAt, Zenon
  <2>. HIDE DEF c, d, k
  <2>3. k \in 1 .. Len(a) /\ Len(a) \in Nat
    BY <2>1 DEF Places
  <2>4. \A i \in 1 .. Len(c) : (IF i < k THEN i ELSE i + 1) \in 1 .. Len(a)
    BY <2>1, <2>3
  <2>5. Alike(c, d, titles)
    BY <2>1, <2>2, <2>4 DEF Alike
  <2>. QED
    BY <2>5 DEF c, d
<1>. QED
  BY <1>2, <1>3

\* A title set changes no window.
LEMMA RetitleKeepsWindows ==
    ASSUME NEW X, NEW a, NEW b \in Seq(X), Alike(a, b, FALSE), NEW w, NEW title
    PROVE  Alike(a, SetTitleByHwnd(b, w, title), FALSE)
<1>. DEFINE d == SetTitleByHwnd(b, w, title)
            k == Min(Places(b, w))
<1>1. CASE Places(b, w) = {}
  BY <1>1, RetitledAt, Zenon
<1>2. CASE Places(b, w) # {}
  <2>1. k \in Places(b, w) /\ d = [b EXCEPT ![k].title = title]
    BY <1>2, RetitledAt
  <2>. HIDE DEF d, k
  <2>2. Len(d) = Len(b)
    BY <2>1
  <2>3. \A i \in 1 .. Len(b) : d[i].hwnd = b[i].hwnd
    BY <2>1
  <2>4. Alike(a, d, FALSE)
    BY <2>2, <2>3 DEF Alike
  <2>. QED
    BY <2>4 DEF d
<1>. QED
  BY <1>1, <1>2

\* The same title set in both, in one of them by place.
LEMMA RetitleAlike ==
    ASSUME NEW X, NEW a \in Seq(X), NEW b \in Seq(Row), Alike(a, b, TRUE), NEW w, NEW title
    PROVE  \A c : \A k \in 1 .. Len(a) :
              /\ Len(c) = Len(a) /\ a[k].hwnd = w /\ \A i \in 1 .. k - 1 : a[i].hwnd # w
              /\ \A i \in 1 .. Len(a) : i # k => c[i] = a[i]
              /\ c[k].hwnd = w /\ c[k].title = title
              => Alike(c, SetTitleByHwnd(b, w, title), TRUE)
<1>. SUFFICES ASSUME NEW c, NEW k \in 1 .. Len(a), Len(c) = Len(a),
                     a[k].hwnd = w, \A i \in 1 .. k - 1 : a[i].hwnd # w,
                     \A i \in 1 .. Len(a) : i # k => c[i] = a[i],
                     c[k].hwnd = w, c[k].title = title
              PROVE  Alike(c, SetTitleByHwnd(b, w, title), TRUE)
  OBVIOUS
<1>. DEFINE d == SetTitleByHwnd(b, w, title)
            m == Min(Places(b, w))
<1>1. Places(a, w) = Places(b, w) /\ k \in Places(b, w) /\ Places(b, w) \subseteq Nat
  <2>1. Places(a, w) = Places(b, w)
    BY DEF Places, Alike
  <2>2. k \in Places(a, w) /\ Places(b, w) \subseteq Nat
    BY DEF Places
  <2>. QED
    BY <2>1, <2>2
<1>2. m \in Places(b, w) /\ m <= k
  BY <1>1, MinIs
<1>3. d = [b EXCEPT ![m].title = title]
  <2>1. Places(b, w) # {}
    BY <1>1
  <2>. QED
    BY <2>1, RetitledAt
<1>. HIDE DEF d, m
<1>4. m = k
  BY <1>1, <1>2 DEF Places
<1>5. k \in DOMAIN b /\ b[k] \in Row /\ Len(d) = Len(b)
      /\ d[k] = [b[k] EXCEPT !.title = title] /\ \A i \in 1 .. Len(b) : i # k => d[i] = b[i]
  BY <1>3, <1>4 DEF Alike
<1>6. d[k].title = title /\ d[k].hwnd = w
  BY <1>5 DEF Alike, Row
<1>7. Alike(c, d, TRUE)
  BY <1>5, <1>6 DEF Alike
<1>. QED
  BY <1>7 DEF d

\* A list of rows stays one, whichever frame is applied.
LEMMA ApplyTyped ==
    ASSUME NEW list \in Seq(Row), NEW f \in Frame,
           f.type = "ACTIVE_TASK_LIST" => IsFiniteSet(f.tasks)
    PROVE  Apply(list, f) \in Seq(Row)
<1>1. CASE f.type = "ACTIVE_TASK_LIST"
  <2>1. f.tasks \in SUBSET Row /\ Apply(list, f) = SetToSeq(f.tasks)
    BY <1>1 DEF Frame, Apply, RowsListed
  <2>2. SetToSeq(f.tasks) \in Seq(f.tasks)
    BY <1>1, SetListed
  <2>. QED
    BY <2>1, <2>2
<1>2. CASE f.type = "ADD_TASK"
  BY <1>2 DEF Frame, Apply, Task, Row
<1>3. CASE f.type = "REMOVE_TASK"
  BY <1>3, Removed DEF Frame, Apply
<1>4. CASE f.type = "UPDATE_TASK"
  <2>. DEFINE k == SelectInSeq(list, LAMBDA t : t.hwnd = f.hwnd)
  <2>1. Apply(list, f) = IF k = 0 THEN list ELSE [list EXCEPT ![k].title = f.title]
    BY <1>4, Zenon DEF Apply, SetTitleByHwnd
  <2>2. k = 0 \/ k \in Places(list, f.hwnd)
    BY FirstPlace
  <2>. HIDE DEF k
  <2>3. f.title \in Title
    BY <1>4 DEF Frame
  <2>4. k # 0 => [list[k] EXCEPT !.title = f.title] \in Row
    <3>1. k # 0 => list[k] \in Row
      BY <2>2 DEF Places
    <3>. QED
      BY <2>3, <3>1 DEF Row
  <2>. QED
    BY <2>1, <2>2, <2>4 DEF Places
<1>5. CASE f.type = "SEND_ICON"
  BY <1>5 DEF Apply
<1>. QED
  BY <1>1, <1>2, <1>3, <1>4, <1>5 DEF Frame

=============================================================================
