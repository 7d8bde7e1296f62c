------------------------------ MODULE ListProofs ------------------------------
(***************************************************************************)
(* Lemmas about Lists, for lists of any length, and the induction they     *)
(* rest on: over a set of numbers instead of a predicate, because a lemma  *)
(* with an operator for a parameter cannot be cited here.                  *)
(***************************************************************************)
EXTENDS Lists, SequenceTheorems, WellFoundedInduction, TLAPS

LEMMA LeastOf ==
  ASSUME NEW T \in SUBSET Nat, T # {}
  PROVE  \E n \in T : \A m \in T : n <= m
<1>. DEFINE R == OpToRel(<, Nat)
<1>1. IsWellFoundedOn(R, Nat)
  BY NatLessThanWellFounded
<1>2. \A m, n \in Nat : m < n => <<m, n>> \in R
  BY DEF OpToRel
<1>. HIDE DEF R
<1>3. PICK n \in T : \A m \in T : <<m, n>> \notin R
  BY <1>1, WFMin
<1>4. \A m \in T : ~(m < n)
  BY <1>2, <1>3
<1>. QED
  BY <1>4

LEMMA UpTo ==
  ASSUME NEW n \in Nat, NEW S, 0 \in S, \A i \in 0..n - 1 : i \in S => i + 1 \in S
  PROVE  \A i \in 0..n : i \in S
<1>. DEFINE T == (0..n) \ S
<1>1. T \in SUBSET Nat
  OBVIOUS
<1>2. SUFFICES ASSUME T # {} PROVE FALSE
  OBVIOUS
<1>3. PICK i \in T : \A j \in T : i <= j
  <2>. HIDE DEF T
  <2>. QED
    BY <1>1, <1>2, LeastOf
<1>4. i # 0 /\ i - 1 \in 0..n - 1
  OBVIOUS
<1>5. i - 1 \in S
  BY <1>3, <1>4
<1>. QED
  BY <1>4, <1>5

(* A value made step by step exists.                                       *)
LEMMA Iterates ==
  ASSUME NEW V, NEW start \in V, NEW n \in Nat, NEW F \in [1..n -> [V -> V]]
  PROVE  \E g \in [0..n -> V] :
            g[0] = start /\ \A i \in 1..n : g[i] = F[i][g[i - 1]]
<1>. DEFINE Made(g, k) == g[0] = start /\ \A i \in 1..k : g[i] = F[i][g[i - 1]]
            S == {k \in 0..n : \E g \in [0..k -> V] : Made(g, k)}
<1>1. 0 \in S
  <2>. DEFINE g == [i \in 0..0 |-> start]
  <2>1. g \in [0..0 -> V] /\ g[0] = start /\ 1..0 = {}
    OBVIOUS
  <2>2. Made(g, 0)
    BY <2>1
  <2>. HIDE DEF g, Made
  <2>. QED
    BY <2>1, <2>2
<1>2. ASSUME NEW k \in 0..n - 1, k \in S PROVE k + 1 \in S
  <2>1. PICK g \in [0..k -> V] : Made(g, k)
    BY <1>2
  <2>. DEFINE h == [i \in 0..k + 1 |-> IF i = k + 1 THEN F[k + 1][g[k]] ELSE g[i]]
  <2>2. k \in Nat /\ g[k] \in V /\ k + 1 \in 1..n
    OBVIOUS
  <2>3. F[k + 1][g[k]] \in V
    BY <2>2
  <2>4. h \in [0..k + 1 -> V]
    BY <2>3
  <2>5. h[0] = start
    BY <2>1, <2>2
  <2>6. ASSUME NEW i \in 1..k + 1 PROVE h[i] = F[i][h[i - 1]]
    <3>1. i - 1 \in 0..k /\ h[i - 1] = g[i - 1]
      BY <2>2
    <3>2. CASE i = k + 1
      <4>1. h[i] = F[i][g[k]] /\ i - 1 = k
        BY <3>2, <2>2
      <4>. QED
        BY <3>1, <4>1
    <3>3. CASE i # k + 1
      <4>1. i \in 1..k /\ h[i] = g[i]
        BY <3>3, <2>2
      <4>. QED
        BY <2>1, <3>1, <4>1
    <3>. QED
      BY <3>2, <3>3
  <2>. HIDE DEF h
  <2>7. Made(h, k + 1)
    BY <2>5, <2>6
  <2>. HIDE DEF Made
  <2>8. k + 1 \in 0..n
    BY <2>2
  <2>. QED
    BY <2>4, <2>7, <2>8
<1>. HIDE DEF S
<1>3. \A k \in 0..n - 1 : k \in S => k + 1 \in S
  BY <1>2
<1>4. \A k \in 0..n : k \in S
  BY <1>1, <1>3, UpTo
<1>5. n \in S
  BY <1>4
<1>. QED
  BY <1>5 DEF S

-----------------------------------------------------------------------------
LEMMA KeptByStep ==
  ASSUME NEW V, NEW items \in Seq(V), NEW set
  PROVE  LET kept == KeptOf(items, set)
         IN  /\ kept \in [0..Len(items) -> Seq(V)] /\ kept[0] = <<>>
             /\ \A n \in 0..Len(items) - 1 :
                  kept[n + 1] = IF items[n + 1] \in set THEN Append(kept[n], items[n + 1])
                                ELSE kept[n]
<1>. DEFINE len == Len(items)
            Lists == Seq(V)
            none == <<>>
            Step(list, n) == IF items[n] \in set THEN Append(list, items[n]) ELSE list
            F == [n \in 1..len |-> [list \in Lists |-> Step(list, n)]]
            Body(f) == [n \in 0..len |-> IF n = 0 THEN none ELSE Step(f[n - 1], n)]
            kept == CHOOSE f : f = Body(f)
<1>1. len \in Nat /\ \A n \in 1..len : items[n] \in V
  BY LenProperties, ElementOfSeq
<1>2. none \in Lists
  BY EmptySeq
<1>3. \A list \in Lists, n \in 1..len : Step(list, n) \in Lists
  BY <1>1, AppendProperties
<1>8. KeptOf(items, set) = kept
  BY DEF KeptOf
<1>. HIDE DEF len, Lists, none
<1>4. /\ F \in [1..len -> [Lists -> Lists]]
      /\ \A list \in Lists, n \in 1..len : F[n][list] = Step(list, n)
  <2>. HIDE DEF Step
  <2>. QED
    BY <1>3
<1>. HIDE DEF F, Step
<1>5. PICK g \in [0..len -> Lists] :
        g[0] = none /\ \A n \in 1..len : g[n] = F[n][g[n - 1]]
  <2>1. len \in Nat /\ F \in [1..len -> [Lists -> Lists]]
    BY <1>1, <1>4
  <2>. QED
    BY <1>2, <2>1, Iterates
<1>6. \A n \in 1..len : g[n - 1] \in Lists /\ g[n] = Step(g[n - 1], n)
  BY <1>1, <1>4, <1>5
<1>7. g = Body(g)
  BY <1>1, <1>5, <1>6
<1>9. kept = Body(kept)
  <2>. HIDE DEF Body
  <2>. QED
    BY <1>7
<1>. HIDE DEF kept
<1>10. kept[0] = none /\ \A n \in 1..len : kept[n] = Step(kept[n - 1], n)
  BY <1>1, <1>9
<1>11. kept \in [0..len -> Lists]
  <2>. DEFINE S == {n \in 0..len : kept[n] \in Lists}
  <2>1. kept[0] \in Lists /\ 0 \in 0..len
    BY <1>1, <1>2, <1>10
  <2>2. \A n \in 0..len - 1 : n \in S => n + 1 \in S
    <3>1. \A n \in 0..len - 1 : n + 1 \in 1..len /\ n + 1 - 1 = n
      BY <1>1
    <3>2. \A n \in 0..len - 1 : kept[n + 1] = Step(kept[n], n + 1)
      BY <1>10, <3>1
    <3>. QED
      BY <1>3, <3>1, <3>2
  <2>. HIDE DEF S
  <2>3. \A n \in 0..len : n \in S
    BY <1>1, <2>1, <2>2, UpTo DEF S
  <2>. USE DEF S
  <2>4. DOMAIN kept = 0..len
    BY <1>9
  <2>5. kept = [n \in 0..len |-> kept[n]]
    BY <1>9
  <2>. QED
    BY <2>3, <2>5
<1>12. \A n \in 0..len - 1 : kept[n + 1] = Step(kept[n], n + 1)
  <2>1. \A n \in 0..len - 1 : n + 1 \in 1..len /\ n + 1 - 1 = n
    BY <1>1
  <2>. QED
    BY <1>10, <2>1
<1>. QED
  BY <1>8, <1>10, <1>11, <1>12 DEF len, Step, Lists, none

(* Where the items of a filtered list stand in the list it was made of: in *)
(* the same order, and none that belongs there is left out.                *)
Picks(at, list, items, n, set) ==
  /\ at \in [1..Len(list) -> 1..n]
  /\ \A a, b \in 1..Len(list) : a < b => at[a] < at[b]
  /\ \A a \in 1..Len(list) : list[a] = items[at[a]] /\ items[at[a]] \in set
  /\ \A i \in 1..n : items[i] \in set => \E a \in 1..Len(list) : at[a] = i

LEMMA PicksMore ==
  ASSUME NEW V, NEW items \in Seq(V), NEW set, NEW list \in Seq(V), NEW n \in 0..Len(items) - 1,
         NEW at, Picks(at, list, items, n, set), items[n + 1] \in set
  PROVE  Picks([a \in 1..Len(list) + 1 |-> IF a = Len(list) + 1 THEN n + 1 ELSE at[a]],
               Append(list, items[n + 1]), items, n + 1, set)
<1>. DEFINE more == Append(list, items[n + 1])
            to == [a \in 1..Len(list) + 1 |-> IF a = Len(list) + 1 THEN n + 1 ELSE at[a]]
<1>1. Len(list) \in Nat /\ Len(items) \in Nat /\ n \in Nat /\ n + 1 \in 1..Len(items)
  BY LenProperties
<1>2. items[n + 1] \in V
  BY <1>1, ElementOfSeq
<1>3. /\ Len(more) = Len(list) + 1 /\ more[Len(list) + 1] = items[n + 1]
      /\ \A a \in 1..Len(list) : more[a] = list[a]
  BY <1>2, AppendProperties
<1>. DEFINE len == Len(list)
<1>. HIDE DEF more, len
<1>4. len \in Nat /\ at \in [1..len -> 1..n]
  BY <1>1 DEF len, Picks
<1>. USE DEF len
<1>5. to \in [1..Len(more) -> 1..n + 1]
  BY <1>1, <1>3, <1>4
<1>6. \A a, b \in 1..Len(more) : a < b => to[a] < to[b]
  <2>1. \A a, b \in 1..len : a < b => at[a] < at[b]
    BY DEF Picks
  <2>2. \A a \in 1..len : at[a] < n + 1
    BY <1>1, <1>4
  <2>. QED
    BY <1>1, <1>3, <2>1, <2>2
<1>7. \A a \in 1..Len(more) : more[a] = items[to[a]] /\ items[to[a]] \in set
  <2>1. \A a \in 1..len : list[a] = items[at[a]] /\ items[at[a]] \in set
    BY DEF Picks
  <2>. QED
    BY <1>1, <1>3, <2>1
<1>8. ASSUME NEW i \in 1..n + 1, items[i] \in set PROVE \E a \in 1..Len(more) : to[a] = i
  <2>1. CASE i = n + 1
    BY <1>1, <1>3, <2>1
  <2>2. CASE i # n + 1
    <3>1. i \in 1..n
      BY <1>1, <2>2
    <3>2. PICK a \in 1..len : at[a] = i
      BY <1>8, <3>1 DEF Picks
    <3>. QED
      BY <1>1, <1>3, <3>2
  <2>. QED
    BY <2>1, <2>2
<1>. HIDE DEF to
<1>. QED
  BY <1>5, <1>6, <1>7, <1>8 DEF Picks, more, to

LEMMA KeptPicks ==
  ASSUME NEW V, NEW items \in Seq(V), NEW set
  PROVE  /\ Kept(items, set) \in Seq(V)
         /\ \E at : Picks(at, Kept(items, set), items, Len(items), set)
<1>. DEFINE kept == KeptOf(items, set)
            len == Len(items)
<1>1. /\ kept \in [0..len -> Seq(V)] /\ kept[0] = <<>> /\ Kept(items, set) = kept[len]
      /\ \A n \in 0..len - 1 :
           kept[n + 1] = IF items[n + 1] \in set THEN Append(kept[n], items[n + 1]) ELSE kept[n]
  BY KeptByStep DEF Kept
<1>2. len \in Nat
  BY LenProperties
<1>. HIDE DEF kept, len
<1>. DEFINE S == {n \in 0..len : \E at : Picks(at, kept[n], items, n, set)}
<1>3. 0 \in S
  <2>. DEFINE none == kept[0]
  <2>1. Len(none) = 0
    BY <1>1, EmptySeq
  <2>2. Picks([a \in 1..Len(none) |-> a], none, items, 0, set)
    <3>. HIDE DEF none
    <3>1. 1..Len(none) = {} /\ 1..0 = {}
      BY <2>1
    <3>. QED
      BY <3>1 DEF Picks
  <2>. QED
    BY <1>2, <2>2
<1>4. ASSUME NEW n \in 0..len - 1, n \in S PROVE n + 1 \in S
  <2>. DEFINE list == kept[n]
  <2>1. n + 1 \in 1..len /\ n \in 0..len
    BY <1>2
  <2>2. PICK at : Picks(at, list, items, n, set)
    BY <1>4
  <2>3. CASE items[n + 1] \in set
    <3>1. kept[n + 1] = Append(list, items[n + 1])
      BY <1>1, <2>1, <2>3
    <3>2. list \in Seq(V)
      BY <1>1, <2>1
    <3>. HIDE DEF list
    <3>3. PICK to : Picks(to, Append(list, items[n + 1]), items, n + 1, set)
      <4>1. n \in 0..Len(items) - 1
        BY DEF len
      <4>. QED
        BY <2>2, <2>3, <3>2, <4>1, PicksMore
    <3>4. Picks(to, kept[n + 1], items, n + 1, set)
      BY <3>1, <3>3
    <3>5. n + 1 \in 0..len
      BY <1>2, <2>1
    <3>. QED
      BY <3>4, <3>5
  <2>4. CASE items[n + 1] \notin set
    <3>1. kept[n + 1] = list
      BY <1>1, <2>1, <2>4
    <3>. HIDE DEF list
    <3>2. Picks(at, list, items, n + 1, set)
      <4>1. \A i \in 1..n + 1 : i \in 1..n \/ i = n + 1
        BY <1>2
      <4>2. \A i \in 1..n : i \in 1..n + 1
        BY <1>2
      <4>. QED
        BY <2>2, <2>4, <4>1, <4>2 DEF Picks
    <3>. QED
      BY <2>1, <3>1, <3>2
  <2>. QED
    BY <2>3, <2>4
<1>. HIDE DEF S
<1>5. \A n \in 0..len - 1 : n \in S => n + 1 \in S
  BY <1>4
<1>6. \A n \in 0..len : n \in S
  BY <1>2, <1>3, <1>5, UpTo
<1>7. kept[len] \in Seq(V)
  BY <1>1, <1>2
<1>. QED
  BY <1>1, <1>2, <1>6, <1>7 DEF S, len

(* A filter that lets everything through changes nothing.                  *)
LEMMA KeptWhole ==
  ASSUME NEW V, NEW items \in Seq(V), NEW set, \A i \in 1..Len(items) : items[i] \in set
  PROVE  Kept(items, set) = items
<1>. DEFINE kept == KeptOf(items, set)
            len == Len(items)
<1>1. /\ kept \in [0..len -> Seq(V)] /\ kept[0] = <<>> /\ Kept(items, set) = kept[len]
      /\ \A n \in 0..len - 1 :
           kept[n + 1] = IF items[n + 1] \in set THEN Append(kept[n], items[n + 1]) ELSE kept[n]
  BY KeptByStep DEF Kept
<1>2. len \in Nat
  BY LenProperties
<1>. HIDE DEF kept, len
<1>. DEFINE S == {n \in 0..len : /\ Len(kept[n]) = n
                                        /\ \A i \in 1..n : kept[n][i] = items[i]}
<1>3. 0 \in S
  BY <1>1, <1>2, EmptySeq
<1>4. ASSUME NEW n \in 0..len - 1, n \in S PROVE n + 1 \in S
  <2>1. n + 1 \in 1..len /\ n \in 0..len
    BY <1>2
  <2>2. kept[n + 1] = Append(kept[n], items[n + 1]) /\ kept[n] \in Seq(V)
    <3>1. items[n + 1] \in set
      BY <2>1 DEF len
    <3>. QED
      BY <1>1, <2>1, <3>1
  <2>3. items[n + 1] \in V
    BY <2>1, ElementOfSeq DEF len
  <2>4. Len(kept[n]) = n /\ \A i \in 1..n : kept[n][i] = items[i]
    BY <1>4
  <2>5. /\ Len(kept[n + 1]) = n + 1 /\ kept[n + 1][n + 1] = items[n + 1]
        /\ \A i \in 1..n : kept[n + 1][i] = kept[n][i]
    BY <2>2, <2>3, <2>4, AppendProperties
  <2>6. \A i \in 1..n + 1 : i \in 1..n \/ i = n + 1
    BY <2>1
  <2>. QED
    BY <2>1, <2>4, <2>5, <2>6
<1>. HIDE DEF S
<1>5. \A n \in 0..len - 1 : n \in S => n + 1 \in S
  BY <1>4
<1>6. \A n \in 0..len : n \in S
  BY <1>2, <1>3, <1>5, UpTo
<1>7. kept[len] \in Seq(V)
  BY <1>1, <1>2
<1>8. /\ Len(kept[len]) = len
      /\ \A i \in 1..len : kept[len][i] = items[i]
  BY <1>2, <1>6 DEF S
<1>. QED
  BY <1>1, <1>7, <1>8, SeqEqual DEF len

LEMMA SeenByStep ==
  ASSUME NEW V, NEW items \in Seq(V)
  PROVE  LET seen == SeenOf(items)
         IN  /\ seen \in [0..Len(items) -> Seq(V)] /\ seen[0] = <<>>
             /\ \A n \in 0..Len(items) - 1 :
                  seen[n + 1] = IF items[n + 1] \in Range(seen[n]) THEN seen[n]
                                ELSE Append(seen[n], items[n + 1])
<1>. DEFINE len == Len(items)
            Lists == Seq(V)
            none == <<>>
            Step(list, n) == IF items[n] \in Range(list) THEN list ELSE Append(list, items[n])
            F == [n \in 1..len |-> [list \in Lists |-> Step(list, n)]]
            Body(f) == [n \in 0..len |-> IF n = 0 THEN none ELSE Step(f[n - 1], n)]
            seen == CHOOSE f : f = Body(f)
<1>1. len \in Nat /\ \A n \in 1..len : items[n] \in V
  BY LenProperties, ElementOfSeq
<1>2. none \in Lists
  BY EmptySeq
<1>3. \A list \in Lists, n \in 1..len : Step(list, n) \in Lists
  BY <1>1, AppendProperties
<1>4. SeenOf(items) = seen
  BY DEF SeenOf
<1>. HIDE DEF len, Lists, none
<1>5. /\ F \in [1..len -> [Lists -> Lists]]
      /\ \A list \in Lists, n \in 1..len : F[n][list] = Step(list, n)
  <2>. HIDE DEF Step
  <2>. QED
    BY <1>3
<1>. HIDE DEF F, Step
<1>6. PICK g \in [0..len -> Lists] : g[0] = none /\ \A n \in 1..len : g[n] = F[n][g[n - 1]]
  <2>1. len \in Nat /\ F \in [1..len -> [Lists -> Lists]]
    BY <1>1, <1>5
  <2>. QED
    BY <1>2, <2>1, Iterates
<1>7. \A n \in 1..len : g[n - 1] \in Lists /\ g[n] = Step(g[n - 1], n)
  BY <1>1, <1>5, <1>6
<1>8. g = Body(g)
  BY <1>1, <1>6, <1>7
<1>9. seen = Body(seen)
  <2>. HIDE DEF Body
  <2>. QED
    BY <1>8
<1>. HIDE DEF seen
<1>10. seen[0] = none /\ \A n \in 1..len : seen[n] = Step(seen[n - 1], n)
  BY <1>1, <1>9
<1>11. \A n \in 0..len - 1 : n + 1 \in 1..len /\ seen[n + 1] = Step(seen[n], n + 1)
  <2>1. \A n \in 0..len - 1 : n + 1 \in 1..len /\ n + 1 - 1 = n
    BY <1>1
  <2>. QED
    BY <1>10, <2>1
<1>12. seen \in [0..len -> Lists]
  <2>. DEFINE S == {n \in 0..len : seen[n] \in Lists}
  <2>1. seen[0] \in Lists /\ 0 \in 0..len
    BY <1>1, <1>2, <1>10
  <2>2. \A n \in 0..len - 1 : n \in S => n + 1 \in S
    BY <1>1, <1>3, <1>11
  <2>3. 0 \in S
    BY <2>1
  <2>. HIDE DEF S
  <2>4. \A n \in 0..len : n \in S
    BY <1>1, <2>2, <2>3, UpTo
  <2>5. seen = [n \in 0..len |-> seen[n]]
    BY <1>9
  <2>. QED
    BY <2>4, <2>5 DEF S
<1>. QED
  BY <1>4, <1>10, <1>11, <1>12 DEF len, Step, Lists, none

(* Where the items of a list without repeats stand in the list it was made *)
(* of: each where it first stands there, so in the same order, and all of  *)
(* them.                                                                   *)
Firsts(at, list, items, n) ==
  /\ at \in [1..Len(list) -> 1..n]
  /\ \A a, b \in 1..Len(list) : a < b => at[a] < at[b]
  /\ \A a \in 1..Len(list) :
       list[a] = items[at[a]] /\ \A i \in 1..n : i < at[a] => items[i] # items[at[a]]
  /\ \A i \in 1..n : \E a \in 1..Len(list) : list[a] = items[i]

LEMMA FirstsMore ==
  ASSUME NEW V, NEW items \in Seq(V), NEW list \in Seq(V), NEW n \in 0..Len(items) - 1,
         NEW at, Firsts(at, list, items, n), items[n + 1] \notin Range(list)
  PROVE  Firsts([a \in 1..Len(list) + 1 |-> IF a = Len(list) + 1 THEN n + 1 ELSE at[a]],
                Append(list, items[n + 1]), items, n + 1)
<1>. DEFINE more == Append(list, items[n + 1])
            to == [a \in 1..Len(list) + 1 |-> IF a = Len(list) + 1 THEN n + 1 ELSE at[a]]
<1>1. Len(list) \in Nat /\ Len(items) \in Nat /\ n \in Nat /\ n + 1 \in 1..Len(items)
  BY LenProperties
<1>2. items[n + 1] \in V
  BY <1>1, ElementOfSeq
<1>3. /\ Len(more) = Len(list) + 1 /\ more[Len(list) + 1] = items[n + 1]
      /\ \A a \in 1..Len(list) : more[a] = list[a]
  BY <1>2, AppendProperties
<1>4. \A a \in 1..Len(list) : list[a] # items[n + 1]
  BY RangeEquality
<1>. DEFINE len == Len(list)
<1>. HIDE DEF more, len
<1>5. len \in Nat /\ at \in [1..len -> 1..n]
  BY <1>1 DEF len, Firsts
<1>. USE DEF len
<1>6. to \in [1..Len(more) -> 1..n + 1]
  BY <1>1, <1>3, <1>5
<1>7. \A a, b \in 1..Len(more) : a < b => to[a] < to[b]
  <2>1. \A a, b \in 1..len : a < b => at[a] < at[b]
    BY DEF Firsts
  <2>2. \A a \in 1..len : at[a] < n + 1
    BY <1>1, <1>5
  <2>. QED
    BY <1>1, <1>3, <2>1, <2>2
<1>8. ASSUME NEW i \in 1..n + 1 PROVE \E a \in 1..Len(more) : more[a] = items[i]
  <2>1. CASE i = n + 1
    BY <1>1, <1>3, <2>1
  <2>2. CASE i # n + 1
    <3>1. i \in 1..n
      BY <1>1, <2>2
    <3>2. PICK a \in 1..len : list[a] = items[i]
      BY <3>1 DEF Firsts
    <3>. QED
      BY <1>1, <1>3, <3>2
  <2>. QED
    BY <2>1, <2>2
<1>9. ASSUME NEW a \in 1..Len(more)
      PROVE  /\ more[a] = items[to[a]]
             /\ \A i \in 1..n + 1 : i < to[a] => items[i] # items[to[a]]
  <2>1. CASE a = len + 1
    <3>1. to[a] = n + 1 /\ more[a] = items[n + 1]
      BY <1>1, <1>3, <2>1
    <3>2. ASSUME NEW i \in 1..n PROVE items[i] # items[n + 1]
      <4>1. PICK b \in 1..len : list[b] = items[i]
        BY DEF Firsts
      <4>. QED
        BY <1>4, <4>1
    <3>3. \A i \in 1..n + 1 : i < n + 1 => i \in 1..n
      BY <1>1
    <3>. QED
      BY <3>1, <3>2, <3>3
  <2>2. CASE a # len + 1
    <3>1. a \in 1..len /\ to[a] = at[a] /\ more[a] = list[a] /\ at[a] \in 1..n
      BY <1>1, <1>3, <1>5, <2>2
    <3>2. \A i \in 1..n + 1 : i < at[a] => i \in 1..n
      BY <1>1, <3>1
    <3>3. list[a] = items[at[a]] /\ \A i \in 1..n : i < at[a] => items[i] # items[at[a]]
      BY <3>1 DEF Firsts
    <3>. QED
      BY <3>1, <3>2, <3>3
  <2>. QED
    BY <2>1, <2>2
<1>. HIDE DEF to
<1>. QED
  BY <1>6, <1>7, <1>8, <1>9 DEF Firsts, more, to

LEMMA DistinctFirsts ==
  ASSUME NEW V, NEW items \in Seq(V)
  PROVE  /\ Distinct(items) \in Seq(V)
         /\ \E at : Firsts(at, Distinct(items), items, Len(items))
<1>. DEFINE seen == SeenOf(items)
            len == Len(items)
<1>1. /\ seen \in [0..len -> Seq(V)] /\ seen[0] = <<>> /\ Distinct(items) = seen[len]
      /\ \A n \in 0..len - 1 :
           seen[n + 1] = IF items[n + 1] \in Range(seen[n]) THEN seen[n]
                         ELSE Append(seen[n], items[n + 1])
  BY SeenByStep DEF Distinct
<1>2. len \in Nat
  BY LenProperties
<1>. HIDE DEF seen, len
<1>. DEFINE S == {n \in 0..len : \E at : Firsts(at, seen[n], items, n)}
<1>3. 0 \in S
  <2>. DEFINE none == seen[0]
  <2>1. Len(none) = 0
    BY <1>1, EmptySeq
  <2>2. Firsts([a \in 1..Len(none) |-> a], none, items, 0)
    <3>. HIDE DEF none
    <3>1. 1..Len(none) = {} /\ 1..0 = {}
      BY <2>1
    <3>. QED
      BY <3>1 DEF Firsts
  <2>. QED
    BY <1>2, <2>2
<1>4. ASSUME NEW n \in 0..len - 1, n \in S PROVE n + 1 \in S
  <2>. DEFINE list == seen[n]
  <2>1. n + 1 \in 1..len /\ n \in 0..len /\ n + 1 \in 0..len
    BY <1>2
  <2>2. PICK at : Firsts(at, list, items, n)
    BY <1>4
  <2>3. list \in Seq(V)
    BY <1>1, <2>1
  <2>4. CASE items[n + 1] \notin Range(list)
    <3>1. seen[n + 1] = Append(list, items[n + 1])
      BY <1>1, <2>1, <2>4
    <3>. HIDE DEF list
    <3>2. PICK to : Firsts(to, Append(list, items[n + 1]), items, n + 1)
      <4>1. n \in 0..Len(items) - 1
        BY DEF len
      <4>. QED
        BY <2>2, <2>3, <2>4, <4>1, FirstsMore
    <3>3. Firsts(to, seen[n + 1], items, n + 1)
      BY <3>1, <3>2
    <3>. QED
      BY <2>1, <3>3
  <2>5. CASE items[n + 1] \in Range(list)
    <3>1. seen[n + 1] = list
      BY <1>1, <2>1, <2>5
    <3>. HIDE DEF list
    <3>2. PICK b \in 1..Len(list) : list[b] = items[n + 1]
      BY <2>3, <2>5, RangeEquality
    <3>3. Firsts(at, list, items, n + 1)
      <4>1. \A i \in 1..n + 1 : i \in 1..n \/ i = n + 1
        BY <1>2
      <4>2. \A i \in 1..n : i \in 1..n + 1 /\ i < n + 1
        BY <1>2
      <4>3. at \in [1..Len(list) -> 1..n + 1]
        BY <2>2, <4>2 DEF Firsts
      <4>4. \A i \in 1..n + 1 : \E a \in 1..Len(list) : list[a] = items[i]
        BY <2>2, <3>2, <4>1 DEF Firsts
      <4>5. \A a \in 1..Len(list) :
              /\ list[a] = items[at[a]]
              /\ \A i \in 1..n + 1 : i < at[a] => items[i] # items[at[a]]
        <5>1. \A a \in 1..Len(list) : at[a] \in 1..n
          BY <2>2 DEF Firsts
        <5>2. \A a \in 1..Len(list) : \A i \in 1..n + 1 : i < at[a] => i \in 1..n
          BY <1>2, <5>1
        <5>. QED
          BY <2>2, <5>2 DEF Firsts
      <4>. QED
        BY <2>2, <4>3, <4>4, <4>5 DEF Firsts
    <3>4. Firsts(at, seen[n + 1], items, n + 1)
      BY <3>1, <3>3
    <3>. QED
      BY <2>1, <3>4
  <2>. QED
    BY <2>4, <2>5
<1>. HIDE DEF S
<1>5. \A n \in 0..len - 1 : n \in S => n + 1 \in S
  BY <1>4
<1>6. \A n \in 0..len : n \in S
  BY <1>2, <1>3, <1>5, UpTo
<1>7. seen[len] \in Seq(V)
  BY <1>1, <1>2
<1>. QED
  BY <1>1, <1>2, <1>6, <1>7 DEF S, len

-----------------------------------------------------------------------------
(* What is in a list after a filter, after removing repeats, and after     *)
(* joining lists.                                                          *)
LEMMA KeptRange ==
  ASSUME NEW V, NEW items \in Seq(V), NEW set
  PROVE  Range(Kept(items, set)) = Range(items) \cap set
<1>. DEFINE list == Kept(items, set)
            n == Len(items)
            len == Len(list)
<1>1. list \in Seq(V)
  BY KeptPicks
<1>2. PICK at : Picks(at, list, items, n, set)
  BY KeptPicks
<1>3. Range(list) = {list[a] : a \in 1..len} /\ Range(items) = {items[i] : i \in 1..n}
  BY <1>1, RangeEquality
<1>. HIDE DEF list, n, len
<1>4. /\ at \in [1..len -> 1..n]
      /\ \A a \in 1..len : list[a] = items[at[a]] /\ items[at[a]] \in set
      /\ \A i \in 1..n : items[i] \in set => \E a \in 1..len : at[a] = i
  BY <1>2 DEF Picks, len
<1>. QED
  BY <1>3, <1>4 DEF list

LEMMA DistinctRange ==
  ASSUME NEW V, NEW items \in Seq(V)
  PROVE  Range(Distinct(items)) = Range(items)
<1>. DEFINE list == Distinct(items)
            n == Len(items)
            len == Len(list)
<1>1. list \in Seq(V)
  BY DistinctFirsts
<1>2. PICK at : Firsts(at, list, items, n)
  BY DistinctFirsts
<1>3. Range(list) = {list[a] : a \in 1..len} /\ Range(items) = {items[i] : i \in 1..n}
  BY <1>1, RangeEquality
<1>. HIDE DEF list, n, len
<1>4. /\ at \in [1..len -> 1..n]
      /\ \A a \in 1..len : list[a] = items[at[a]]
      /\ \A i \in 1..n : \E a \in 1..len : list[a] = items[i]
  BY <1>2 DEF Firsts, len
<1>. QED
  BY <1>3, <1>4 DEF list

(* (Named, so that no proof has the theory of sequences to fight with.)    *)
ListsOfLists(V) == Seq(Seq(V)) \ {<<>>}

LEMMA FlattenByStep ==
  ASSUME NEW V, NEW seqs \in ListsOfLists(V)
  PROVE  \E flat \in [1..Len(seqs) -> Seq(V)] :
            /\ flat[1] = seqs[1] /\ FlattenSeq(seqs) = flat[Len(seqs)]
            /\ \A n \in 1..Len(seqs) - 1 : flat[n + 1] = flat[n] \o seqs[n + 1]
<1>. DEFINE len == Len(seqs)
            m == len - 1
            L == Seq(V)
            Cat(list, more) == list \o more
            F == [n \in 1..m |-> [list \in L |-> Cat(list, seqs[n + 1])]]
            Body(f) == [n \in 1..len |-> IF n = 1 THEN seqs[n] ELSE Cat(f[n - 1], seqs[n])]
            flat == CHOOSE f : f = Body(f)
            start == seqs[1]
<1>1. len \in Nat /\ len # 0 /\ \A n \in 1..len : seqs[n] \in L
  BY EmptySeq, LenProperties, ElementOfSeq DEF ListsOfLists
<1>2. \A list, more \in L : Cat(list, more) \in L
  BY ConcatProperties
<1>3. FlattenSeq(seqs) = flat[len]
  BY <1>1 DEF FlattenSeq
<1>. HIDE DEF len, L, Cat
<1>4. m \in Nat /\ len = m + 1
  BY <1>1
<1>. HIDE DEF m
<1>5. start \in L /\ \A n \in 1..m : n + 1 \in 1..len /\ n \in 1..len /\ n + 1 - 1 = n
  BY <1>1, <1>4
<1>6. /\ F \in [1..m -> [L -> L]]
      /\ \A n \in 1..m, list \in L : F[n][list] = Cat(list, seqs[n + 1])
  BY <1>1, <1>2, <1>5
<1>. HIDE DEF F, start
<1>7. PICK g \in [0..m -> L] : g[0] = start /\ \A n \in 1..m : g[n] = F[n][g[n - 1]]
  <2>1. m \in Nat /\ start \in L /\ F \in [1..m -> [L -> L]]
    BY <1>5, <1>6, <1>4
  <2>. QED
    BY <2>1, Iterates, Z3
<1>. DEFINE f == [n \in 1..len |-> g[n - 1]]
<1>8. f = Body(f)
  <2>1. f[1] = seqs[1]
    BY <1>7, <1>4 DEF start
  <2>2. ASSUME NEW n \in 1..len, n # 1 PROVE f[n] = Cat(f[n - 1], seqs[n])
    <3>1. n - 1 \in 1..m /\ n - 1 \in 1..len /\ n - 1 + 1 = n /\ n - 1 - 1 \in 0..m
      BY <2>2, <1>4
    <3>2. f[n] = g[n - 1] /\ f[n - 1] = g[n - 1 - 1]
      BY <3>1
    <3>3. g[n - 1] = F[n - 1][g[n - 1 - 1]]
      BY <1>7, <3>1
    <3>4. g[n - 1 - 1] \in L
      BY <3>1
    <3>5. F[n - 1][g[n - 1 - 1]] = Cat(g[n - 1 - 1], seqs[n - 1 + 1])
      BY <1>6, <3>1, <3>4
    <3>. QED
      BY <3>1, <3>2, <3>3, <3>5
  <2>. HIDE DEF f
  <2>3. f = [n \in 1..len |-> f[n]]
    BY DEF f
  <2>. QED
    BY <2>1, <2>2, <2>3
<1>9. flat = Body(flat)
  <2>. HIDE DEF Body, f
  <2>. QED
    BY <1>8
<1>. HIDE DEF flat, f
<1>10. \A n \in 1..len : flat[n] = IF n = 1 THEN seqs[n] ELSE Cat(flat[n - 1], seqs[n])
  BY <1>9
<1>11. flat[1] = start
  BY <1>10, <1>4 DEF start
<1>12. ASSUME NEW n \in 1..m PROVE flat[n + 1] = Cat(flat[n], seqs[n + 1])
  <2>1. n + 1 \in 1..len /\ n + 1 # 1 /\ n + 1 - 1 = n
    BY <1>4
  <2>2. flat[n + 1] = Cat(flat[n + 1 - 1], seqs[n + 1])
    BY <1>10, <2>1
  <2>. QED
    BY <2>1, <2>2
<1>13. flat \in [1..len -> L]
  <2>. DEFINE S == {n \in 0..m : flat[n + 1] \in L}
  <2>1. 0 \in S
    BY <1>5, <1>11, <1>4
  <2>2. ASSUME NEW n \in 0..m - 1, n \in S PROVE n + 1 \in S
    <3>1. n + 1 \in 1..m /\ n + 1 \in 0..m
      BY <1>4
    <3>2. flat[n + 1] \in L
      BY <2>2
    <3>3. flat[n + 1 + 1] = F[n + 1][flat[n + 1]]
      BY <1>6, <1>12, <3>1, <3>2
    <3>4. F[n + 1][flat[n + 1]] \in L
      BY <1>6, <3>1, <3>2
    <3>. QED
      BY <3>1, <3>3, <3>4
  <2>. HIDE DEF S
  <2>3. \A n \in 0..m - 1 : n \in S => n + 1 \in S
    BY <2>2
  <2>4. \A n \in 0..m : n \in S
    BY <2>1, <2>3, <1>4, UpTo
  <2>5. \A n \in 1..len : n - 1 \in 0..m /\ n - 1 + 1 = n
    BY <1>4
  <2>6. \A n \in 1..len : flat[n] \in L
    BY <2>4, <2>5 DEF S
  <2>7. flat = [n \in 1..len |-> flat[n]]
    BY <1>9
  <2>. QED
    BY <2>6, <2>7
<1>. QED
  BY <1>3, <1>11, <1>12, <1>13 DEF len, L, m, Cat, start

LEMMA FlattenRange ==
  ASSUME NEW V, NEW seqs \in Seq(Seq(V))
  PROVE  /\ FlattenSeq(seqs) \in Seq(V)
         /\ Range(FlattenSeq(seqs)) = UNION {Range(seqs[i]) : i \in 1..Len(seqs)}
<1>1. CASE seqs = <<>>
  <2>1. FlattenSeq(seqs) = <<>> /\ 1..Len(seqs) = {}
    BY <1>1, EmptySeq DEF FlattenSeq
  <2>2. <<>> \in Seq(V) /\ Range(<<>>) = {}
    <3>1. <<>> \in Seq(V) /\ 1..Len(<<>>) = {}
      BY EmptySeq
    <3>2. DOMAIN <<>> = {}
      BY <3>1, LenProperties
    <3>. QED
      BY <3>1, <3>2 DEF Range
  <2>. QED
    BY <2>1, <2>2
<1>2. CASE seqs # <<>>
  <2>. DEFINE len == Len(seqs)
              Joined(n) == UNION {Range(seqs[i]) : i \in 1..n}
  <2>1. PICK flat \in [1..len -> Seq(V)] :
          /\ flat[1] = seqs[1] /\ FlattenSeq(seqs) = flat[len]
          /\ \A n \in 1..len - 1 : flat[n + 1] = flat[n] \o seqs[n + 1]
    BY <1>2, FlattenByStep DEF ListsOfLists
  <2>2. len \in Nat \ {0} /\ \A n \in 1..len : seqs[n] \in Seq(V)
    BY <1>2, EmptySeq, LenProperties, ElementOfSeq
  <2>. HIDE DEF len
  <2>. DEFINE S == {n \in 0..len - 1 : Range(flat[n + 1]) = Joined(n + 1)}
  <2>3. 0 \in S
    <3>1. Joined(1) = Range(seqs[1])
      <4>1. \A i \in 1..1 : i = 1
        OBVIOUS
      <4>2. {Range(seqs[i]) : i \in 1..1} = {Range(seqs[1])}
        BY <4>1
      <4>. QED
        BY <4>2
    <3>. HIDE DEF Joined
    <3>. QED
      BY <2>1, <2>2, <3>1
  <2>4. ASSUME NEW n \in 0..len - 1 - 1, n \in S PROVE n + 1 \in S
    <3>1. n + 1 \in 1..len - 1 /\ n + 1 \in 0..len - 1 /\ n + 1 + 1 \in 1..len /\ n + 1 \in 1..len
      BY <2>2
    <3>2. flat[n + 1] \in Seq(V) /\ seqs[n + 1 + 1] \in Seq(V)
      BY <2>1, <2>2, <3>1
    <3>3. flat[n + 1 + 1] = flat[n + 1] \o seqs[n + 1 + 1]
      BY <2>1, <3>1
    <3>4. Range(flat[n + 1 + 1]) = Range(flat[n + 1]) \cup Range(seqs[n + 1 + 1])
      BY <3>2, <3>3, RangeConcatenation
    <3>5. Joined(n + 1 + 1) = Joined(n + 1) \cup Range(seqs[n + 1 + 1])
      <4>1. \A i : i \in 1..n + 1 + 1 <=> i \in 1..n + 1 \/ i = n + 1 + 1
        BY <2>2
      <4>. QED
        BY <4>1
    <3>. HIDE DEF Joined
    <3>. QED
      BY <2>4, <3>1, <3>4, <3>5
  <2>. DEFINE m == len - 1
  <2>5. m \in Nat /\ \A n \in 0..m - 1 : n \in S => n + 1 \in S
    <3>. HIDE DEF S
    <3>. QED
      BY <2>2, <2>4
  <2>. HIDE DEF S, m, Joined
  <2>6. \A n \in 0..m : n \in S
    BY <2>3, <2>5, UpTo
  <2>7. m \in 0..m /\ m + 1 = len
    BY <2>2, <2>5 DEF m
  <2>8. Range(flat[len]) = Joined(len)
    BY <2>6, <2>7 DEF S
  <2>9. flat[len] \in Seq(V)
    BY <2>1, <2>2
  <2>. QED
    BY <2>1, <2>8, <2>9 DEF len, Joined
<1>. QED
  BY <1>1, <1>2

(* As many items as there were lists, none of them empty: one from each.   *)
LEMMA FlattenSingles ==
  ASSUME NEW V, NEW seqs \in ListsOfLists(V),
         \A i \in 1..Len(seqs) : seqs[i] # <<>>,
         Len(FlattenSeq(seqs)) = Len(seqs)
  PROVE  \A i \in 1..Len(seqs) : seqs[i] = <<FlattenSeq(seqs)[i]>>
<1>. DEFINE len == Len(seqs)
            L == Seq(V)
<1>1. PICK flat \in [1..len -> L] :
        /\ flat[1] = seqs[1] /\ FlattenSeq(seqs) = flat[len]
        /\ \A n \in 1..len - 1 : flat[n + 1] = flat[n] \o seqs[n + 1]
  BY FlattenByStep
<1>2. len \in Nat \ {0} /\ \A n \in 1..len : seqs[n] \in L
  BY EmptySeq, LenProperties, ElementOfSeq DEF ListsOfLists
<1>3. \A n \in 1..len : Len(seqs[n]) \in Nat \ {0}
  BY <1>2, EmptySeq, LenProperties
<1>4. Len(flat[len]) = len
  BY <1>1
<1>. DEFINE One(n, i) == seqs[i] = <<flat[n][i]>>
            Fits(n) == Len(flat[n]) \in Nat /\ Len(flat[n]) >= n
                       /\ (Len(flat[n]) = n => \A i \in 1..n : One(n, i))
            m == len - 1
            S == {n \in 0..m : Fits(n + 1)}
<1>5. ASSUME NEW list \in L, Len(list) = 1 PROVE list = <<list[1]>>
  BY <1>5
<1>. HIDE DEF len, L
<1>6. m \in Nat /\ m + 1 = len
  BY <1>2
<1>7. 0 \in S
  <2>1. 1 \in 1..len /\ \A i \in 1..1 : i = 1
    BY <1>2
  <2>2. Len(seqs[1]) = 1 => One(1, 1)
    BY <1>1, <1>2, <1>5, <2>1
  <2>3. Fits(1)
    BY <1>1, <1>3, <2>1, <2>2
  <2>. QED
    BY <1>6, <2>3
<1>8. ASSUME NEW n \in 0..m - 1, n \in S PROVE n + 1 \in S
  <2>1. /\ n + 1 \in 1..len - 1 /\ n + 1 \in 0..m /\ n + 1 + 1 \in 1..len /\ n + 1 \in 1..len
        /\ n \in Nat
    BY <1>6
  <2>. DEFINE j == n + 1
              k == n + 1 + 1
              head == flat[j]
              tail == seqs[k]
  <2>2. head \in L /\ tail \in L /\ flat[k] = head \o tail
    BY <1>1, <1>2, <2>1
  <2>3. /\ Len(flat[k]) = Len(head) + Len(tail)
        /\ \A i \in 1..Len(head) : flat[k][i] = head[i]
        /\ \A i \in 1..Len(tail) : flat[k][Len(head) + i] = tail[i]
    <3>. HIDE DEF head, tail, k, S, Fits
    <3>1. /\ Len(head \o tail) = Len(head) + Len(tail)
          /\ \A i \in 1..Len(head) + Len(tail) :
               (head \o tail)[i] = IF i <= Len(head) THEN head[i] ELSE tail[i - Len(head)]
      BY <2>2, ConcatProperties DEF L
    <3>2. Len(head) \in Nat /\ Len(tail) \in Nat
      BY <2>2, LenProperties DEF L
    <3>3. ASSUME NEW i \in 1..Len(tail) PROVE (head \o tail)[Len(head) + i] = tail[i]
      <4>1. /\ Len(head) + i \in 1..Len(head) + Len(tail) /\ ~(Len(head) + i <= Len(head))
            /\ Len(head) + i - Len(head) = i
        BY <3>2
      <4>. QED
        BY <3>1, <4>1
    <3>4. ASSUME NEW i \in 1..Len(head) PROVE (head \o tail)[i] = head[i]
      <4>1. i \in 1..Len(head) + Len(tail) /\ i <= Len(head)
        BY <3>2
      <4>. QED
        BY <3>1, <4>1
    <3>. QED
      BY <2>2, <3>1, <3>3, <3>4
  <2>4. Fits(j)
    BY <1>8
  <2>5. Len(tail) \in Nat \ {0}
    BY <1>3, <2>1
  <2>. HIDE DEF head, tail, One
  <2>6. Len(flat[k]) \in Nat /\ Len(flat[k]) >= k
    BY <2>1, <2>3, <2>4, <2>5 DEF head
  <2>7. ASSUME Len(flat[k]) = k PROVE \A i \in 1..k : One(k, i)
    <3>1. Len(head) = j /\ Len(tail) = 1
      <4>1. j \in Nat /\ k = j + 1
        BY <2>1
      <4>2. Len(head) \in Nat /\ Len(head) >= j
        BY <2>4 DEF head
      <4>3. Len(head) + Len(tail) = j + 1
        BY <2>3, <2>7
      <4>4. ASSUME NEW a \in Nat, NEW b \in Nat \ {0}, NEW c \in Nat, a >= c, a + b = c + 1
            PROVE  a = c /\ b = 1
        BY <4>4
      <4>. HIDE DEF j, k, Fits, S
      <4>. QED
        BY <2>5, <4>1, <4>2, <4>3, <4>4
    <3>2. ASSUME NEW i \in 1..j PROVE One(k, i)
      <4>1. One(j, i) /\ flat[k][i] = head[i]
        BY <2>3, <2>4, <3>1 DEF head
      <4>. QED
        BY <4>1 DEF One, head
    <3>3. One(k, k)
      <4>1. 1 \in 1..Len(tail) /\ Len(head) + 1 = k
        BY <3>1
      <4>2. flat[k][k] = tail[1]
        BY <2>3, <4>1
      <4>3. tail = <<tail[1]>>
        BY <1>5, <2>2, <3>1
      <4>. QED
        BY <4>2, <4>3 DEF One, tail
    <3>4. \A i \in 1..k : i \in 1..j \/ i = k
      BY <2>1
    <3>. QED
      BY <3>2, <3>3, <3>4
  <2>8. Fits(n + 1 + 1)
    BY <2>6, <2>7
  <2>. QED
    BY <2>1, <2>8
<1>9. \A n \in 0..m - 1 : n \in S => n + 1 \in S
  BY <1>8
<1>10. m \in S
  <2>. HIDE DEF S, m
  <2>1. \A n \in 0..m : n \in S
    BY <1>6, <1>7, <1>9, UpTo
  <2>. QED
    BY <1>6, <2>1
<1>11. Fits(len)
  BY <1>6, <1>10
<1>12. \A i \in 1..len : One(len, i)
  BY <1>4, <1>11
<1>. QED
  BY <1>1, <1>12 DEF len

-----------------------------------------------------------------------------
(* Comma-separated values.                                                 *)
LEMMA EmptyRange ==
  ASSUME NEW V, NEW list \in Seq(V), Range(list) = {}
  PROVE  list = <<>>
<1>1. Len(list) \in Nat /\ 1..Len(list) = {}
  BY RangeEquality, LenProperties
<1>2. Len(list) = 0
  BY <1>1
<1>. QED
  BY <1>2, EmptySeq

LEMMA ListedRange ==
  ASSUME NEW V, NEW items \in Seq(V)
  PROVE  Listed(items) \in Seq(V) /\ Range(Listed(items)) = Range(items) \ {""}
<1>1. Range(Listed(items)) = Range(items) \cap (Range(items) \ {""})
  BY KeptRange DEF Listed
<1>. QED
  BY <1>1, KeptPicks DEF Listed

LEMMA ListedWhole ==
  ASSUME NEW V, NEW items \in Seq(V), "" \notin Range(items)
  PROVE  Listed(items) = items
<1>1. \A i \in 1..Len(items) : items[i] \in Range(items) \ {""}
  BY RangeEquality
<1>. QED
  BY <1>1, KeptWhole DEF Listed

LEMMA ListedNothing == Listed(<<"">>) = <<>>
<1>1. <<"">> \in Seq({""}) /\ Range(<<"">>) = {""}
  <2>. DEFINE list == <<"">>
  <2>1. list \in Seq({""}) /\ Len(list) = 1 /\ list[1] = ""
    OBVIOUS
  <2>. HIDE DEF list
  <2>2. Range(list) = {list[i] : i \in 1..1}
    BY <2>1, RangeEquality
  <2>3. Range(list) = {""}
    <3>1. 1 \in 1..1 /\ \A i \in 1..1 : i = 1
      OBVIOUS
    <3>2. \A x \in Range(list) : x = ""
      BY <2>1, <2>2, <3>1
    <3>3. "" \in Range(list)
      BY <2>1, <2>2, <3>1
    <3>. QED
      BY <3>2, <3>3
  <2>. QED
    BY <2>1, <2>3 DEF list
<1>2. Range(Listed(<<"">>)) = {} /\ Listed(<<"">>) \in Seq({""})
  BY <1>1, ListedRange
<1>. QED
  BY <1>2, EmptyRange
=============================================================================
