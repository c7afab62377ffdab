------------------------- MODULE WorkflowSagaProofs --------------------------
(* What every proof about WorkflowNodes rests on (lists, the operators of the      *)
(* model, types), and that the nodes of a workflow, as its advances, halts,       *)
(* cancellations and losses leave them, implement Saga, for every set of accepted *)
(* definitions and every answer of adapters, predicates and people.               *)
(* WorkflowNodesProofs goes on with the deaths of the process.                    *)
(*                                                                              *)
(* The argument.  Until a wave is committed its outcomes are only promises, so    *)
(* the invariant says what each of them will be worth: a node that is being       *)
(* advanced, and a result that is waiting for its commit, is of an open node      *)
(* whose dependencies are met; and unless the run has moved since the wave began, *)
(* the wave's base is the stored run, a rollback works on compensations only, and *)
(* a compensation is there only after a failure and for a verified operation.     *)
EXTENDS WorkflowNodes, FiniteSetTheorems, SequenceTheorems, WellFoundedInduction, TLAPS

\* Induction on the natural numbers, for the membership of a set.
LEMMA Induction ==
    ASSUME NEW S, 0 \in S, \A i \in Nat : i \in S => i + 1 \in S
    PROVE  \A i \in Nat : i \in S
<1> DEFINE R == OpToRel(<, Nat)
           T == Nat \ S
<1> SUFFICES ASSUME T # {} PROVE FALSE
    OBVIOUS
<1>1. PICK u \in T : \A v \in T : ~(<<v, u>> \in R)
  <2>1. T \subseteq Nat
    OBVIOUS
  <2> HIDE DEF T, R
  <2>2. IsWellFoundedOn(R, Nat)
    BY NatLessThanWellFounded DEF R
  <2> QED
    BY <2>1, <2>2, WFMin
<1>2. \A v \in T : ~(v < u)
    BY <1>1 DEF OpToRel
<1>3. u # 0 /\ u - 1 \in Nat /\ u - 1 < u /\ (u - 1) + 1 = u
    OBVIOUS
<1>4. u - 1 \in S
    BY <1>2, <1>3
<1> QED
    BY <1>3, <1>4

-----------------------------------------------------------------------------
(* Lists.                                                                      *)

\* What Among has kept of a list after each of its elements.
LEMMA AmongSteps ==
    ASSUME NEW S, NEW list \in Seq(S), NEW set
    PROVE  \E kept :
              /\ kept[0] = <<>>
              /\ \A i \in 1..Len(list) :
                    kept[i] = IF list[i] \in set THEN Append(kept[i - 1], list[i])
                                                 ELSE kept[i - 1]
              /\ Among(list, set) = kept[Len(list)]
<1> DEFINE n == Len(list)
           Step1(g, i) == IF i = 0 THEN <<>>
                          ELSE IF list[i] \in set THEN Append(g[i - 1], list[i]) ELSE g[i - 1]
           M == {m \in Nat : \E g : \A i \in 0..m : g[i] = Step1(g, i)}
           Body(f) == [i \in 0..n |-> Step1(f, i)]
<1>0. n \in Nat
    OBVIOUS
<1>1. 0 \in M
  <2>1. \A i \in 0..0 : [m \in {0} |-> <<>>][i] = Step1([m \in {0} |-> <<>>], i)
    OBVIOUS
  <2> QED
    BY <2>1
<1>2. ASSUME NEW m \in Nat, m \in M PROVE m + 1 \in M
  <2>1. PICK g : \A i \in 0..m : g[i] = Step1(g, i)
    BY <1>2
  <2> DEFINE next == IF list[m + 1] \in set THEN Append(g[m], list[m + 1]) ELSE g[m]
             f == [i \in 0..(m + 1) |-> IF i <= m THEN g[i] ELSE next]
  <2>2. ASSUME NEW i \in 0..(m + 1) PROVE f[i] = Step1(f, i)
    <3>1. CASE i <= m
      <4>1. i \in 0..m /\ f[i] = g[i] /\ (i # 0 => f[i - 1] = g[i - 1])
        BY <3>1
      <4> QED
        BY <2>1, <4>1
    <3>2. CASE ~(i <= m)
      <4>1. i = m + 1 /\ i # 0 /\ i - 1 = m /\ m \in 0..(m + 1) /\ m <= m
        BY <3>2
      <4>2. f[i] = next /\ f[i - 1] = g[m]
        BY <4>1
      <4> QED
        BY <4>1, <4>2
    <3> QED
      BY <3>1, <3>2
  <2> HIDE DEF f
  <2> QED
    BY <2>2
<1>3. n \in M
  <2> HIDE DEF M, n
  <2> QED
    BY <1>0, <1>1, <1>2, Induction
<1>4. \E f : f = Body(f)
  <2>1. PICK g : \A i \in 0..n : g[i] = Step1(g, i)
    BY <1>3
  <2> DEFINE f == [i \in 0..n |-> g[i]]
  <2> HIDE DEF n
  <2>3. \A i \in 0..n : f[i] = Step1(f, i)
    <3> TAKE i \in 0..n
    <3>1. f[i] = g[i] /\ (i # 0 => f[i - 1] = g[i - 1])
      BY <1>0
    <3> QED
      BY <2>1, <3>1
  <2>4. f = Body(f)
    BY <2>3
  <2> QED
    BY <2>4
<1> DEFINE kept == CHOOSE f : f = Body(f)
<1>5. Among(list, set) = kept[n]
    BY DEF Among
<1> HIDE DEF Body
<1>6. kept = Body(kept)
    BY <1>4
<1> HIDE DEF kept
<1>7. kept = [i \in 0..n |-> Step1(kept, i)]
    BY <1>6 DEF Body
<1> HIDE DEF n, Step1
<1>8. kept[0] = Step1(kept, 0)
    BY <1>0, <1>7
<1>9. \A i \in 1..n : kept[i] = Step1(kept, i)
    BY <1>0, <1>7
<1>10. kept[0] = <<>>
    BY <1>8 DEF Step1
<1>11. \A i \in 1..n :
          kept[i] = IF list[i] \in set THEN Append(kept[i - 1], list[i]) ELSE kept[i - 1]
    BY <1>0, <1>9 DEF Step1
<1> QED
    BY <1>5, <1>10, <1>11 DEF n

\* What Among keeps: elements of the set, some if there are any, the first one first.
LEMMA AmongFacts ==
    ASSUME NEW S, NEW list \in Seq(S), NEW set
    PROVE  /\ Among(list, set) \in Seq(S \cap set)
           /\ Len(Among(list, set)) <= Len(list)
           /\ (\E i \in 1..Len(list) : list[i] \in set) => Among(list, set) # <<>>
           /\ Len(list) > 0 /\ list[1] \in set =>
                 Among(list, set) # <<>> /\ Among(list, set)[1] = list[1]
<1> DEFINE n == Len(list)
<1>1. PICK kept : /\ kept[0] = <<>>
                  /\ \A i \in 1..n : kept[i] = IF list[i] \in set
                                                THEN Append(kept[i - 1], list[i])
                                                ELSE kept[i - 1]
                  /\ Among(list, set) = kept[n]
    BY AmongSteps
<1> DEFINE Good(i) == /\ kept[i] \in Seq(S \cap set)
                      /\ Len(kept[i]) <= i
                      /\ (\E m \in 1..i : list[m] \in set) => Len(kept[i]) > 0
                      /\ i > 0 /\ list[1] \in set => kept[i][1] = list[1]
           M == {i \in Nat : i <= n => Good(i)}
<1>2. n \in Nat /\ \A i \in 1..n : list[i] \in S
    OBVIOUS
<1> HIDE DEF n
<1>3. 0 \in M
  <2>1. kept[0] \in Seq(S \cap set) /\ Len(kept[0]) = 0
    BY <1>1
  <2> QED
    BY <2>1
<1>4. ASSUME NEW i \in Nat, i \in M PROVE i + 1 \in M
  <2> SUFFICES ASSUME i + 1 <= n PROVE Good(i + 1)
    OBVIOUS
  <2>1. Good(i) /\ i + 1 \in 1..n /\ (i + 1) - 1 = i
    BY <1>2, <1>4
  <2>2. CASE list[i + 1] \in set
    <3> DEFINE old == kept[i]  new == kept[i + 1]  e == list[i + 1]
    <3>1. new = Append(old, e)
      BY <1>1, <2>1, <2>2
    <3>2. e \in S \cap set /\ old \in Seq(S \cap set) /\ Len(old) <= i
      BY <1>2, <2>1, <2>2
    <3>3. /\ new \in Seq(S \cap set) /\ Len(new) = Len(old) + 1 /\ Len(new) > 0
          /\ (Len(old) > 0 => new[1] = old[1])
          /\ (Len(old) = 0 => new[1] = e)
      <4> HIDE DEF old, new, e
      <4> QED
        BY <3>1, <3>2
    <3>4. Len(new) <= i + 1
      <4>1. Len(old) \in Nat
        BY <3>2
      <4> HIDE DEF old, new
      <4> QED
        BY <3>2, <3>3, <4>1
    <3>5. list[1] \in set => new[1] = list[1]
      <4>1. CASE i = 0
        <5>1. Len(old) = 0
          BY <1>1, <4>1
        <5> QED
          BY <3>3, <4>1, <5>1
      <4>2. CASE i > 0
        <5>1. list[1] \in set => Len(old) > 0 /\ old[1] = list[1]
          BY <2>1, <4>2
        <5> QED
          BY <3>3, <5>1
      <4> QED
        BY <4>1, <4>2
    <3> QED
      BY <3>3, <3>4, <3>5
  <2>3. CASE list[i + 1] \notin set
    <3>1. kept[i + 1] = kept[i]
      BY <1>1, <2>1, <2>3
    <3>2. kept[i] \in Seq(S \cap set) /\ Len(kept[i]) \in Nat /\ Len(kept[i]) <= i + 1
      BY <2>1
    <3>3. ASSUME NEW m \in 1..(i + 1), list[m] \in set PROVE Len(kept[i]) > 0
      <4>1. m \in 1..i
        BY <2>3, <3>3
      <4> QED
        BY <2>1, <3>3, <4>1
    <3>4. list[1] \in set => kept[i][1] = list[1]
      <4>1. list[1] \in set => i > 0
        BY <2>3
      <4> QED
        BY <2>1, <4>1
    <3> QED
      BY <3>1, <3>2, <3>3, <3>4
  <2> QED
    BY <2>2, <2>3
<1>5. Good(n)
  <2>1. n \in M
    <3> HIDE DEF M
    <3> QED
      BY <1>2, <1>3, <1>4, Induction
  <2> QED
    BY <1>2, <2>1
<1> QED
    BY <1>1, <1>2, <1>5 DEF n

\* The elements of list that are in set are those from one place to another.
Between(list, set, low, high) ==
    /\ low \in Nat /\ high \in Nat /\ low <= high /\ high <= Len(list)
    /\ \A i \in 1..Len(list) : list[i] \in set <=> low < i /\ i <= high

\* If the elements of a set are a stretch of a list, Among cuts it out.
LEMMA AmongStretch ==
    ASSUME NEW S, NEW list, list \in Seq(S), NEW set, NEW low, NEW high,
           Between(list, set, low, high)
    PROVE  /\ Among(list, set) \in Seq(S) /\ Len(Among(list, set)) = high - low
           /\ \A i \in 1..(high - low) : Among(list, set)[i] = list[low + i]
<1> USE DEF Between
<1> DEFINE n == Len(list)
<1>1. PICK kept : /\ kept[0] = <<>>
                  /\ \A i \in 1..n : kept[i] = IF list[i] \in set
                                                THEN Append(kept[i - 1], list[i])
                                                ELSE kept[i - 1]
                  /\ Among(list, set) = kept[n]
    BY AmongSteps
<1> DEFINE So(i) == IF i <= low THEN 0 ELSE IF i <= high THEN i - low ELSE high - low
           Good(i) == /\ kept[i] \in Seq(S) /\ Len(kept[i]) = So(i)
                      /\ \A m \in 1..So(i) : kept[i][m] = list[low + m]
           M == {i \in Nat : i <= n => Good(i)}
<1>2. n \in Nat /\ \A i \in 1..n : list[i] \in S
    OBVIOUS
<1>0. high <= n /\ \A i \in 1..n : list[i] \in set <=> low < i /\ i <= high
    OBVIOUS
<1> HIDE DEF n
<1>3. 0 \in M
  <2>1. kept[0] \in Seq(S) /\ Len(kept[0]) = 0 /\ So(0) = 0
    BY <1>1
  <2> HIDE DEF So
  <2> QED
    BY <2>1
<1>4. ASSUME NEW i \in Nat, i \in M PROVE i + 1 \in M
  <2> SUFFICES ASSUME i + 1 <= n PROVE Good(i + 1)
    OBVIOUS
  <2>1. Good(i) /\ i + 1 \in 1..n /\ (i + 1) - 1 = i
    BY <1>2, <1>4
  <2>2. CASE list[i + 1] \in set
    <3> DEFINE old == kept[i]  new == kept[i + 1]  e == list[i + 1]
    <3>1. new = Append(old, e)
      BY <1>1, <2>1, <2>2
    <3>2. low < i + 1 /\ i + 1 <= high /\ So(i) = i - low /\ So(i + 1) = (i - low) + 1
          /\ i - low \in Nat /\ e = list[low + ((i - low) + 1)]
      BY <1>0, <2>1, <2>2
    <3>3. e \in S /\ old \in Seq(S) /\ Len(old) = i - low
      BY <1>2, <2>1, <3>2
    <3>4. \A m \in 1..(i - low) : old[m] = list[low + m]
      BY <2>1, <3>2
    <3>5. new \in Seq(S) /\ Len(new) = Len(old) + 1 /\ new[Len(old) + 1] = e
          /\ \A m \in 1..Len(old) : new[m] = old[m]
      <4> HIDE DEF old, new, e
      <4> QED
        BY <3>1, <3>3
    <3>6. \A m \in 1..((i - low) + 1) : new[m] = list[low + m]
      <4> TAKE m \in 1..((i - low) + 1)
      <4>1. m = (i - low) + 1 \/ m \in 1..(i - low)
        BY <3>2
      <4> HIDE DEF new, old, e, So
      <4> QED
        BY <3>2, <3>3, <3>4, <3>5, <4>1
    <3> QED
      BY <3>2, <3>3, <3>5, <3>6
  <2>3. CASE list[i + 1] \notin set
    <3>1. kept[i + 1] = kept[i]
      BY <1>1, <2>1, <2>3
    <3>2. So(i + 1) = So(i)
      BY <1>0, <2>1, <2>3
    <3> HIDE DEF So
    <3> QED
      BY <2>1, <3>1, <3>2
  <2> QED
    BY <2>2, <2>3
<1>5. Good(n)
  <2>1. n \in M
    <3> HIDE DEF M
    <3> QED
      BY <1>2, <1>3, <1>4, Induction
  <2> QED
    BY <1>2, <2>1
<1>6. So(n) = high - low
    BY <1>0, <1>2
<1> QED
    BY <1>1, <1>5, <1>6

\* What comes first in an order of priorities, if it occurs, is chosen; if nothing of the
\* order occurs, the alternative.
LEMMA ForemostFacts ==
    ASSUME NEW S, NEW order \in Seq(S), NEW occurring, NEW otherwise
    PROVE  /\ \/ /\ Foremost(order, occurring, otherwise) = otherwise
                 /\ \A i \in 1..Len(order) : order[i] \notin occurring
              \/ Foremost(order, occurring, otherwise) \in S \cap occurring
           /\ Len(order) > 0 /\ order[1] \in occurring =>
                 Foremost(order, occurring, otherwise) = order[1]
<1> DEFINE found == Among(order, occurring)
<1>1. /\ found \in Seq(S \cap occurring)
      /\ (\E i \in 1..Len(order) : order[i] \in occurring) => found # <<>>
      /\ Len(order) > 0 /\ order[1] \in occurring => found # <<>> /\ found[1] = order[1]
    BY AmongFacts
<1>2. Foremost(order, occurring, otherwise) = IF found = <<>> THEN otherwise ELSE found[1]
    BY DEF Foremost
<1> HIDE DEF found
<1>3. found # <<>> => found[1] \in S \cap occurring
    BY <1>1
<1> QED
    BY <1>1, <1>2, <1>3

\* The concatenations of the first lists.
LEMMA FlattenSteps ==
    ASSUME NEW S, NEW lists, lists \in Seq(Seq(S)), lists # <<>>
    PROVE  \E flat :
              /\ flat[1] = lists[1]
              /\ \A i \in 2..Len(lists) : flat[i] = flat[i - 1] \o lists[i]
              /\ FlattenSeq(lists) = flat[Len(lists)]
<1> DEFINE n == Len(lists)
           Step1(g, i) == IF i = 1 THEN lists[i] ELSE g[i - 1] \o lists[i]
           M == {m \in Nat : \E g : \A i \in 1..m : g[i] = Step1(g, i)}
           Body(f) == [i \in 1..n |-> Step1(f, i)]
<1>0. n \in Nat /\ n # 0
    OBVIOUS
<1>1. 0 \in M
  <2>1. \A i \in 1..0 : [m \in {0} |-> <<>>][i] = Step1([m \in {0} |-> <<>>], i)
    OBVIOUS
  <2> QED
    BY <2>1
<1>2. ASSUME NEW m \in Nat, m \in M PROVE m + 1 \in M
  <2>1. PICK g : \A i \in 1..m : g[i] = Step1(g, i)
    BY <1>2
  <2> DEFINE next == IF m + 1 = 1 THEN lists[m + 1] ELSE g[m] \o lists[m + 1]
             f == [i \in 1..(m + 1) |-> IF i <= m THEN g[i] ELSE next]
  <2>2. ASSUME NEW i \in 1..(m + 1) PROVE f[i] = Step1(f, i)
    <3>1. CASE i <= m
      <4>1. i \in 1..m /\ f[i] = g[i] /\ (i # 1 => f[i - 1] = g[i - 1])
        BY <3>1
      <4> QED
        BY <2>1, <4>1
    <3>2. CASE ~(i <= m)
      <4>1. i = m + 1 /\ (i # 1 => i - 1 = m /\ m \in 1..(m + 1) /\ m <= m)
        BY <3>2
      <4>2. f[i] = next /\ (i # 1 => f[i - 1] = g[m])
        BY <4>1
      <4> QED
        BY <4>1, <4>2
    <3> QED
      BY <3>1, <3>2
  <2> HIDE DEF f
  <2> QED
    BY <2>2
<1>3. n \in M
  <2> HIDE DEF M, n
  <2> QED
    BY <1>0, <1>1, <1>2, Induction
<1>4. \E f : f = Body(f)
  <2>1. PICK g : \A i \in 1..n : g[i] = Step1(g, i)
    BY <1>3
  <2> DEFINE f == [i \in 1..n |-> g[i]]
  <2> HIDE DEF n
  <2>3. \A i \in 1..n : f[i] = Step1(f, i)
    <3> TAKE i \in 1..n
    <3>1. f[i] = g[i] /\ (i # 1 => f[i - 1] = g[i - 1])
      BY <1>0
    <3> QED
      BY <2>1, <3>1
  <2>4. f = Body(f)
    BY <2>3
  <2> QED
    BY <2>4
<1> DEFINE flat == CHOOSE f : f = Body(f)
<1>5. FlattenSeq(lists) = flat[n]
    BY <1>0 DEF FlattenSeq
<1> HIDE DEF Body
<1>6. flat = Body(flat)
    BY <1>4
<1> HIDE DEF flat
<1>7. flat = [i \in 1..n |-> Step1(flat, i)]
    BY <1>6 DEF Body
<1> HIDE DEF n, Step1
<1>8. 1 \in 1..n /\ flat[1] = Step1(flat, 1)
    BY ONLY <1>0, <1>7
<1>9. \A i \in 2..n : flat[i] = Step1(flat, i)
    BY ONLY <1>0, <1>7
<1>10. flat[1] = lists[1]
    BY <1>8 DEF Step1
<1>11. \A i \in 2..n : flat[i] = flat[i - 1] \o lists[i]
  <2>1. \A i \in 2..n : i # 1
    BY ONLY <1>0
  <2> QED
    BY ONLY <1>9, <2>1, Zenon DEF Step1
<1> QED
    BY <1>5, <1>10, <1>11 DEF n

\* No element of a list of lists occurs twice.
AllDistinct(lists) ==
    \A a1, a2 \in DOMAIN lists : \A b1 \in DOMAIN lists[a1], b2 \in DOMAIN lists[a2] :
        lists[a1][b1] = lists[a2][b2] => a1 = a2 /\ b1 = b2

Injective(list) == \A i1, i2 \in DOMAIN list : list[i1] = list[i2] => i1 = i2

\* A concatenation has the elements of the lists, each once if they are distinct.
LEMMA FlattenFacts ==
    ASSUME NEW S, NEW lists, lists \in Seq(Seq(S)), lists # <<>>
    PROVE  /\ FlattenSeq(lists) \in Seq(S)
           /\ \A i \in DOMAIN FlattenSeq(lists) : \E a1 \in DOMAIN lists :
                 \E b1 \in DOMAIN lists[a1] : FlattenSeq(lists)[i] = lists[a1][b1]
           /\ AllDistinct(lists) => Injective(FlattenSeq(lists))
<1> DEFINE n == Len(lists)
<1>1. PICK flat : /\ flat[1] = lists[1]
                  /\ \A i \in 2..n : flat[i] = flat[i - 1] \o lists[i]
                  /\ FlattenSeq(lists) = flat[n]
    BY FlattenSteps
<1> DEFINE Good(m) == /\ flat[m] \in Seq(S)
                      /\ \A i \in DOMAIN flat[m] : \E a1 \in 1..m :
                            \E b1 \in DOMAIN lists[a1] : flat[m][i] = lists[a1][b1]
                      /\ AllDistinct(lists) => Injective(flat[m])
           M == {m \in Nat : m + 1 <= n => Good(m + 1)}
<1>2. n \in Nat /\ n # 0 /\ DOMAIN lists = 1..n /\ \A i \in 1..n : lists[i] \in Seq(S)
    OBVIOUS
<1> HIDE DEF n
<1>3. 0 \in M
  <2>1. 1 \in 1..n /\ flat[1] = lists[1] /\ lists[1] \in Seq(S)
    BY <1>1, <1>2
  <2>2. \A i \in DOMAIN flat[1] : \E b1 \in DOMAIN lists[1] : flat[1][i] = lists[1][b1]
    BY ONLY <2>1
  <2>3. AllDistinct(lists) => Injective(flat[1])
    BY <1>2, <2>1 DEF AllDistinct, Injective
  <2>4. Good(1)
    BY ONLY <2>1, <2>2, <2>3
  <2> HIDE DEF Good
  <2> QED
    BY ONLY <2>4
<1>4. ASSUME NEW m \in Nat, m \in M PROVE m + 1 \in M
  <2> DEFINE u == m + 1  v == m + 2
  <2>0. (m + 1) + 1 = v /\ u \in Nat /\ v \in Nat /\ v - 1 = u /\ v = u + 1 /\ u # 0
    OBVIOUS
  <2>a. SUFFICES ASSUME v <= n PROVE Good(v)
    BY <2>0
  <2>1. Good(u) /\ u \in 1..n /\ v \in 2..n /\ v \in 1..n
  <3>1. u <= n /\ u \in 1..n /\ v \in 2..n /\ v \in 1..n
    BY ONLY <1>2, <1>4, <2>0, <2>a
  <3> HIDE DEF Good
  <3>2. Good(m + 1)
    BY ONLY <1>4, <3>1
  <3> QED
    BY ONLY <3>1, <3>2
  <2> DEFINE old == flat[u]  new == flat[v]  more == lists[v]
  <2>2. new = old \o more
    BY ONLY <1>1, <2>0, <2>1
  <2>3. old \in Seq(S) /\ more \in Seq(S)
    BY ONLY <1>2, <2>1
  <2>5. \A i \in DOMAIN old : \E a1 \in 1..u : \E b1 \in DOMAIN lists[a1] : old[i] = lists[a1][b1]
    BY ONLY <2>1
  <2>b. AllDistinct(lists) => Injective(old)
    BY ONLY <2>1
  <2> HIDE DEF old, new, u, v
  <2>4. /\ new \in Seq(S) /\ DOMAIN new = 1..(Len(old) + Len(more))
        /\ DOMAIN old = 1..Len(old) /\ DOMAIN more = 1..Len(more)
        /\ Len(old) \in Nat /\ Len(more) \in Nat
        /\ \A i \in 1..Len(old) : new[i] = old[i]
        /\ \A i \in 1..Len(more) : new[Len(old) + i] = more[i]
    <3> HIDE DEF more
    <3> QED
      BY ONLY <2>2, <2>3
  <2>c. ASSUME NEW i \in DOMAIN new
        PROVE  \/ i \in DOMAIN old /\ new[i] = old[i]
               \/ /\ i > Len(old) /\ i \in Nat /\ i - Len(old) \in DOMAIN more
                  /\ new[i] = more[i - Len(old)]
    <3>1. i <= Len(old) \/ (i - Len(old) \in 1..Len(more) /\ Len(old) + (i - Len(old)) = i
                            /\ i > Len(old) /\ i \in Nat)
      BY ONLY <2>4, <2>c
    <3>2. i <= Len(old) => i \in 1..Len(old)
      BY ONLY <2>4, <2>c
    <3> HIDE DEF more
    <3> QED
      BY ONLY <2>4, <3>1, <3>2
  <2>6. ASSUME NEW i \in DOMAIN new
        PROVE  \E a1 \in 1..v : \E b1 \in DOMAIN lists[a1] : new[i] = lists[a1][b1]
    <3>1. CASE i \in DOMAIN old /\ new[i] = old[i]
      <4>2. PICK a1 \in 1..u : \E b1 \in DOMAIN lists[a1] : old[i] = lists[a1][b1]
        BY ONLY <2>5, <3>1
      <4>3. a1 \in 1..v
        BY ONLY <2>0, <4>2
      <4> QED
        BY ONLY <3>1, <4>2, <4>3
    <3>2. CASE i - Len(old) \in DOMAIN more /\ new[i] = more[i - Len(old)]
      <4>1. v \in 1..v
        BY ONLY <2>0
      <4> QED
        BY ONLY <3>2, <4>1, Zenon
    <3> QED
      BY ONLY <2>c, <2>6, <3>1, <3>2, Zenon
  <2>7. ASSUME AllDistinct(lists), NEW i1 \in DOMAIN new, NEW i2 \in DOMAIN new,
               new[i1] = new[i2]
        PROVE  i1 = i2
    <3>0. ASSUME NEW i \in DOMAIN old, NEW e \in DOMAIN more, old[i] = more[e] PROVE FALSE
      <4>2. PICK a1 \in 1..u : \E b1 \in DOMAIN lists[a1] : old[i] = lists[a1][b1]
        BY ONLY <2>5, <3>0
      <4>3. a1 \in DOMAIN lists /\ v \in DOMAIN lists /\ a1 # v
        BY ONLY <1>2, <2>0, <2>1, <4>2
      <4> QED
        BY ONLY <2>7, <3>0, <4>2, <4>3, Zenon DEF AllDistinct
    <3>1. CASE i1 \in DOMAIN old /\ new[i1] = old[i1] /\ i2 \in DOMAIN old /\ new[i2] = old[i2]
      BY ONLY <2>b, <2>7, <3>1, Zenon DEF Injective
    <3>2. CASE i1 - Len(old) \in DOMAIN more /\ new[i1] = more[i1 - Len(old)] /\ i1 \in Nat
               /\ i2 - Len(old) \in DOMAIN more /\ new[i2] = more[i2 - Len(old)] /\ i2 \in Nat
      <4>1. v \in DOMAIN lists
        BY ONLY <1>2, <2>1
      <4>3. ASSUME NEW e1 \in DOMAIN more, NEW e2 \in DOMAIN more, more[e1] = more[e2]
            PROVE  e1 = e2
        BY ONLY <2>7, <4>1, <4>3, Zenon DEF AllDistinct
      <4>2. i1 - Len(old) = i2 - Len(old)
        <5> HIDE DEF more
        <5> QED
          BY ONLY <2>7, <3>2, <4>3
      <4> QED
        BY ONLY <2>4, <3>2, <4>2
    <3> HIDE DEF more
    <3> QED
      BY ONLY <2>c, <2>7, <3>0, <3>1, <3>2, Zenon
  <2>8. AllDistinct(lists) => Injective(new)
    BY ONLY <2>7, Zenon DEF Injective
  <2> QED
    BY ONLY <2>4, <2>6, <2>8 DEF new
<1>5. Good(n)
  <2>1. n - 1 \in Nat /\ (n - 1) + 1 = n
    BY <1>2
  <2>2. n - 1 \in M
    <3> HIDE DEF M
    <3> QED
      BY <1>3, <1>4, <2>1, Induction
  <2> HIDE DEF Good
  <2> QED
    BY ONLY <1>2, <2>1, <2>2
<1>6. FlattenSeq(lists) = flat[n] /\ DOMAIN lists = 1..n
    BY ONLY <1>1, <1>2
<1>7. flat[n] \in Seq(S) /\ (AllDistinct(lists) => Injective(flat[n]))
    BY ONLY <1>5
<1>8. \A i \in DOMAIN flat[n] : \E a1 \in 1..n : \E b1 \in DOMAIN lists[a1] :
          flat[n][i] = lists[a1][b1]
    BY ONLY <1>5
<1> HIDE DEF Good, M
<1>9. FlattenSeq(lists) \in Seq(S) /\ (AllDistinct(lists) => Injective(FlattenSeq(lists)))
    BY ONLY <1>6, <1>7, Zenon
<1>10. \A i \in DOMAIN FlattenSeq(lists) : \E a1 \in DOMAIN lists :
          \E b1 \in DOMAIN lists[a1] : FlattenSeq(lists)[i] = lists[a1][b1]
  <2>1. ASSUME NEW i \in DOMAIN FlattenSeq(lists)
        PROVE  \E a1 \in DOMAIN lists :
                  \E b1 \in DOMAIN lists[a1] : FlattenSeq(lists)[i] = lists[a1][b1]
    <3>1. i \in DOMAIN flat[n]
        BY ONLY <1>6, <2>1, Zenon
    <3>2. PICK a1 \in 1..n : \E b1 \in DOMAIN lists[a1] : flat[n][i] = lists[a1][b1]
        BY ONLY <1>8, <3>1, Zenon
    <3>3. a1 \in DOMAIN lists /\ \E b1 \in DOMAIN lists[a1] : FlattenSeq(lists)[i] = lists[a1][b1]
        BY ONLY <1>6, <3>2, Zenon
    <3> QED
        BY ONLY <3>3, Zenon
  <2> QED
    BY ONLY <2>1, Zenon
<1> QED
    BY ONLY <1>9, <1>10, Zenon
-----------------------------------------------------------------------------
(* The invariant.                                                              *)

Status(n) == run.nodes[n].status
Open(n)   == Status(n) \in {"pending", "awaiting_approval", "awaiting_input", "cancelled"}

\* The dependencies of n that are steps of the saga are done.
\* (An approval is for an operation, and stands or falls with what that needs.)
Target(n) == IF def[n].type = "approval" THEN def[n].refersTo ELSE n
Met(n) == \A m \in Dependencies(def, Target(n)) \cap Required :
             def[m].type # "approval" => Status(m) = "verified_complete"

\* An approval waits for whatever its operation waits for.
Orderly == \A n \in Required : def[n].type = "approval" =>
              \A m \in Dependencies(def, def[n].refersTo) \cap Required :
                 def[m].type = "approval" \/ m \in Dependencies(def, n)

\* What the order of the nodes needs once processes die: recovery reads the nodes off
\* their tasks, and knows neither approvals that were early, nor predicates that have
\* changed, nor compensations of a wave that was not committed.
Supported == "death" \in faults => Orderly /\ "change" \notin faults /\ Compensations = {}

\* The nodes whose order is promised.
Promised(n) == n \in Required /\ Supported /\ (def[n].type = "approval" => "death" \in faults)

NodeForm(state) == DOMAIN state = {"status", "ids", "iterations"}
Fits(n, status) == IF n \in Required THEN status \notin {"skipped", "compensated"}
                                     ELSE status # "verified_complete"
Answers == {"none", "throws", "awaiting_input", "verified_complete", "failed"}
JobForm(j) == /\ DOMAIN j = {"node", "keys", "answer", "alive", "ids", "states"}
              /\ j.node \in DOMAIN def /\ j.answer \in Answers /\ j.alive \in BOOLEAN

RunForm ==
    /\ DOMAIN run = {"status", "error", "nodes"} /\ run.status \in RunStatus
    /\ DOMAIN run.nodes = DOMAIN def
    /\ \A n \in DOMAIN def : NodeForm(run.nodes[n]) /\ Fits(n, Status(n))

WaveForm ==
    /\ DOMAIN wave = {"phase", "base", "results", "undo", "moved"}
    /\ wave.phase \in {"none", "work", "undo"} /\ wave.moved \in BOOLEAN
    /\ wave.undo \in Seq(Compensations)
    /\ DOMAIN wave.results \subseteq DOMAIN def
    /\ \A n \in DOMAIN wave.results : NodeForm(wave.results[n]) /\ Fits(n, wave.results[n].status)

FormInv ==
    /\ def \in Definitions
    /\ RunForm /\ WaveForm /\ \A j \in jobs : JobForm(j)

\* The nodes that a wave is about are open, also when the run has moved.
WaveInv ==
    /\ mode # "serving" => wave = NoWave /\ jobs = {}
    /\ wave.phase = "none" => wave = NoWave /\ \A j \in jobs : ~j.alive
    /\ \A j \in jobs : j.alive => Open(j.node)
    /\ wave.phase = "work" => wave.results = <<>> /\ wave.undo = <<>>
    /\ wave.phase = "undo" => \A j \in jobs : j.alive =>
          /\ wave.undo # <<>> /\ j.node = Head(wave.undo) /\ Undoes(j.node)
          /\ \A other \in jobs : other.alive => other = j
    /\ wave.phase # "none" => \A n \in DOMAIN def : wave.base[n].status = "pending" => Open(n)
    /\ \A i \in DOMAIN wave.undo : Open(wave.undo[i])
    /\ \A n \in DOMAIN wave.results : Open(n)

\* What holds of a wave until the run moves.
UnmovedInv ==
    wave.phase # "none" /\ ~wave.moved =>
       /\ wave.base = run.nodes /\ run.status \notin Ended \cup {"paused"}
       /\ run.status = "failed" => /\ \A j \in jobs : j.alive => j.node \in Compensations
                                   /\ DOMAIN wave.results \subseteq Compensations
       /\ run.status # "failed" =>
             /\ wave.phase = "work" => \A j \in jobs : j.alive => j.node \in Required
             /\ wave.undo # <<>> \/ DOMAIN wave.results \cap Compensations # {} =>
                   \E n \in Required \cap DOMAIN wave.results : wave.results[n].status = "failed"
       /\ \A j \in jobs : j.alive /\ j.node \in Compensations => Undoes(j.node)
       /\ \A n \in DOMAIN wave.results : wave.results[n].status = "compensated" => Undoes(n)

\* A failed run has a failed node, and a node that is past its beginning has what it needs.
RunOrder ==
    /\ run.status = "failed" => \E n \in Required : Status(n) = "failed"
    /\ \A n \in Required : Promised(n) /\ Status(n) \notin {"pending", "cancelled"} => Met(n)

OrderInv ==
    /\ RunOrder
    /\ \A j \in jobs : j.alive /\ Promised(j.node) => Met(j.node)
    /\ \A n \in DOMAIN wave.results : Promised(n) => Met(n)

SagaInv == FormInv /\ WaveInv /\ UnmovedInv /\ OrderInv
-----------------------------------------------------------------------------
(* What the operators of the model give.                                       *)

\* The nodes of a definition are required or compensations, and a compensation is for
\* an operation.
LEMMA DefinitionFacts ==
    ASSUME def \in Definitions
    PROVE  /\ Required \cup Compensations = DOMAIN def /\ Required \cap Compensations = {}
           /\ \A n \in Compensations : /\ def[n].type = "compensation"
                                       /\ def[n].refersTo \in Required
                                       /\ def[def[n].refersTo].type = "operation"
<1>1. ReferencesExist(def)
    BY NodesAssumption DEF ValidWorkflow
<1> QED
    BY <1>1 DEF ReferencesExist, Required, Compensations

\* A run is failed if and only if a node that it requires is, and complete only if all
\* of those are done.
LEMMA DerivedFacts ==
    ASSUME NEW nodes
    PROVE  /\ DeriveStatus(nodes) = "failed" <=> \E n \in Required : nodes[n].status = "failed"
           /\ DeriveStatus(nodes) \in RunStatus \ {"planned", "paused", "cancelled"}
           /\ DeriveStatus(nodes) = "verified_complete" =>
                 \A n \in Required : nodes[n].status \in DoneStatus
<1> DEFINE order == <<"failed", "recovery_required", "awaiting_approval", "awaiting_input">>
           names == {"failed", "recovery_required", "awaiting_approval", "awaiting_input"}
           occurring == {nodes[n].status : n \in Required}
           whole == \A n \in Required :
                       /\ nodes[n].status \in DoneStatus
                       /\ \A i \in DOMAIN nodes[n].ids : Certified(nodes[n].ids[i])
           otherwise == IF whole THEN "verified_complete" ELSE "running"
           result == Foremost(order, occurring, otherwise)
<1>1. order \in Seq(names) /\ Len(order) = 4 /\ order[1] = "failed"
    OBVIOUS
<1>2. DeriveStatus(nodes) = result
    BY Zenon DEF DeriveStatus
<1>3. otherwise \in {"verified_complete", "running"}
      /\ (otherwise = "verified_complete" => \A n \in Required : nodes[n].status \in DoneStatus)
    OBVIOUS
<1>4. "failed" \in occurring <=> \E n \in Required : nodes[n].status = "failed"
    BY Zenon
<1> HIDE DEF order, occurring, otherwise
<1>5. /\ \/ result = otherwise /\ \A i \in 1..Len(order) : order[i] \notin occurring
         \/ result \in names \cap occurring
      /\ Len(order) > 0 /\ order[1] \in occurring => result = order[1]
    BY <1>1, ForemostFacts
<1> HIDE DEF result
<1> QED
    BY <1>1, <1>2, <1>3, <1>4, <1>5 DEF RunStatus, Ended

\* What a node ends with has the form of a node's record, and fits its kind.
LEMMA OutcomeFacts ==
    ASSUME NEW j, JobForm(j)
    PROVE  NodeForm(Outcome(j)) /\ Fits(j.node, Outcome(j).status)
           /\ (Outcome(j).status = "compensated" => j.node \in Compensations)
<1> DEFINE order == <<"failed", "recovery_required", "awaiting_approval", "cancelled", "ready">>
           names == {"failed", "recovery_required", "awaiting_approval", "cancelled", "ready"}
           status == IF j.answer # "none" THEN j.answer ELSE Aggregate(j.states)
<1>1. order \in Seq(names)
    OBVIOUS
<1>2. Aggregate(j.states) = Foremost(order, ToSet(j.states), "verified_complete")
    BY Zenon DEF Aggregate
<1> HIDE DEF order
<1>3. Aggregate(j.states) \in names \cup {"verified_complete"}
    BY <1>1, <1>2, ForemostFacts
<1>4. status \notin {"skipped", "compensated"}
    BY <1>3 DEF JobForm, Answers
<1> HIDE DEF status
<1>5. /\ DOMAIN Outcome(j) = {"status", "ids", "iterations"}
      /\ Outcome(j).status = IF j.node \in Compensations /\ status = "verified_complete"
                             THEN "compensated" ELSE status
    BY DEF Outcome, NodeState, status
<1> QED
    BY <1>4, <1>5 DEF NodeForm, Fits, Compensations, JobForm

\* A job is of the node that it was made for, and lives.
LEMMA JobFacts ==
    ASSUME NEW n \in DOMAIN def, NEW j \in Jobs(n)
    PROVE  JobForm(j) /\ j.node = n /\ j.alive
<1>1. \A branch, answer : answer \in Answers =>
         /\ JobForm(Job(n, branch, answer))
         /\ Job(n, branch, answer).node = n /\ Job(n, branch, answer).alive
    BY DEF Job, JobForm
<1>2. \E branch, answer : answer \in Answers /\ j = Job(n, branch, answer)
    BY DEF Jobs, Answers
<1> QED
    BY <1>1, <1>2

\* What is done with a request leaves the node, the answer and the life of its job.
LEMMA FinishedFacts ==
    ASSUME NEW j, JobForm(j), NEW i, NEW id, NEW status
    PROVE  /\ JobForm(Finished(j, i, id, status))
           /\ Finished(j, i, id, status).node = j.node
           /\ Finished(j, i, id, status).alive = j.alive
<1> DEFINE next == [j EXCEPT !.ids[i] = id, !.states[i] = status]
<1>1. JobForm(next) /\ next.node = j.node /\ next.alive = j.alive
    BY DEF JobForm
<1> HIDE DEF next
<1> DEFINE cut == [next EXCEPT !.keys = SubSeq(@, 1, i), !.states = SubSeq(@, 1, i)]
<1>2. JobForm(cut) /\ cut.node = j.node /\ cut.alive = j.alive
    BY <1>1 DEF JobForm
<1>3. Finished(j, i, id, status) \in {next, cut}
    BY DEF Finished, next
<1> HIDE DEF cut
<1> QED
    BY <1>1, <1>2, <1>3
-----------------------------------------------------------------------------
(* Steps that leave the run alone.                                             *)

SagaStep == Workflow!SagaNext \/ UNCHANGED Workflow!sagaVars

\* What depends on the definition and the faults only.
LEMMA SamePlan ==
    ASSUME UNCHANGED <<def, faults>>
    PROVE  /\ Required' = Required /\ Compensations' = Compensations
           /\ \A n : Dependencies(def, n)' = Dependencies(def, n) /\ Target(n)' = Target(n)
           /\ (Supported' <=> Supported) /\ \A n : Promised(n)' <=> Promised(n)
<1>1. /\ Required' = Required /\ Compensations' = Compensations
      /\ \A n : Dependencies(def, n)' = Dependencies(def, n) /\ Target(n)' = Target(n)
    BY DEF Required, Compensations, Dependencies, Target
<1>2. Supported' <=> Supported
    BY <1>1 DEF Supported, Orderly, Dependencies
<1> QED
    BY <1>1, <1>2 DEF Promised

\* What depends on the run too.
LEMMA SameRun ==
    ASSUME UNCHANGED <<def, faults, run>>
    PROVE  /\ Required' = Required /\ Compensations' = Compensations
           /\ \A n : (Open(n)' <=> Open(n)) /\ (Met(n)' <=> Met(n)) /\ Status(n)' = Status(n)
           /\ \A n, status : Fits(n, status)' <=> Fits(n, status)
           /\ \A j : JobForm(j)' <=> JobForm(j)
           /\ (RunForm' <=> RunForm) /\ (RunOrder' <=> RunOrder)
           /\ \A n : Promised(n)' <=> Promised(n)
<1>0. \A n : (Promised(n)' <=> Promised(n)) /\ Target(n)' = Target(n)
    BY SamePlan
<1>1. /\ Required' = Required /\ Compensations' = Compensations
      /\ \A n : (Open(n)' <=> Open(n)) /\ (Met(n)' <=> Met(n)) /\ Status(n)' = Status(n)
      /\ \A n, status : Fits(n, status)' <=> Fits(n, status)
      /\ \A j : JobForm(j)' <=> JobForm(j)
      /\ RunForm' <=> RunForm
    BY <1>0 DEF Required, Compensations, Open, Met, Status, Fits, JobForm, RunForm, Dependencies
<1>2. RunOrder' <=> RunOrder
    BY <1>0, <1>1 DEF RunOrder
<1> QED
    BY <1>0, <1>1, <1>2

\* The saga stutters when outcomes are lost of nodes that are not compensated.
LEMMA LossStutters ==
    ASSUME UNCHANGED <<def, faults, run>>, NEW gone, lost' = lost \cup gone,
           \A n \in gone : Status(n) # "compensated"
    PROVE  SagaStep
<1>1. Required' = Required /\ Compensations' = Compensations
    BY SameRun
<1>2. {n \in Compensations \ lost : run.nodes[n].status = "compensated"}'
      = {n \in Compensations \ lost : run.nodes[n].status = "compensated"}
    BY <1>1 DEF Status
<1> QED
    BY <1>1, <1>2 DEF SagaStep, Workflow!sagaVars, Dependencies

\* The same, when nothing is lost.
LEMMA RunStutters ==
    ASSUME UNCHANGED <<def, faults, run, lost>>
    PROVE  SagaStep
<1> DEFINE gone == {}
<1>1. lost' = lost \cup gone /\ \A n \in gone : Status(n) # "compensated"
    OBVIOUS
<1> HIDE DEF gone
<1> QED
    BY <1>1, LossStutters

\* A job goes on.
LEMMA ReplaceKeeps ==
    ASSUME SagaInv, UNCHANGED <<def, faults, mode, run, wave>>, NEW j \in jobs, NEW next,
           JobForm(next), next.node = j.node, next.alive = j.alive, Replace(j, next)
    PROVE  SagaInv'
<1>1. \A job \in jobs' : JobForm(job)
                        /\ (job.alive => \E old \in jobs : old.alive /\ old.node = job.node)
    BY DEF Replace, SagaInv, FormInv
<1>2. FormInv'
    BY <1>1, SameRun DEF SagaInv, FormInv, WaveForm, NodeForm
<1>a. \A n : Undoes(n)' <=> Undoes(n)
    BY DEF Undoes
<1>3. WaveInv'
  <2>1. mode' = "serving"
    BY DEF SagaInv, WaveInv
  <2>2. wave.phase = "none" => \A job \in jobs' : ~job.alive
    BY <1>1 DEF SagaInv, WaveInv
  <2>3. wave.phase = "undo" => \A job \in jobs' : job.alive =>
          /\ wave.undo # <<>> /\ job.node = Head(wave.undo) /\ Undoes(job.node)
          /\ \A other \in jobs' : other.alive => other = job
    <3>1. ASSUME wave.phase = "undo", NEW job \in jobs', job.alive
          PROVE  wave.undo # <<>> /\ job.node = Head(wave.undo) /\ Undoes(job.node)
      BY <1>1, <3>1 DEF SagaInv, WaveInv
    <3>2. ASSUME wave.phase = "undo", NEW job \in jobs', job.alive,
                 NEW other \in jobs', other.alive
          PROVE  other = job
      BY <3>2 DEF SagaInv, WaveInv, Replace
    <3> QED
      BY <3>1, <3>2
  <2>4. \A job \in jobs' : job.alive => Open(job.node)
    BY <1>1 DEF SagaInv, WaveInv
  <2> QED
    BY <1>a, <2>1, <2>2, <2>3, <2>4, SameRun DEF SagaInv, WaveInv, NoWave
<1>4. UnmovedInv'
    BY <1>1, <1>a, SameRun DEF SagaInv, UnmovedInv
<1>5. OrderInv'
    BY <1>1, SameRun DEF SagaInv, OrderInv
<1> QED
    BY <1>2, <1>3, <1>4, <1>5 DEF SagaInv

\* There is no wave.
LEMMA IdleKeeps ==
    ASSUME def' \in Definitions, RunForm', RunOrder', wave' = NoWave,
           \A job \in jobs' : JobForm(job)' /\ ~job.alive,
           mode' # "serving" => jobs' = {}
    PROVE  SagaInv'
<1>1. /\ DOMAIN NoWave = {"phase", "base", "results", "undo", "moved"}
      /\ NoWave.phase = "none" /\ NoWave.moved = FALSE /\ NoWave.results = <<>>
      /\ NoWave.undo = <<>> /\ DOMAIN NoWave.results = {} /\ DOMAIN NoWave.undo = {}
    BY DEF NoWave
<1>2. FormInv'
  <2>1. <<>> \in Seq(Compensations') /\ FALSE \in BOOLEAN
    OBVIOUS
  <2>a. wave' = NoWave
    OBVIOUS
  <2>2. WaveForm'
    BY ONLY <1>1, <2>1, <2>a DEF WaveForm
  <2> QED
    BY <2>2 DEF FormInv
<1>3. NoWave' = NoWave
    BY DEF NoWave
<1>4. WaveInv'
    BY <1>1, <1>3 DEF WaveInv
<1>5. UnmovedInv'
    BY <1>1 DEF UnmovedInv
<1>6. OrderInv'
    BY <1>1 DEF OrderInv
<1> QED
    BY <1>2, <1>4, <1>5, <1>6 DEF SagaInv

\* A wave is given up.
LEMMA RejectKeeps ==
    ASSUME SagaInv, UNCHANGED <<def, faults, mode, run>>, NEW nodes, NEW still,
           \A j \in still : JobForm(j), mode = "serving", Reject(nodes, still)
    PROVE  SagaInv'
<1>1. \A job \in jobs' : JobForm(job)' /\ ~job.alive
    BY SameRun DEF Reject, JobForm
<1>2. wave' = NoWave
    BY DEF Reject
<1>3. def' \in Definitions /\ RunForm' /\ RunOrder' /\ mode' = "serving"
    BY SameRun DEF SagaInv, FormInv, OrderInv
<1> QED
    BY <1>1, <1>2, <1>3, IdleKeeps

\* A request starts, and an adapter answers.
LEMMA RequestStep ==
    ASSUME SagaInv, NEW j \in jobs, NEW i, StartRequest(j, i) \/ Answer(j, i)
    PROVE  SagaInv' /\ SagaStep
<1>1. UNCHANGED <<def, faults, mode, run, wave, lost>>
    BY DEF StartRequest, Answer, history
<1>2. JobForm(j)
    BY DEF SagaInv, FormInv
<1> DEFINE Goes(next) == /\ Replace(j, next)
                         /\ \/ \E id, status : next = Finished(j, i, id, status)
                            \/ \E id : next = [j EXCEPT !.ids[i] = id, !.states[i] = "busy"]
<1>3. \E next : Goes(next)
  <2>1. ASSUME NEW id, NEW status, Replace(j, Finished(j, i, id, status))
        PROVE  \E next : Goes(next)
    BY <2>1
  <2>2. ASSUME NEW id, Replace(j, [j EXCEPT !.ids[i] = id, !.states[i] = "busy"])
        PROVE  \E next : Goes(next)
    BY <2>2
  <2> HIDE DEF Goes
  <2>3. ASSUME NEW id, NEW known, Execute(j, i, id, known) PROVE \E next : Goes(next)
    BY <2>1, <2>2, <2>3 DEF Execute
  <2>4. CASE StartRequest(j, i)
    BY <2>1, <2>3, <2>4, Zenon DEF StartRequest
  <2>5. CASE Answer(j, i)
    BY <2>1, <2>5, Zenon DEF Answer
  <2> QED
    BY <2>4, <2>5
<1>4. PICK next : /\ Replace(j, next)
                  /\ \/ \E id, status : next = Finished(j, i, id, status)
                     \/ \E id : next = [j EXCEPT !.ids[i] = id, !.states[i] = "busy"]
    BY <1>3
<1>5. JobForm(next) /\ next.node = j.node /\ next.alive = j.alive
  <2>1. CASE \E id, status : next = Finished(j, i, id, status)
    BY <1>2, <2>1, FinishedFacts
  <2>2. CASE \E id : next = [j EXCEPT !.ids[i] = id, !.states[i] = "busy"]
    BY <1>2, <2>2 DEF JobForm
  <2> QED
    BY <1>4, <2>1, <2>2
<1>6. SagaInv'
    BY <1>1, <1>4, <1>5, ReplaceKeeps
<1> QED
    BY <1>1, <1>6, RunStutters

\* An approval does not fit its task.
LEMMA ThrowStep ==
    ASSUME SagaInv, NEW j \in jobs, NEW i, Throw(j, i)
    PROVE  SagaInv' /\ SagaStep
<1> DEFINE gone == {k.node : k \in {k \in jobs : k.alive}} \cup DOMAIN wave.results
<1>1. UNCHANGED <<def, faults, mode, run>> /\ Reject(gone, jobs \ {j})
    BY DEF Throw
<1>2. mode = "serving" /\ \A k \in jobs \ {j} : JobForm(k)
    BY DEF SagaInv, WaveInv, FormInv
<1>3. \A n \in gone : Status(n) # "compensated"
    BY DEF SagaInv, WaveInv, Open
<1> HIDE DEF gone
<1>4. SagaInv'
    BY <1>1, <1>2, RejectKeeps
<1>5. lost' = lost \cup gone
    BY <1>1 DEF Reject
<1> QED
    BY <1>1, <1>3, <1>4, <1>5, LossStutters
\* The nodes that an advance works on are open; the required ones have what they depend
\* on, and the others are compensations of verified operations.
LEMMA WaveFacts ==
    ASSUME SagaInv, NEW n \in WaveOf(run)
    PROVE  /\ n \in DOMAIN def /\ Open(n)
           /\ run.status = "failed" => n \in Compensations
           /\ run.status # "failed" => n \in Required
           /\ Promised(n) => Met(n)
           /\ n \in Compensations => Status(def[n].refersTo) = "verified_complete"
<1>0. Required \cup Compensations = DOMAIN def /\ Required \cap Compensations = {}
    BY DefinitionFacts DEF SagaInv, FormInv
<1>1. CASE run.status = "failed"
    BY <1>0, <1>1 DEF WaveOf, Rollback, Open, Status, Promised
<1>2. CASE run.status # "failed" /\ Awaiting(run.nodes) # {}
  <2>1. n \in Required /\ Status(n) \in {"awaiting_approval", "awaiting_input"}
    BY <1>2 DEF WaveOf, Awaiting, Status
  <2> QED
    BY <1>0, <1>2, <2>1 DEF Open, SagaInv, OrderInv, RunOrder
<1>3. CASE run.status # "failed" /\ Awaiting(run.nodes) = {}
  <2>1. n \in ReadyNodes(def, StatusOf(run.nodes))
    BY <1>3 DEF WaveOf
  <2>2. \A m \in DOMAIN def : StatusOf(run.nodes)[m] = Status(m)
    BY DEF StatusOf, Status, SagaInv, FormInv, RunForm
  <2>3. n \in Required /\ Status(n) = "pending"
    BY <2>1, <2>2 DEF ReadyNodes, Required
  <2>4. Promised(n) => Met(n)
    <3>2. SUFFICES ASSUME Promised(n), NEW m \in Dependencies(def, Target(n)) \cap Required,
                          def[m].type # "approval"
                   PROVE  Status(m) = "verified_complete"
      BY DEF Met
    <3>3. m \in Dependencies(def, n)
      BY <2>3, <3>2 DEF Promised, Supported, Orderly, Target
    <3>1. Status(m) = "verified_complete"
      <4>1. Status(m) \in DoneStatus
        BY <2>1, <2>2, <3>3 DEF ReadyNodes, Required
      <4>2. Fits(m, Status(m))
        BY DEF SagaInv, FormInv, RunForm, Required
      <4> QED
        BY <4>1, <4>2 DEF Fits, DoneStatus
    <3> QED
      BY <3>1
  <2> QED
    BY <1>0, <1>3, <2>3, <2>4 DEF Open
<1> QED
    BY <1>1, <1>2, <1>3

\* An advance begins, or is rejected at once.
LEMMA AdvanceStep ==
    ASSUME SagaInv, Advance
    PROVE  SagaInv' /\ SagaStep
<1> DEFINE nodes == WaveOf(run)
<1>1. PICK begin \in [nodes -> UNION {Jobs(n) : n \in nodes}] :
         /\ \A n \in nodes : begin[n] \in Jobs(n)
         /\ \/ Reject(nodes, jobs \cup {begin[n] : n \in nodes})
            \/ /\ jobs' = jobs \cup {begin[n] : n \in nodes}
               /\ wave' = [NoWave EXCEPT !.phase = "work", !.base = run.nodes]
               /\ UNCHANGED lost
    BY Zenon DEF Advance, history
<1>2. UNCHANGED <<def, faults, mode, run>> /\ mode = "serving" /\ wave = NoWave
      /\ run.status \notin Ended \cup {"paused"}
    BY DEF Advance, Idle
<1>3. \A n \in nodes : n \in DOMAIN def /\ Open(n) /\ (Promised(n) => Met(n))
    BY WaveFacts
<1>4. \A n \in nodes : JobForm(begin[n]) /\ begin[n].node = n /\ begin[n].alive
    BY <1>1, <1>3, JobFacts
<1>5. \A j \in jobs : JobForm(j) /\ ~j.alive
    BY <1>2 DEF SagaInv, FormInv, WaveInv, NoWave
<1> HIDE DEF nodes
<1>6. CASE Reject(nodes, jobs \cup {begin[n] : n \in nodes})
  <2>1. lost' = lost \cup nodes /\ \A n \in nodes : Status(n) # "compensated"
    BY <1>3, <1>6 DEF Reject, Open
  <2> DEFINE still == jobs \cup {begin[n] : n \in nodes}
  <2>2. (\A j \in still : JobForm(j)) /\ Reject(nodes, still)
    BY <1>4, <1>5, <1>6
  <2> HIDE DEF still
  <2> QED
    BY <1>2, <2>1, <2>2, RejectKeeps, LossStutters
<1>7. CASE /\ jobs' = jobs \cup {begin[n] : n \in nodes}
           /\ wave' = [NoWave EXCEPT !.phase = "work", !.base = run.nodes]
           /\ UNCHANGED lost
  <2>1. /\ DOMAIN wave' = {"phase", "base", "results", "undo", "moved"}
        /\ wave'.phase = "work" /\ wave'.moved = FALSE /\ wave'.results = <<>>
        /\ wave'.undo = <<>> /\ wave'.base = run.nodes /\ DOMAIN wave'.results = {}
    BY <1>7 DEF NoWave
  <2>2. \A j \in jobs' : JobForm(j) /\ (j.alive => j.node \in nodes)
    BY <1>4, <1>5, <1>7
  <2>3. FormInv'
    <3>0. <<>> \in Seq(Compensations') /\ FALSE \in BOOLEAN
      OBVIOUS
    <3>1. WaveForm'
      BY ONLY <2>1, <3>0 DEF WaveForm
    <3> QED
      BY <1>2, <2>2, <3>1, SameRun DEF SagaInv, FormInv
  <2>4. WaveInv'
    <3>1. \A n \in DOMAIN def : run.nodes[n].status = "pending" => Open(n)
      BY DEF Open, Status
    <3> QED
      BY <1>2, <1>3, <2>1, <2>2, <3>1, SameRun DEF WaveInv
  <2>5. UnmovedInv'
    <3>1. \A n \in nodes :
             /\ run.status = "failed" => n \in Compensations
             /\ run.status # "failed" => n \in Required
             /\ n \in Compensations => Status(def[n].refersTo) = "verified_complete"
      BY WaveFacts DEF nodes
    <3>2. \A n : Status(def[n].refersTo) = "verified_complete" => Undoes(n)'
      BY ONLY <1>2, <2>1 DEF Undoes, Status
    <3>3. \A j \in jobs' : j.alive /\ j.node \in Compensations => Undoes(j.node)'
      BY ONLY <2>2, <3>1, <3>2, Zenon
    <3>4. UnmovedInv' <=>
             /\ run.nodes = run'.nodes /\ run'.status \notin Ended \cup {"paused"}
             /\ run'.status = "failed" => \A j \in jobs' : j.alive => j.node \in Compensations'
             /\ run'.status # "failed" => \A j \in jobs' : j.alive => j.node \in Required'
             /\ \A j \in jobs' : j.alive /\ j.node \in Compensations' => Undoes(j.node)'
      BY ONLY <2>1 DEF UnmovedInv
    <3>5. Required' = Required /\ Compensations' = Compensations
      BY <1>2, SameRun
    <3>6. /\ run.nodes = run'.nodes /\ run'.status \notin Ended \cup {"paused"}
          /\ run'.status = "failed" => \A j \in jobs' : j.alive => j.node \in Compensations'
          /\ run'.status # "failed" => \A j \in jobs' : j.alive => j.node \in Required'
      BY ONLY <1>2, <2>2, <3>1, <3>5
    <3> QED
      BY ONLY <3>3, <3>4, <3>5, <3>6, Zenon
  <2>6. OrderInv'
    BY <1>2, <1>3, <2>1, <2>2, SameRun DEF SagaInv, OrderInv
  <2> QED
    BY <1>2, <1>7, <2>3, <2>4, <2>5, <2>6, RunStutters DEF SagaInv
<1> QED
    BY <1>1, <1>6, <1>7
\* The compensations that a failed wave looks at were pending when it began.
LEMMA ToUndoFacts ==
    ASSUME NEW results
    PROVE  /\ ToUndo(results) \in Seq({n \in Compensations : wave.base[n].status = "pending"})
           /\ ToUndo(results) # <<>> =>
                 \E n \in DOMAIN results : results[n].status = "failed"
<1> DEFINE list == Reverse(Order)
           set  == {n \in Compensations : wave.base[n].status = "pending"}
           all  == ToSet(Order)
<1>1. list \in Seq(all)
  <2>1. Order \in Seq(all)
    BY NodesAssumption
  <2>2. list = [i \in 1..Len(Order) |-> Order[(Len(Order) - i) + 1]]
    BY DEF Reverse
  <2> HIDE DEF all, list
  <2>3. \A i \in 1..Len(Order) : (Len(Order) - i) + 1 \in 1..Len(Order)
    BY ONLY <2>1
  <2> QED
    BY ONLY <2>1, <2>2, <2>3
<1> HIDE DEF all, list, set
<1>2. Among(list, set) \in Seq(all \cap set)
    BY <1>1, AmongFacts
<1>3. Among(list, set) \in Seq(set) /\ <<>> \in Seq(set)
    BY ONLY <1>2
<1>4. ToUndo(results) = IF \A n \in DOMAIN results : results[n].status # "failed" THEN <<>>
                        ELSE Among(list, set)
    BY DEF ToUndo, list, set
<1> QED
    BY <1>3, <1>4 DEF set

\* All nodes of the wave have answered.
LEMMA GatherStep ==
    ASSUME SagaInv, Gather
    PROVE  SagaInv' /\ SagaStep
<1> DEFINE over    == {j \in jobs : j.alive}
           results == [n \in {j.node : j \in over} |-> Outcome(CHOOSE j \in over : j.node = n)]
<1>1. /\ wave.phase = "work" /\ jobs' = jobs \ over
      /\ wave' = [wave EXCEPT !.phase = "undo", !.results = results, !.undo = ToUndo(results)]
      /\ UNCHANGED <<def, faults, mode, run, lost>>
    BY DEF Gather, history
<1>2. /\ DOMAIN wave' = {"phase", "base", "results", "undo", "moved"}
      /\ wave'.phase = "undo" /\ wave'.results = results /\ wave'.undo = ToUndo(results)
      /\ wave'.base = wave.base /\ wave'.moved = wave.moved /\ wave.moved \in BOOLEAN
    BY <1>1 DEF SagaInv, FormInv, WaveForm
<1>3. \A j \in jobs' : JobForm(j) /\ ~j.alive
    BY <1>1 DEF SagaInv, FormInv
<1>4. \A n \in DOMAIN results : \E j \in jobs :
         j.alive /\ JobForm(j) /\ j.node = n /\ results[n] = Outcome(j)
    BY DEF SagaInv, FormInv
<1> HIDE DEF results, over
<1>5. \A n \in DOMAIN results :
         /\ n \in DOMAIN def /\ NodeForm(results[n]) /\ Fits(n, results[n].status)
         /\ results[n].status = "compensated" => n \in Compensations
         /\ Open(n) /\ (Promised(n) => Met(n))
    BY <1>4, OutcomeFacts DEF JobForm, SagaInv, WaveInv, OrderInv
<1>6. /\ ToUndo(results) \in Seq({n \in Compensations : wave.base[n].status = "pending"})
      /\ ToUndo(results) # <<>> => \E n \in DOMAIN results : results[n].status = "failed"
    BY ToUndoFacts
<1>7. /\ ToUndo(results) \in Seq(Compensations)
      /\ \A i \in DOMAIN ToUndo(results) : Open(ToUndo(results)[i])
  <2> DEFINE undo == ToUndo(results)
  <2> HIDE DEF undo
  <2>1. undo \in Seq({n \in Compensations : wave.base[n].status = "pending"})
    BY <1>6 DEF undo
  <2>2. undo \in Seq(Compensations) /\ \A i \in DOMAIN undo :
           undo[i] \in Compensations /\ wave.base[undo[i]].status = "pending"
    BY ONLY <2>1
  <2>3. \A n \in Compensations : wave.base[n].status = "pending" => Open(n)
    BY <1>1 DEF SagaInv, WaveInv, Compensations
  <2> QED
    BY <2>2, <2>3 DEF undo
<1>8. FormInv'
  <2>1. WaveForm'
    <3>1. Required' = Required /\ Compensations' = Compensations /\ DOMAIN def' = DOMAIN def
      BY <1>1, SameRun
    <3> QED
      BY ONLY <1>2, <1>5, <1>7, <3>1 DEF WaveForm, NodeForm, Fits
  <2> QED
    BY <1>1, <1>3, <2>1, SameRun DEF SagaInv, FormInv
<1>9. WaveInv'
  <2>1. mode = "serving"
    BY <1>1 DEF SagaInv, WaveInv, NoWave
  <2>2. \A n \in DOMAIN def : wave.base[n].status = "pending" => Open(n)
    BY <1>1 DEF SagaInv, WaveInv
  <2> QED
    BY <1>1, <1>2, <1>3, <1>5, <1>7, <2>1, <2>2, SameRun DEF WaveInv
<1>10. UnmovedInv'
  <2>a. SUFFICES ASSUME ~wave.moved PROVE UnmovedInv'
    BY <1>2 DEF UnmovedInv
  <2>1. /\ wave.base = run.nodes /\ run.status \notin Ended \cup {"paused"}
        /\ run.status = "failed" => \A j \in jobs : j.alive => j.node \in Compensations
        /\ run.status # "failed" => \A j \in jobs : j.alive => j.node \in Required
        /\ \A j \in jobs : j.alive /\ j.node \in Compensations => Undoes(j.node)
    BY <1>1, <2>a DEF SagaInv, UnmovedInv
  <2>2. /\ run.status = "failed" => DOMAIN results \subseteq Compensations
        /\ run.status # "failed" => DOMAIN results \subseteq Required
    BY <1>4, <2>1
  <2>0. Required \cap Compensations = {}
    BY DEF Compensations
  <2>3. ASSUME NEW n \in DOMAIN results, results[n].status = "compensated" PROVE Undoes(n)'
    <3>1. n \in Compensations /\ Undoes(n)
      BY <1>4, <1>5, <2>1, <2>3
    <3>2. DOMAIN results \subseteq Compensations
      BY <2>0, <2>2, <3>1
    <3>3. def[n].refersTo \in Required
      BY <3>1, DefinitionFacts DEF SagaInv, FormInv
    <3>4. def[n].refersTo \notin DOMAIN results
      BY ONLY <2>0, <3>2, <3>3
    <3>5. wave.results = <<>>
      BY <1>1 DEF SagaInv, WaveInv
    <3>6. wave.base[def[n].refersTo].status = "verified_complete"
      BY <3>1, <3>5 DEF Undoes
    <3>7. def' = def
      BY <1>1
    <3> QED
      BY ONLY <1>2, <3>4, <3>6, <3>7 DEF Undoes
  <2>4. UnmovedInv' <=>
           /\ wave.base = run'.nodes /\ run'.status \notin Ended \cup {"paused"}
           /\ run'.status = "failed" => /\ \A j \in jobs' : j.alive => j.node \in Compensations'
                                        /\ DOMAIN results \subseteq Compensations'
           /\ run'.status # "failed" =>
                 (ToUndo(results) # <<>> \/ DOMAIN results \cap Compensations' # {} =>
                    \E n \in Required' \cap DOMAIN results : results[n].status = "failed")
           /\ \A j \in jobs' : j.alive /\ j.node \in Compensations' => Undoes(j.node)'
           /\ \A n \in DOMAIN results : results[n].status = "compensated" => Undoes(n)'
    BY ONLY <1>2, <2>a DEF UnmovedInv
  <2>5. Required' = Required /\ Compensations' = Compensations
    BY <1>1, SameRun
  <2>6. /\ wave.base = run'.nodes /\ run'.status \notin Ended \cup {"paused"}
        /\ run'.status = "failed" => /\ \A j \in jobs' : j.alive => j.node \in Compensations'
                                     /\ DOMAIN results \subseteq Compensations'
        /\ run'.status # "failed" =>
              (ToUndo(results) # <<>> \/ DOMAIN results \cap Compensations' # {} =>
                 \E n \in Required' \cap DOMAIN results : results[n].status = "failed")
    BY <1>1, <1>3, <1>6, <2>0, <2>1, <2>2, <2>5
  <2>7. \A j \in jobs' : j.alive /\ j.node \in Compensations' => Undoes(j.node)'
    BY ONLY <1>3
  <2> QED
    BY ONLY <2>3, <2>4, <2>6, <2>7, Zenon
<1>11. OrderInv'
    BY <1>1, <1>2, <1>3, <1>5, SameRun DEF SagaInv, OrderInv
<1> QED
    BY <1>1, <1>8, <1>9, <1>10, <1>11, RunStutters DEF SagaInv
\* A compensation has answered, or was not needed: its result is noted.
LEMMA ResultKeeps ==
    ASSUME SagaInv, UNCHANGED <<def, faults, mode, run>>, wave.phase = "undo", wave.undo # <<>>,
           NEW state, NodeForm(state), Fits(Head(wave.undo), state.status),
           state.status = "compensated" => Undoes(Head(wave.undo)),
           wave' = [wave EXCEPT !.undo = Tail(@), !.results = Noted(Head(wave.undo), state)],
           jobs' \subseteq jobs, \A j \in jobs' : ~j.alive
    PROVE  SagaInv'
<1> DEFINE n == Head(wave.undo)
           results == Noted(n, state)
<1>1. wave.undo \in Seq(Compensations) /\ \A i \in DOMAIN wave.undo : Open(wave.undo[i])
    BY DEF SagaInv, FormInv, WaveForm, WaveInv
<1>2. /\ n \in Compensations /\ Open(n) /\ Tail(wave.undo) \in Seq(Compensations)
      /\ \A i \in DOMAIN Tail(wave.undo) : Open(Tail(wave.undo)[i])
  <2>1. n = wave.undo[1] /\ 1 \in DOMAIN wave.undo
    BY <1>1
  <2>2. \A i \in DOMAIN Tail(wave.undo) :
           i + 1 \in DOMAIN wave.undo /\ Tail(wave.undo)[i] = wave.undo[i + 1]
    BY <1>1
  <2> QED
    BY <1>1, <2>1, <2>2
<1>3. n \in DOMAIN def /\ n \notin Required
    BY <1>2 DEF Compensations
<1>4. /\ DOMAIN wave' = {"phase", "base", "results", "undo", "moved"}
      /\ wave'.phase = "undo" /\ wave'.results = results /\ wave'.undo = Tail(wave.undo)
      /\ wave'.base = wave.base /\ wave'.moved = wave.moved /\ wave.moved \in BOOLEAN
    BY DEF SagaInv, FormInv, WaveForm
<1>5. /\ DOMAIN results = {n} \cup DOMAIN wave.results /\ results[n] = state
      /\ \A m \in DOMAIN wave.results : m # n => results[m] = wave.results[m]
    BY DEF Noted
<1> HIDE DEF results
<1>6. /\ DOMAIN wave.results \subseteq DOMAIN def
      /\ \A m \in DOMAIN wave.results :
            /\ NodeForm(wave.results[m]) /\ Fits(m, wave.results[m].status)
            /\ Open(m) /\ (Promised(m) => Met(m))
    BY DEF SagaInv, FormInv, WaveForm, WaveInv, OrderInv
<1>7. \A m \in DOMAIN results :
         /\ m \in DOMAIN def /\ NodeForm(results[m]) /\ Fits(m, results[m].status)
         /\ Open(m) /\ (Promised(m) => Met(m))
    BY <1>2, <1>3, <1>5, <1>6 DEF Promised
<1>8. FormInv'
  <2>1. Required' = Required /\ Compensations' = Compensations /\ DOMAIN def' = DOMAIN def
    BY SameRun
  <2>2. WaveForm'
    BY ONLY <1>2, <1>4, <1>7, <2>1 DEF WaveForm, NodeForm, Fits
  <2>3. \A j \in jobs' : JobForm(j)'
    BY SameRun DEF SagaInv, FormInv
  <2> QED
    BY <2>2, <2>3, SameRun DEF SagaInv, FormInv
<1>9. WaveInv'
  <2>1. mode = "serving"
    BY DEF SagaInv, WaveInv, NoWave
  <2>2. \A m \in DOMAIN def : wave.base[m].status = "pending" => Open(m)
    BY DEF SagaInv, WaveInv
  <2> QED
    BY <1>2, <1>4, <1>7, <2>1, <2>2, SameRun DEF WaveInv
<1>10. UnmovedInv'
  <2>a. SUFFICES ASSUME ~wave.moved PROVE UnmovedInv'
    BY <1>4 DEF UnmovedInv
  <2>1. /\ wave.base = run.nodes /\ run.status \notin Ended \cup {"paused"}
        /\ run.status = "failed" => DOMAIN wave.results \subseteq Compensations
        /\ run.status # "failed" => \E m \in Required \cap DOMAIN wave.results :
                                       wave.results[m].status = "failed"
        /\ \A m \in DOMAIN wave.results : wave.results[m].status = "compensated" => Undoes(m)
    BY <2>a DEF SagaInv, UnmovedInv
  <2>2. \A m \in Compensations : Undoes(m) => Undoes(m)'
    <3>1. ASSUME NEW m \in Compensations, Undoes(m) PROVE Undoes(m)'
      <4>1. def[m].refersTo \in Required /\ def' = def
        BY DefinitionFacts DEF SagaInv, FormInv
      <4>2. def[m].refersTo # n
        BY <1>3, <4>1
      <4> QED
        BY ONLY <1>4, <1>5, <3>1, <4>1, <4>2 DEF Undoes
    <3> QED
      BY <3>1
  <2>3. ASSUME NEW m \in DOMAIN results, results[m].status = "compensated" PROVE Undoes(m)'
    <3>1. m \in Compensations
      <4>1. Fits(m, "compensated") /\ m \in DOMAIN def
        BY <1>7, <2>3
      <4> QED
        BY <4>1 DEF Fits, Compensations
    <3>2. Undoes(m)
      BY <1>5, <2>1, <2>3
    <3> QED
      BY <2>2, <3>1, <3>2
  <2>4. UnmovedInv' <=>
           /\ wave.base = run'.nodes /\ run'.status \notin Ended \cup {"paused"}
           /\ run'.status = "failed" => /\ \A j \in jobs' : j.alive => j.node \in Compensations'
                                        /\ DOMAIN results \subseteq Compensations'
           /\ run'.status # "failed" =>
                 (Tail(wave.undo) # <<>> \/ DOMAIN results \cap Compensations' # {} =>
                    \E m \in Required' \cap DOMAIN results : results[m].status = "failed")
           /\ \A j \in jobs' : j.alive /\ j.node \in Compensations' => Undoes(j.node)'
           /\ \A m \in DOMAIN results : results[m].status = "compensated" => Undoes(m)'
    BY ONLY <1>4, <2>a DEF UnmovedInv
  <2>5. Required' = Required /\ Compensations' = Compensations
    BY SameRun
  <2>6. /\ wave.base = run'.nodes /\ run'.status \notin Ended \cup {"paused"}
        /\ run'.status = "failed" => /\ \A j \in jobs' : j.alive => j.node \in Compensations'
                                     /\ DOMAIN results \subseteq Compensations'
        /\ run'.status # "failed" =>
              \E m \in Required' \cap DOMAIN results : results[m].status = "failed"
    BY <1>2, <1>3, <1>5, <2>1, <2>5
  <2>7. \A j \in jobs' : j.alive /\ j.node \in Compensations' => Undoes(j.node)'
    OBVIOUS
  <2> QED
    BY ONLY <2>3, <2>4, <2>6, <2>7, Zenon
<1>11. OrderInv'
  <2>1. \A j \in jobs' : ~j.alive
    OBVIOUS
  <2> QED
    BY <1>4, <1>7, <2>1, SameRun DEF SagaInv, OrderInv
<1> QED
    BY <1>8, <1>9, <1>10, <1>11 DEF SagaInv

\* A compensation is skipped, begins, or has answered.
LEMMA UndoStep ==
    ASSUME SagaInv, UndoNext
    PROVE  SagaInv' /\ SagaStep
<1> DEFINE n == Head(wave.undo)
           Result(state) ==
               wave' = [wave EXCEPT !.undo = Tail(@), !.results = Noted(n, state)]
<1>1. /\ UNCHANGED <<def, faults, mode, run, lost>> /\ wave.phase = "undo" /\ wave.undo # <<>>
      /\ \/ ~Undoes(n) /\ Result(NodeState("skipped", <<>>, 0)) /\ UNCHANGED jobs
         \/ /\ Undoes(n) /\ \A j \in jobs : ~j.alive
            /\ jobs' = jobs \cup {[Job(n, 1, "none") EXCEPT
                                      !.ids = <<SomeId(wave.base[n].ids, 1)>>]}
            /\ UNCHANGED wave
         \/ \E j \in jobs : /\ j.alive /\ j.node = n
                            /\ Result(Outcome(j)) /\ jobs' = jobs \ {j}
    BY DEF UndoNext, history
<1>2. n \in Compensations /\ n \in DOMAIN def /\ n \notin Required /\ Open(n)
  <2>1. wave.undo \in Seq(Compensations) /\ \A i \in DOMAIN wave.undo : Open(wave.undo[i])
    BY DEF SagaInv, FormInv, WaveForm, WaveInv
  <2>3. wave.undo # <<>>
    BY <1>1
  <2>2. n = wave.undo[1] /\ 1 \in DOMAIN wave.undo
    BY ONLY <2>1, <2>3
  <2> QED
    BY <2>1, <2>2 DEF Compensations
<1>3. \A j \in jobs : j.alive => /\ j.node = n /\ Undoes(n)
                                 /\ \A other \in jobs : other.alive => other = j
    BY <1>1 DEF SagaInv, WaveInv
<1>4. SagaStep
    BY <1>1, RunStutters
<1>5. CASE ~Undoes(n) /\ Result(NodeState("skipped", <<>>, 0)) /\ UNCHANGED jobs
  <2> DEFINE state == NodeState("skipped", <<>>, 0)
  <2>1. NodeForm(state) /\ Fits(n, state.status) /\ state.status # "compensated"
    BY <1>2 DEF NodeState, NodeForm, Fits
  <2>2. \A j \in jobs' : ~j.alive
    BY <1>3, <1>5
  <2> HIDE DEF state
  <2> QED
    BY <1>1, <1>4, <1>5, <2>1, <2>2, ResultKeeps DEF state
<1>6. ASSUME NEW j \in jobs, j.alive, j.node = n, Result(Outcome(j)), jobs' = jobs \ {j}
      PROVE  SagaInv'
  <2>1. JobForm(j)
    BY DEF SagaInv, FormInv
  <2>2. NodeForm(Outcome(j)) /\ Fits(n, Outcome(j).status) /\ Undoes(n)
    BY <1>3, <1>6, <2>1, OutcomeFacts
  <2>3. \A other \in jobs' : ~other.alive
    BY <1>3, <1>6
  <2> QED
    BY <1>1, <1>6, <2>2, <2>3, ResultKeeps
<1>7. CASE /\ Undoes(n) /\ \A j \in jobs : ~j.alive
           /\ jobs' = jobs \cup {[Job(n, 1, "none") EXCEPT
                                     !.ids = <<SomeId(wave.base[n].ids, 1)>>]}
           /\ UNCHANGED wave
  <2> DEFINE made == Job(n, 1, "none")
             job  == [made EXCEPT !.ids = <<SomeId(wave.base[n].ids, 1)>>]
  <2>1. JobForm(made) /\ made.node = n /\ made.alive
    BY <1>2 DEF Job, JobForm, Answers
  <2> HIDE DEF made
  <2>2. JobForm(job) /\ job.node = n /\ job.alive
    BY <2>1 DEF JobForm
  <2>3. jobs' = jobs \cup {job}
    BY <1>7 DEF made
  <2> HIDE DEF job
  <2>4. \A other \in jobs' : JobForm(other) /\ (other.alive => other = job)
    BY <1>7, <2>2, <2>3 DEF SagaInv, FormInv
  <2>5. FormInv'
    BY <1>1, <1>7, <2>4, SameRun DEF SagaInv, FormInv, WaveForm, NodeForm
  <2>6. \A m : Undoes(m)' <=> Undoes(m)
    BY <1>1, <1>7 DEF Undoes
  <2>7. WaveInv'
    <3>a. NoWave.phase = "none"
      BY DEF NoWave
    <3>0. mode = "serving" /\ wave # NoWave
      BY <1>1, <3>a DEF SagaInv, WaveInv
    <3>1. /\ wave' = wave /\ mode' = mode /\ def' = def
          /\ \A j \in jobs' : j.alive => j.node = n /\ \A other \in jobs' : other.alive => other = j
      BY <1>1, <1>7, <2>2, <2>4
    <3>2. \A j \in jobs' : j.alive =>
             /\ wave'.undo # <<>> /\ j.node = Head(wave'.undo) /\ Undoes(j.node)'
             /\ \A other \in jobs' : other.alive => other = j
      BY <1>1, <1>7, <2>6, <3>1
    <3>3. \A j \in jobs' : j.alive => Open(j.node)'
      BY <1>1, <1>2, <3>1, SameRun
    <3>4. /\ wave.phase # "none" => \A m \in DOMAIN def : wave.base[m].status = "pending" => Open(m)
          /\ \A i \in DOMAIN wave.undo : Open(wave.undo[i])
          /\ \A m \in DOMAIN wave.results : Open(m)
      BY DEF SagaInv, WaveInv
    <3>5. \A m : Open(m)' <=> Open(m)
      BY <1>1, SameRun
    <3> QED
      BY <1>1, <3>0, <3>1, <3>2, <3>3, <3>4, <3>5 DEF WaveInv
  <2>8. UnmovedInv'
    BY <1>1, <1>2, <1>7, <2>2, <2>4, <2>6, SameRun DEF SagaInv, UnmovedInv
  <2>9. OrderInv'
    <3>1. wave' = wave /\ run' = run /\ \A j \in jobs' : j.alive => j.node = n
      BY <1>1, <1>7, <2>2, <2>4
    <3> QED
      BY <1>1, <1>2, <3>1, SameRun DEF SagaInv, OrderInv, Promised
  <2> QED
    BY <1>4, <2>5, <2>7, <2>8, <2>9 DEF SagaInv
<1> QED
    BY <1>1, <1>4, <1>5, <1>6, <1>7
-----------------------------------------------------------------------------
(* Steps that change the run.                                                  *)

\* Nodes of a run that goes on complete in the order of their dependencies.
LEMMA WorkMoves ==
    ASSUME UNCHANGED <<def, faults, lost>>, def \in Definitions,
           run.status \notin Ended \cup {"failed"}, run'.status # "cancelled",
           \A n \in Required : def[n].type # "approval" /\ Status(n) = "verified_complete" =>
               Status(n)' = "verified_complete",
           \A n \in Required : Status(n)' = "verified_complete" =>
               Status(n) = "verified_complete" \/ def[n].type = "approval" \/ Met(n),
           run'.status = "verified_complete" =>
               \A n \in Required : Status(n)' = "verified_complete",
           \A n \in Compensations : Status(n) = "compensated" => Status(n)' = "compensated",
           \A n \in Compensations : Status(n)' = "compensated" =>
               \/ Status(n) = "compensated"
               \/ run'.status = "failed" /\ Status(def[n].refersTo)' = "verified_complete"
    PROVE  SagaStep
<1> DEFINE Done == {n \in Required : /\ def[n].type # "approval"
                                     /\ run.nodes[n].status = "verified_complete"}
           Undone == {n \in Compensations \ lost : run.nodes[n].status = "compensated"}
           Needs == [n \in {m \in Required : def[m].type # "approval"} |->
                        {m \in Dependencies(def, n) \cap Required : def[m].type # "approval"}]
           Undoing == [n \in Compensations |-> def[n].refersTo]
<1>1. /\ Required' = Required /\ Compensations' = Compensations
      /\ \A n : Dependencies(def, n)' = Dependencies(def, n)
    BY DEF Required, Compensations, Dependencies
<1>2. Done \subseteq Done'
    BY <1>1 DEF Status
<1>3. \A n \in Done' \ Done : Needs[n] \subseteq Done
    BY <1>1 DEF Status, Met, Target
<1>4. Undone \subseteq Undone'
    BY <1>1 DEF Status
<1>5. \A n \in Undone' \ Undone : run'.status = "failed" /\ Undoing[n] \in Done'
  <2>1. ASSUME NEW n \in Undone' \ Undone
        PROVE  run'.status = "failed" /\ Undoing[n] \in Done'
    <3>1. n \in Compensations /\ Status(n)' = "compensated" /\ Status(n) # "compensated"
      BY <1>1, <2>1 DEF Status
    <3>2. run'.status = "failed" /\ Status(def[n].refersTo)' = "verified_complete"
      BY <3>1
    <3>3. def[n].refersTo \in Required /\ def[def[n].refersTo].type = "operation"
      BY <3>1, DefinitionFacts
    <3> QED
      BY <1>1, <3>1, <3>2, <3>3 DEF Status
  <2> QED
    BY <2>1
<1>6. run'.status = "verified_complete" => Done' = {n \in Required : def[n].type # "approval"}
    BY <1>1 DEF Status
<1>7. Needs' = Needs /\ Undoing' = Undoing
      /\ {n \in Required : def[n].type # "approval"}' = {n \in Required : def[n].type # "approval"}
    BY <1>1
<1>8. run.status \notin {"failed", "verified_complete", "cancelled"}
    BY DEF Ended
<1>9. Workflow!Progress
    BY <1>2, <1>3 DEF Workflow!Progress
<1>10. Workflow!Work
    BY <1>4, <1>5, <1>6, <1>8, <1>9 DEF Workflow!Work
<1> QED
    BY <1>7, <1>10 DEF SagaStep, Workflow!SagaNext

\* A run that has failed undoes verified operations.
LEMMA UndoMoves ==
    ASSUME UNCHANGED <<def, faults, lost>>, def \in Definitions,
           run.status = "failed", run'.status = "failed",
           \A n \in Required : Status(n)' = Status(n),
           \A n \in Compensations : Status(n) = "compensated" => Status(n)' = "compensated",
           \A n \in Compensations : Status(n)' = "compensated" =>
               Status(n) = "compensated" \/ Status(def[n].refersTo) = "verified_complete"
    PROVE  SagaStep
<1> DEFINE Done == {n \in Required : /\ def[n].type # "approval"
                                     /\ run.nodes[n].status = "verified_complete"}
           Undone == {n \in Compensations \ lost : run.nodes[n].status = "compensated"}
           Needs == [n \in {m \in Required : def[m].type # "approval"} |->
                        {m \in Dependencies(def, n) \cap Required : def[m].type # "approval"}]
           Undoing == [n \in Compensations |-> def[n].refersTo]
<1>1. /\ Required' = Required /\ Compensations' = Compensations
      /\ \A n : Dependencies(def, n)' = Dependencies(def, n)
    BY DEF Required, Compensations, Dependencies
<1>2. Done' = Done
    BY <1>1 DEF Status
<1>3. Undone \subseteq Undone'
    BY <1>1 DEF Status
<1>4. \A n \in Undone' \ Undone : Undoing[n] \in Done
  <2>1. ASSUME NEW n \in Undone' \ Undone PROVE Undoing[n] \in Done
    <3>1. n \in Compensations /\ Status(n)' = "compensated" /\ Status(n) # "compensated"
      BY <1>1, <2>1 DEF Status
    <3>2. Status(def[n].refersTo) = "verified_complete"
      BY <3>1
    <3>3. def[n].refersTo \in Required /\ def[def[n].refersTo].type = "operation"
      BY <3>1, DefinitionFacts
    <3> QED
      BY <3>1, <3>2, <3>3 DEF Status
  <2> QED
    BY <2>1
<1>5. Needs' = Needs /\ Undoing' = Undoing
      /\ {n \in Required : def[n].type # "approval"}' = {n \in Required : def[n].type # "approval"}
    BY <1>1
<1>6. Workflow!Undo
    BY <1>2, <1>3, <1>4 DEF Workflow!Undo
<1> QED
    BY <1>5, <1>6 DEF SagaStep, Workflow!SagaNext

\* What a complete run does not need is skipped, and all else stays as it is.
LEMMA SkipFacts ==
    ASSUME NEW given, DOMAIN given = DOMAIN def,
           \A n \in DOMAIN def : NodeForm(given[n]) /\ Fits(n, given[n].status)
    PROVE  /\ DOMAIN SkipUnused(given) = DOMAIN def
           /\ \A n \in DOMAIN def : /\ NodeForm(SkipUnused(given)[n])
                                    /\ Fits(n, SkipUnused(given)[n].status)
                                    /\ SkipUnused(given)[n].status = "compensated" <=>
                                          given[n].status = "compensated"
           /\ \A n \in Required : SkipUnused(given)[n] = given[n]
<1>1. /\ DOMAIN SkipUnused(given) = DOMAIN def
      /\ \A n \in DOMAIN def :
            \/ SkipUnused(given)[n] = given[n]
            \/ /\ n \in Compensations /\ given[n].status = "pending"
               /\ SkipUnused(given)[n] = [given[n] EXCEPT !.status = "skipped"]
    BY DEF SkipUnused
<1>2. \A n \in DOMAIN def : LET state == [given[n] EXCEPT !.status = "skipped"]
                            IN NodeForm(state) /\ state.status = "skipped"
    BY DEF NodeForm
<1>3. Required \subseteq DOMAIN def /\ Required \cap Compensations = {}
    BY DEF Required, Compensations
<1> QED
    BY <1>1, <1>2, <1>3 DEF Fits
\* The outcomes of a wave are committed, or lost.
LEMMA CommitStep ==
    ASSUME SagaInv, Commit
    PROVE  SagaInv' /\ (Supported => SagaStep)
<1> DEFINE given   == [n \in DOMAIN def |-> IF n \in DOMAIN wave.results THEN wave.results[n]
                                                                         ELSE run.nodes[n]]
           nodes   == SkipUnused(given)
           derived == DeriveStatus(nodes)
<1>1. /\ wave.phase = "undo" /\ wave.undo = <<>> /\ wave' = NoWave
      /\ UNCHANGED <<def, faults, mode, jobs>>
      /\ \/ lost' = lost \cup DOMAIN wave.results /\ UNCHANGED run
         \/ ~wave.moved /\ run' = [run EXCEPT !.nodes = nodes, !.status = derived]
            /\ UNCHANGED lost
    BY DEF Commit
<1>2. \A j \in jobs' : JobForm(j)' /\ ~j.alive
  <2>1. \A j \in jobs : JobForm(j) /\ ~j.alive
    BY <1>1 DEF SagaInv, FormInv, WaveInv
  <2> QED
    BY <1>1, <2>1 DEF JobForm
<1>3. mode' = "serving" /\ def \in Definitions /\ def' = def
  <2>1. NoWave.phase = "none"
    BY DEF NoWave
  <2> QED
    BY <1>1, <2>1 DEF SagaInv, WaveInv, FormInv
<1>4. \A n \in DOMAIN wave.results :
         n \in DOMAIN def /\ NodeForm(wave.results[n]) /\ Fits(n, wave.results[n].status)
         /\ Open(n) /\ (Promised(n) => Met(n))
    BY DEF SagaInv, FormInv, WaveForm, WaveInv, OrderInv
<1>5. CASE lost' = lost \cup DOMAIN wave.results /\ UNCHANGED run
  <2>1. SagaStep
    BY <1>1, <1>3, <1>4, <1>5, LossStutters DEF Open
  <2>2. RunForm' /\ RunOrder'
    BY <1>1, <1>3, <1>5, SameRun DEF SagaInv, FormInv, OrderInv
  <2> QED
    BY <1>1, <1>2, <1>3, <2>1, <2>2, IdleKeeps
<1>6. CASE ~wave.moved /\ run' = [run EXCEPT !.nodes = nodes, !.status = derived]
           /\ UNCHANGED lost
  <2>0. /\ Required \cup Compensations = DOMAIN def /\ Required \cap Compensations = {}
        /\ \A n \in Compensations : def[n].refersTo \in Required
    BY <1>3, DefinitionFacts
  <2>1. /\ DOMAIN given = DOMAIN def
        /\ \A n \in DOMAIN def : given[n] = IF n \in DOMAIN wave.results THEN wave.results[n]
                                                                         ELSE run.nodes[n]
    OBVIOUS
  <2>2. /\ DOMAIN run = {"status", "error", "nodes"} /\ run.status \in RunStatus
        /\ \A n \in DOMAIN def : NodeForm(run.nodes[n]) /\ Fits(n, Status(n))
    BY DEF SagaInv, FormInv, RunForm
  <2> HIDE DEF given
  <2>3. \A n \in DOMAIN def : NodeForm(given[n]) /\ Fits(n, given[n].status)
    BY <1>4, <2>1, <2>2 DEF Status
  <2>4. /\ DOMAIN nodes = DOMAIN def
        /\ \A n \in DOMAIN def : /\ NodeForm(nodes[n]) /\ Fits(n, nodes[n].status)
                                 /\ nodes[n].status = "compensated" <=>
                                       given[n].status = "compensated"
        /\ \A n \in Required : nodes[n] = given[n]
    BY <2>1, <2>3, SkipFacts
  <2> HIDE DEF nodes
  <2>5. /\ derived = "failed" <=> \E n \in Required : nodes[n].status = "failed"
        /\ derived \in RunStatus \ {"planned", "paused", "cancelled"}
        /\ derived = "verified_complete" => \A n \in Required : nodes[n].status \in DoneStatus
    BY DerivedFacts
  <2> HIDE DEF derived
  <2>6. /\ run'.status = derived /\ run'.nodes = nodes
        /\ DOMAIN run' = {"status", "error", "nodes"}
    BY <1>6, <2>2
  <2>7. /\ Required' = Required /\ Compensations' = Compensations
        /\ \A n : Dependencies(def, n)' = Dependencies(def, n)
        /\ \A n, status : Fits(n, status)' <=> Fits(n, status)
    BY <1>3 DEF Required, Compensations, Dependencies, Fits
  <2>a. \A n : (Promised(n)' <=> Promised(n)) /\ Target(n)' = Target(n)
    BY <1>1, SamePlan
  <2>8. RunForm'
    BY <1>3, <2>4, <2>5, <2>6, <2>7 DEF RunForm, Status, NodeForm, Fits
  <2>9. \A n \in Required : Status(n)' = given[n].status
    BY <2>4, <2>6 DEF Status
  <2>10. \A n \in Required : Status(n) = "verified_complete" => Status(n)' = "verified_complete"
    BY <1>4, <2>0, <2>1, <2>9 DEF Status, Open
  <2>11. \A n : Met(n) => Met(n)'
    BY <1>3, <2>7, <2>a, <2>10 DEF Met
  <2>12. ASSUME NEW n \in Required, Promised(n) PROVE Status(n)' \in {"pending", "cancelled"} \/ Met(n)
    <3>1. CASE n \in DOMAIN wave.results
      BY <1>4, <2>12, <3>1
    <3>2. CASE n \notin DOMAIN wave.results
      <4>1. Status(n)' = Status(n)
        BY <2>0, <2>1, <2>9, <3>2 DEF Status
      <4> QED
        BY <2>12, <4>1 DEF SagaInv, OrderInv, RunOrder
    <3> QED
      BY <3>1, <3>2
  <2>13. RunOrder'
    <3>1. run'.status = "failed" => \E n \in Required' : Status(n)' = "failed"
      BY <2>4, <2>5, <2>6, <2>7 DEF Status
    <3> QED
      BY <2>7, <2>a, <2>11, <2>12, <3>1 DEF RunOrder
  <2>14. SagaInv'
    BY <1>1, <1>2, <1>3, <2>8, <2>13, IdleKeeps
  <2>15. /\ wave.base = run.nodes /\ run.status \notin Ended \cup {"paused"}
         /\ run.status = "failed" => DOMAIN wave.results \subseteq Compensations
         /\ run.status # "failed" =>
               (DOMAIN wave.results \cap Compensations # {} =>
                   \E n \in Required \cap DOMAIN wave.results :
                      wave.results[n].status = "failed")
         /\ \A n \in DOMAIN wave.results : wave.results[n].status = "compensated" => Undoes(n)
    BY <1>1, <1>6 DEF SagaInv, UnmovedInv
  <2>16. \A n \in Compensations : Status(n) = "compensated" => Status(n)' = "compensated"
    BY <1>4, <2>0, <2>1, <2>4, <2>6 DEF Status, Open
  <2>17. ASSUME NEW n \in Compensations, Status(n)' = "compensated", Status(n) # "compensated"
         PROVE  /\ n \in DOMAIN wave.results
                /\ Status(def[n].refersTo)' = "verified_complete"
    <3>1. given[n].status = "compensated"
      BY <2>0, <2>4, <2>6, <2>17 DEF Status
    <3>2. n \in DOMAIN wave.results /\ wave.results[n].status = "compensated"
      BY <2>0, <2>1, <2>17, <3>1 DEF Status
    <3>3. Undoes(n)
      BY <2>15, <3>2
    <3>4. given[def[n].refersTo].status = "verified_complete"
      BY <2>0, <2>1, <2>15, <3>3 DEF Undoes
    <3>5. Status(def[n].refersTo)' = given[def[n].refersTo].status
      BY <1>3, <2>0, <2>4, <2>6, <2>17 DEF Status
    <3> QED
      BY <3>2, <3>4, <3>5
  <2>18. CASE run.status = "failed"
    <3>1. \A n \in Required : Status(n)' = Status(n)
      BY <2>0, <2>1, <2>9, <2>15, <2>18 DEF Status
    <3>2. run'.status = "failed"
      <4>1. \E n \in Required : Status(n) = "failed"
        BY <2>18 DEF SagaInv, OrderInv, RunOrder
      <4> QED
        BY <2>4, <2>5, <2>6, <3>1, <4>1 DEF Status
    <3>3. \A n \in Compensations : Status(n)' = "compensated" =>
             Status(n) = "compensated" \/ Status(def[n].refersTo) = "verified_complete"
      <4>1. ASSUME NEW n \in Compensations, Status(n)' = "compensated", Status(n) # "compensated"
            PROVE  Status(def[n].refersTo) = "verified_complete"
        <5>1. Status(def[n].refersTo)' = "verified_complete" /\ def[n].refersTo \in Required
          BY <2>0, <2>17, <4>1
        <5> QED
          BY <1>3, <3>1, <5>1 DEF Status
      <4> QED
        BY <4>1
    <3>4. SagaStep
      BY <1>1, <1>3, <1>6, <2>16, <2>18, <3>1, <3>2, <3>3, UndoMoves
    <3> QED
      BY <2>14, <3>4
  <2>19. CASE run.status # "failed"
    <3>1. run.status \notin Ended \cup {"failed"} /\ run'.status # "cancelled"
      BY <2>5, <2>6, <2>15, <2>19
    <3>2. ASSUME Supported, NEW n \in Required, Status(n)' = "verified_complete"
          PROVE  Status(n) = "verified_complete" \/ def[n].type = "approval" \/ Met(n)
      BY <2>12, <3>2 DEF Promised
    <3>3. ASSUME run'.status = "verified_complete", NEW n \in Required
          PROVE  Status(n)' = "verified_complete"
      <4>1. nodes[n].status \in DoneStatus /\ Fits(n, nodes[n].status)
        BY <2>0, <2>4, <2>5, <2>6, <3>3
      <4> QED
        BY <2>6, <4>1 DEF Status, Fits, DoneStatus
    <3>4. ASSUME NEW n \in Compensations, Status(n)' = "compensated", Status(n) # "compensated"
          PROVE  run'.status = "failed" /\ Status(def[n].refersTo)' = "verified_complete"
      <4>1. n \in DOMAIN wave.results /\ Status(def[n].refersTo)' = "verified_complete"
        BY <2>17, <3>4
      <4>2. PICK m \in Required \cap DOMAIN wave.results : wave.results[m].status = "failed"
        BY <2>15, <2>19, <4>1
      <4>3. nodes[m].status = "failed"
        BY <2>0, <2>1, <2>4, <4>2
      <4> QED
        BY <2>5, <2>6, <4>1, <4>2, <4>3
    <3>5. Supported => SagaStep
      BY <1>1, <1>3, <1>6, <2>10, <2>16, <3>1, <3>2, <3>3, <3>4, WorkMoves
    <3> QED
      BY <2>14, <3>5
  <2> QED
    BY <2>18, <2>19
<1> QED
    BY <1>1, <1>5, <1>6
\* The run moves under a wave, or between two.
LEMMA MovedKeeps ==
    ASSUME SagaInv, UNCHANGED <<def, faults, mode, jobs>>, mode = "serving", Moved,
           RunForm', RunOrder',
           \A n \in DOMAIN def : Open(n) => Open(n)', \A n : Met(n) => Met(n)'
    PROVE  SagaInv'
<1>1. CASE Idle
  <2>1. wave' = NoWave
    BY <1>1 DEF Moved, Idle
  <2>2. \A j \in jobs : JobForm(j) /\ ~j.alive
    BY <1>1 DEF SagaInv, FormInv, WaveInv, Idle, NoWave
  <2>3. \A j \in jobs' : JobForm(j)' /\ ~j.alive
    BY <2>2 DEF JobForm
  <2> QED
    BY <2>1, <2>3, IdleKeeps DEF SagaInv, FormInv
<1>2. CASE ~Idle
  <2>1. /\ DOMAIN wave' = {"phase", "base", "results", "undo", "moved"} /\ wave'.moved = TRUE
        /\ wave'.phase = wave.phase /\ wave'.base = wave.base
        /\ wave'.results = wave.results /\ wave'.undo = wave.undo
    BY <1>2 DEF Moved, SagaInv, FormInv, WaveForm
  <2>2. wave.phase # "none"
    BY <1>2 DEF SagaInv, WaveInv, Idle
  <2>3. /\ Required' = Required /\ Compensations' = Compensations
        /\ \A j : JobForm(j)' <=> JobForm(j)
        /\ \A n, status : Fits(n, status)' <=> Fits(n, status)
    BY DEF Required, Compensations, JobForm, Fits
  <2>4. FormInv'
    <3>1. WaveForm
      BY DEF SagaInv, FormInv
    <3>a. def' = def
      OBVIOUS
    <3>2. WaveForm'
      BY ONLY <2>1, <2>3, <3>1, <3>a DEF WaveForm, NodeForm, Fits
    <3> QED
      BY <2>3, <3>2 DEF SagaInv, FormInv
  <2>5. WaveInv'
    <3>1. \A n : Undoes(n)' <=> Undoes(n)
      BY <2>1 DEF Undoes
    <3>2. /\ \A j \in jobs : j.node \in DOMAIN def
          /\ \A i \in DOMAIN wave.undo : wave.undo[i] \in DOMAIN def
          /\ \A n \in DOMAIN wave.results : n \in DOMAIN def
      BY DEF SagaInv, FormInv, JobForm, WaveForm, Compensations
    <3>3. /\ wave.phase # "none"
          /\ \A j \in jobs : j.alive => Open(j.node)'
          /\ \A n \in DOMAIN def : wave.base[n].status = "pending" => Open(n)'
          /\ \A i \in DOMAIN wave.undo : \E n : n = wave.undo[i] /\ Open(n)'
          /\ \A n \in DOMAIN wave.results : Open(n)'
      BY <2>2, <3>2 DEF SagaInv, WaveInv
    <3>4. /\ mode = "serving"
          /\ wave.phase = "work" => wave.results = <<>> /\ wave.undo = <<>>
          /\ wave.phase = "undo" => \A j \in jobs : j.alive =>
                /\ wave.undo # <<>> /\ j.node = Head(wave.undo) /\ Undoes(j.node)
                /\ \A other \in jobs : other.alive => other = j
      BY DEF SagaInv, WaveInv
    <3> QED
      BY <2>1, <3>1, <3>3, <3>4 DEF WaveInv, Open, Status
  <2>6. UnmovedInv'
    BY <2>1 DEF UnmovedInv
  <2>7. OrderInv'
    BY <2>1, <2>3, SamePlan DEF SagaInv, OrderInv
  <2> QED
    BY <2>4, <2>5, <2>6, <2>7 DEF SagaInv
<1> QED
    BY <1>1, <1>2

\* The run is paused or resumed.
LEMMA HaltStep ==
    ASSUME SagaInv, Halt \/ Resume
    PROVE  SagaInv' /\ SagaStep
<1>1. /\ UNCHANGED <<def, faults, mode, jobs, lost>> /\ mode = "serving" /\ Moved
      /\ \E status : /\ run' = [run EXCEPT !.status = status]
                     /\ status \in {"paused", "awaiting_approval", "awaiting_input", "running"}
      /\ run.status \notin Ended \cup {"failed"}
    BY DEF Halt, Resume, history, Ended
<1>2. PICK status \in {"paused", "awaiting_approval", "awaiting_input", "running"} :
         run' = [run EXCEPT !.status = status]
    BY <1>1
<1>3. /\ DOMAIN run = {"status", "error", "nodes"} /\ def \in Definitions
      /\ RunForm /\ RunOrder
    BY DEF SagaInv, FormInv, RunForm, OrderInv
<1>4. /\ DOMAIN run' = {"status", "error", "nodes"} /\ run'.status = status
      /\ run'.nodes = run.nodes /\ def' = def
    BY <1>1, <1>2, <1>3
<1>5. /\ Required' = Required /\ Compensations' = Compensations
      /\ \A n : (Open(n)' <=> Open(n)) /\ (Met(n)' <=> Met(n)) /\ Status(n)' = Status(n)
      /\ \A n, s : Fits(n, s)' <=> Fits(n, s)
    BY <1>1, <1>4, SamePlan DEF Required, Compensations, Open, Met, Status, Fits, Dependencies
<1>6. RunForm' /\ RunOrder'
  <2>1. status \in RunStatus /\ status # "failed"
    BY <1>2 DEF RunStatus
  <2>2. RunForm'
    BY <1>3, <1>4, <1>5, <2>1 DEF RunForm, NodeForm, Status, Fits
  <2> QED
    BY <1>3, <1>4, <1>5, <2>1, <2>2, SamePlan, <1>1 DEF RunOrder
<1>7. SagaInv'
    BY <1>1, <1>5, <1>6, MovedKeeps
<1>8. SagaStep
  <2>1. run'.status \notin {"cancelled", "verified_complete"}
    BY <1>2, <1>4
  <2> QED
    BY <1>1, <1>3, <1>5, <2>1, WorkMoves
<1> QED
    BY <1>7, <1>8

\* The run is cancelled: its open nodes are, and nothing else changes.
LEMMA CancelStep ==
    ASSUME SagaInv, Cancel
    PROVE  SagaInv' /\ SagaStep
<1> DEFINE open == {n \in DOMAIN def : run.nodes[n].status \in
                                          {"pending", "ready", "awaiting_approval"}}
           nodes == [n \in DOMAIN def |-> IF n \in open
                        THEN [run.nodes[n] EXCEPT !.status = "cancelled"] ELSE run.nodes[n]]
<1>1. /\ UNCHANGED <<def, faults, mode, jobs, lost>> /\ mode = "serving" /\ Moved
      /\ run' = [status |-> "cancelled", error |-> FALSE, nodes |-> nodes]
      /\ run.status \notin Ended
    BY DEF Cancel, history
<1>2. /\ DOMAIN nodes = DOMAIN def
      /\ \A n \in DOMAIN def :
            \/ n \in open /\ nodes[n] = [run.nodes[n] EXCEPT !.status = "cancelled"]
            \/ n \notin open /\ nodes[n] = run.nodes[n]
    OBVIOUS
<1>3. /\ DOMAIN run.nodes = DOMAIN def /\ def \in Definitions
      /\ \A n \in DOMAIN def : NodeForm(run.nodes[n]) /\ Fits(n, Status(n))
    BY DEF SagaInv, FormInv, RunForm
<1>4. \A n \in open : n \in DOMAIN def
                      /\ Status(n) \in {"pending", "ready", "awaiting_approval"}
    BY DEF Status
<1>5. \A n \in DOMAIN def : n \notin open =>
         Status(n) \notin {"pending", "ready", "awaiting_approval"}
    BY DEF Status
<1> HIDE DEF nodes, open
<1>6. /\ \A n \in DOMAIN def : NodeForm(nodes[n])
      /\ \A n \in open : nodes[n].status = "cancelled"
      /\ \A n \in DOMAIN def \ open : nodes[n].status = Status(n)
  <2>1. ASSUME NEW n \in DOMAIN def, n \in open
        PROVE  NodeForm(nodes[n]) /\ nodes[n].status = "cancelled"
    BY <1>2, <1>3, <2>1 DEF NodeForm
  <2>2. ASSUME NEW n \in DOMAIN def, n \notin open
        PROVE  NodeForm(nodes[n]) /\ nodes[n].status = Status(n)
    BY <1>2, <1>3, <2>2 DEF Status
  <2> QED
    BY <1>4, <2>1, <2>2
<1>7. /\ DOMAIN run' = {"status", "error", "nodes"} /\ run'.status = "cancelled"
      /\ run'.nodes = nodes /\ def' = def
    BY <1>1
<1>8. /\ Required' = Required /\ Compensations' = Compensations
      /\ Required \subseteq DOMAIN def /\ Compensations \subseteq DOMAIN def
      /\ \A n : Dependencies(def, n)' = Dependencies(def, n)
    BY <1>7 DEF Required, Compensations, Dependencies
<1>9. /\ \A n \in open : Status(n)' = "cancelled"
      /\ \A n \in DOMAIN def \ open : Status(n)' = Status(n)
    BY <1>6, <1>7 DEF Status
<1>10. RunForm'
    BY <1>2, <1>3, <1>4, <1>6, <1>7, <1>8 DEF RunForm, Status, Fits, RunStatus, Ended, NodeForm
<1>11. \A n : Met(n) => Met(n)'
    BY <1>1, SamePlan, <1>4, <1>7, <1>8, <1>9 DEF Met
<1>12. RunOrder'
  <2>1. ASSUME NEW n \in Required, Promised(n)
        PROVE  Status(n)' \in {"pending", "cancelled"} \/ Met(n)'
    BY <1>8, <1>9, <1>11, <2>1 DEF SagaInv, OrderInv, RunOrder
  <2> QED
    BY <1>1, SamePlan, <1>7, <1>8, <2>1 DEF RunOrder
<1>13. SagaInv'
  <2>1. ASSUME NEW n \in DOMAIN def, Open(n) PROVE Open(n)'
    BY <1>9, <2>1 DEF Open
  <2> QED
    BY <1>1, <1>10, <1>11, <1>12, <2>1, MovedKeeps
<1>14. SagaStep
  <2> DEFINE Done == {n \in Required : /\ def[n].type # "approval"
                                       /\ run.nodes[n].status = "verified_complete"}
             Undone == {n \in Compensations \ lost : run.nodes[n].status = "compensated"}
             Needs == [n \in {m \in Required : def[m].type # "approval"} |->
                          {m \in Dependencies(def, n) \cap Required : def[m].type # "approval"}]
             Undoing == [n \in Compensations |-> def[n].refersTo]
  <2>1. \A n \in DOMAIN def :
           /\ Status(n)' = "verified_complete" <=> Status(n) = "verified_complete"
           /\ Status(n)' = "compensated" <=> Status(n) = "compensated"
    BY <1>4, <1>9
  <2>2. Done' = Done /\ Undone' = Undone
    BY <1>1, <1>7, <1>8, <2>1 DEF Status
  <2>3. Needs' = Needs /\ Undoing' = Undoing
        /\ {n \in Required : def[n].type # "approval"}' = {n \in Required : def[n].type # "approval"}
    BY <1>7, <1>8
  <2>4. run.status \notin {"verified_complete", "cancelled"}
    BY <1>1 DEF Ended
  <2>5. Workflow!Abandon
    BY <1>7, <2>2, <2>4 DEF Workflow!Abandon
  <2> QED
    BY <2>3, <2>5 DEF SagaStep, Workflow!SagaNext
<1> QED
    BY <1>13, <1>14

\* The world changes, the process dies, and its tasks are recovered: the run stays.
LEMMA QuietStep ==
    ASSUME SagaInv, Change \/ Die \/ RecoverTasks \/ UNCHANGED vars
    PROVE  SagaInv' /\ SagaStep
<1>1. UNCHANGED <<def, faults, run, lost>>
    BY DEF Change, Die, RecoverTasks, vars, history
<1>2. def' \in Definitions /\ RunForm' /\ RunOrder'
    BY <1>1, SameRun DEF SagaInv, FormInv, OrderInv
<1>3. CASE Die \/ RecoverTasks
  <2>1. wave' = NoWave /\ jobs' = {}
    BY <1>3 DEF Die, RecoverTasks, SagaInv, WaveInv
  <2> QED
    BY <1>1, <1>2, <2>1, IdleKeeps, RunStutters
<1>4. CASE Change \/ UNCHANGED vars
  <2>1. UNCHANGED <<mode, wave, jobs>>
    BY <1>4 DEF Change, vars, history
  <2>2. FormInv'
    BY <1>1, <2>1, SameRun DEF SagaInv, FormInv, WaveForm, NodeForm
  <2>3. WaveInv'
    <3>1. \A n : Undoes(n)' <=> Undoes(n)
      BY <1>1, <2>1 DEF Undoes
    <3>2. NoWave' = NoWave
      BY DEF NoWave
    <3> QED
      BY <1>1, <2>1, <3>1, <3>2, SameRun DEF SagaInv, WaveInv
  <2>4. UnmovedInv'
    <3>1. \A n : Undoes(n)' <=> Undoes(n)
      BY <1>1, <2>1 DEF Undoes
    <3> QED
      BY <1>1, <2>1, <3>1, SameRun DEF SagaInv, UnmovedInv
  <2>5. OrderInv'
    BY <1>1, <2>1, SameRun DEF SagaInv, OrderInv
  <2> QED
    BY <1>1, <2>2, <2>3, <2>4, <2>5, RunStutters DEF SagaInv
<1> QED
    BY <1>3, <1>4
-----------------------------------------------------------------------------
(* The refinement.                                                             *)

LEMMA SagaBegins ==
    ASSUME Init
    PROVE  SagaInv /\ Workflow!SagaInit
<1>1. /\ def \in Definitions /\ run.status = "planned" /\ DOMAIN run = {"status", "error", "nodes"}
      /\ run.nodes = [n \in DOMAIN def |-> NodeState("pending", <<>>, 0)]
      /\ wave = NoWave /\ jobs = {} /\ mode = "serving"
    BY DEF Init
<1>2. \A n \in DOMAIN def : Status(n) = "pending" /\ NodeForm(run.nodes[n])
    BY <1>1 DEF Status, NodeState, NodeForm
<1>3. Required \subseteq DOMAIN def /\ Compensations \subseteq DOMAIN def
    BY DEF Required, Compensations
<1>4. RunForm /\ RunOrder
    BY <1>1, <1>2, <1>3 DEF RunForm, RunOrder, Fits, RunStatus
<1>5. /\ DOMAIN NoWave = {"phase", "base", "results", "undo", "moved"}
      /\ NoWave.phase = "none" /\ NoWave.moved = FALSE /\ NoWave.results = <<>>
      /\ NoWave.undo = <<>> /\ DOMAIN NoWave.results = {} /\ DOMAIN NoWave.undo = {}
    BY DEF NoWave
<1>6. SagaInv
  <2>1. <<>> \in Seq(Compensations) /\ FALSE \in BOOLEAN
    OBVIOUS
  <2>2. WaveForm
    BY ONLY <1>1, <1>5, <2>1 DEF WaveForm
  <2> QED
    BY <1>1, <1>4, <1>5, <2>2 DEF SagaInv, FormInv, WaveInv, UnmovedInv, OrderInv
<1>7. Workflow!SagaInit
  <2>1. \A n \in Compensations :
           def[n].refersTo \in {m \in Required : def[m].type # "approval"}
    BY <1>1, DefinitionFacts
  <2>2. {n \in Required : /\ def[n].type # "approval"
                          /\ run.nodes[n].status = "verified_complete"} = {}
    BY <1>2, <1>3 DEF Status
  <2>3. {n \in Compensations \ lost : run.nodes[n].status = "compensated"} = {}
    BY <1>2, <1>3 DEF Status
  <2> QED
    BY <1>1, <2>1, <2>2, <2>3 DEF Workflow!SagaInit
<1> QED
    BY <1>6, <1>7

\* Every step but the recovery of the run.
LEMMA SagaKept ==
    ASSUME SagaInv, [Next]_vars, ~RecoverRun
    PROVE  SagaInv' /\ (Supported => SagaStep)
<1>1. CASE Next
  <2>1. ASSUME NEW j \in jobs, NEW i \in DOMAIN j.states,
               StartRequest(j, i) \/ Throw(j, i) \/ Answer(j, i)
        PROVE  SagaInv' /\ SagaStep
    BY <2>1, RequestStep, ThrowStep
  <2> QED
    BY <1>1, <2>1, AdvanceStep, GatherStep, UndoStep, CommitStep, HaltStep, CancelStep, QuietStep
       DEF Next
<1>2. CASE UNCHANGED vars
    BY <1>2, QuietStep
<1> QED
    BY <1>1, <1>2

Lives == "death" \notin faults /\ mode = "serving"

LEMMA LivesOn ==
    ASSUME Lives, [Next]_vars
    PROVE  Lives' /\ ~RecoverRun
<1>1. ~Die /\ ~RecoverTasks /\ ~RecoverRun
    BY DEF Lives, Die, MayFault, RecoverTasks, RecoverRun
<1>2. UNCHANGED <<faults, mode>>
  <2>1. ASSUME NEW j, NEW i, StartRequest(j, i) \/ Throw(j, i) \/ Answer(j, i)
        PROVE  UNCHANGED <<faults, mode>>
    BY <2>1 DEF StartRequest, Throw, Answer
  <2> QED
    BY <1>1, <2>1 DEF Next, Advance, Gather, UndoNext, Commit, Halt, Resume, Cancel, Change, vars
<1> QED
    BY <1>1, <1>2 DEF Lives

\* docs/ARCHITECTURE.md:211: in a process that lives, whatever is halted, cancelled, thrown
\* or changes, and whatever is lost by that, a run is a saga of its definition.
THEOREM SagaRefined == Spec /\ "death" \notin faults => IsSaga
<1>1. Init /\ "death" \notin faults => SagaInv /\ Lives /\ Workflow!SagaInit
  <2>1. Init => mode = "serving"
    BY DEF Init
  <2> QED
    BY <2>1, SagaBegins DEF Lives
<1>2. SagaInv /\ Lives /\ [Next]_vars => SagaInv' /\ Lives' /\ SagaStep
    BY SagaKept, LivesOn DEF Lives, Supported
<1>3. SagaStep => [Workflow!SagaNext]_(Workflow!sagaVars)
    BY DEF SagaStep
<1> QED
    BY <1>1, <1>2, <1>3, PTL DEF Spec, IsSaga, Workflow!SagaSpec
-----------------------------------------------------------------------------
(* More about lists and numbers.                                               *)

\* What is closed towards the beginning is an initial stretch.
LEMMA StretchOf ==
    ASSUME NEW P, NEW n \in Nat, \A i \in 1..n : i \in P => \A m \in 1..i : m \in P
    PROVE  \E high \in 0..n : \A i \in 1..n : i \in P <=> i <= high
<1> DEFINE S == {k \in Nat : k <= n => \E high \in 0..k : \A i \in 1..k : i \in P <=> i <= high}
<1>1. 0 \in S
    OBVIOUS
<1>2. ASSUME NEW k \in Nat, k \in S PROVE k + 1 \in S
  <2>1. SUFFICES ASSUME k + 1 <= n
                 PROVE  \E high \in 0..(k + 1) : \A i \in 1..(k + 1) : i \in P <=> i <= high
    OBVIOUS
  <2>2. PICK high \in 0..k : \A i \in 1..k : i \in P <=> i <= high
    BY <1>2, <2>1
  <2>3. CASE k + 1 \in P
    <3>1. \A i \in 1..(k + 1) : i \in P <=> i <= k + 1
      BY <2>1, <2>3
    <3> QED
      BY <3>1
  <2>4. CASE k + 1 \notin P
    <3>1. \A i \in 1..(k + 1) : i \in P <=> i <= high
      <4> TAKE i \in 1..(k + 1)
      <4>1. i \in 1..k \/ i = k + 1
        OBVIOUS
      <4> QED
        BY <2>2, <2>4, <4>1
    <3> QED
      BY <3>1
  <2> QED
    BY <2>3, <2>4
<1>3. n \in S
  <2> HIDE DEF S
  <2> QED
    BY <1>1, <1>2, Induction
<1> QED
    BY <1>3

\* What occurs has a first occurrence.
LEMMA FirstOf ==
    ASSUME NEW P, NEW n \in Nat, NEW e \in 1..n, e \in P
    PROVE  \E f \in 1..n : f \in P /\ \A m \in 1..(f - 1) : m \notin P
<1>1. SUFFICES ASSUME ~ \E f \in 1..n : f \in P /\ \A m \in 1..(f - 1) : m \notin P
               PROVE  FALSE
    OBVIOUS
<1> DEFINE S == {k \in Nat : \A i \in 1..k : i <= n => i \notin P}
<1>2. 0 \in S
    OBVIOUS
<1>3. ASSUME NEW k \in Nat, k \in S PROVE k + 1 \in S
  <2>1. \A i \in 1..(k + 1) : i \in 1..k \/ i = k + 1
    OBVIOUS
  <2>2. (k + 1) - 1 = k
    OBVIOUS
  <2>3. k + 1 <= n => k + 1 \notin P
    <3>1. SUFFICES ASSUME k + 1 <= n, k + 1 \in P PROVE FALSE
      OBVIOUS
    <3>2. k + 1 \in 1..n /\ \A m \in 1..((k + 1) - 1) : m \notin P
      BY <1>3, <2>2, <3>1
    <3> QED
      BY <1>1, <3>1, <3>2
  <2> QED
    BY <1>3, <2>1, <2>3
<1>4. n \in S
  <2> HIDE DEF S
  <2> QED
    BY <1>2, <1>3, Induction
<1> QED
    BY <1>4

\* The length of a concatenation of lists that are equally long.
LEMMA FlattenLength ==
    ASSUME NEW S, NEW lists, lists \in Seq(Seq(S)), lists # <<>>,
           NEW size \in Nat, \A i \in DOMAIN lists : Len(lists[i]) = size
    PROVE  Len(FlattenSeq(lists)) = Len(lists) * size
<1> DEFINE n == Len(lists)
<1>1. PICK flat : /\ flat[1] = lists[1]
                  /\ \A i \in 2..n : flat[i] = flat[i - 1] \o lists[i]
                  /\ FlattenSeq(lists) = flat[n]
    BY FlattenSteps
<1> DEFINE Good(m) == flat[m] \in Seq(S) /\ Len(flat[m]) = m * size
           M == {m \in Nat : m + 1 <= n => Good(m + 1)}
<1>2. n \in Nat /\ n # 0 /\ DOMAIN lists = 1..n /\ \A i \in 1..n : lists[i] \in Seq(S)
    OBVIOUS
<1>a. \A i \in 1..n : Len(lists[i]) = size
    BY <1>2
<1> HIDE DEF n
<1>3. 0 \in M
  <2>1. 1 \in 1..n /\ flat[1] = lists[1] /\ lists[1] \in Seq(S) /\ Len(lists[1]) = size
    BY <1>1, <1>2, <1>a
  <2>2. 1 * size = size /\ 0 + 1 = 1
    OBVIOUS
  <2>3. Good(0 + 1)
    BY ONLY <2>1, <2>2
  <2> HIDE DEF Good
  <2> QED
    BY ONLY <2>3
<1>4. ASSUME NEW m \in Nat, m \in M PROVE m + 1 \in M
  <2> DEFINE u == m + 1  v == m + 2
  <2>0. (m + 1) + 1 = v /\ u \in Nat /\ v \in Nat /\ v - 1 = u /\ u # 0
        /\ v * size = u * size + size
    OBVIOUS
  <2>a. SUFFICES ASSUME v <= n PROVE Good(v)
    BY <2>0
  <2>1. Good(u) /\ v \in 2..n /\ v \in 1..n
    <3>1. u <= n /\ v \in 2..n /\ v \in 1..n
      BY ONLY <1>2, <1>4, <2>0, <2>a
    <3> HIDE DEF Good
    <3>2. Good(m + 1)
      BY ONLY <1>4, <3>1
    <3> QED
      BY ONLY <3>1, <3>2
  <2> DEFINE old == flat[u]  new == flat[v]  more == lists[v]
  <2>2. new = old \o more
    BY ONLY <1>1, <2>0, <2>1
  <2>b. old \in Seq(S) /\ more \in Seq(S)
    BY ONLY <1>2, <2>1
  <2>3. Len(old) = u * size /\ Len(more) = size
    BY ONLY <1>a, <2>1
  <2> HIDE DEF old, new, more, u, v
  <2>4. new \in Seq(S) /\ Len(new) = Len(old) + Len(more)
    BY ONLY <2>2, <2>b
  <2>5. Len(new) = v * size
    BY ONLY <2>0, <2>3, <2>4
  <2> QED
    BY ONLY <2>4, <2>5 DEF new
<1>5. Good(n)
  <2>1. n - 1 \in Nat /\ (n - 1) + 1 = n
    BY <1>2
  <2>2. n - 1 \in M
    <3> HIDE DEF M
    <3> QED
      BY <1>3, <1>4, <2>1, Induction
  <2> HIDE DEF Good
  <2> QED
    BY ONLY <1>2, <2>1, <2>2
<1> QED
    BY <1>1, <1>5 DEF n

-----------------------------------------------------------------------------
(* The requests of a node.                                                     *)

KeyRecord == [node : DOMAIN def, branch : Nat, iteration : Nat, index : Nat]
AllKeys   == UNION {ToSet(ExpectedKeys(n)) : n \in DOMAIN def}
Size(n)   == Len(def[n].branches[1])

\* What an accepted definition says of a node.
LEMMA NodeFacts ==
    ASSUME def \in Definitions, NEW n \in DOMAIN def
    PROVE  /\ def[n].type \in {"operation", "approval", "condition", "parallel", "bounded_loop",
                               "checkpoint", "human_input", "delegation", "compensation"}
           /\ def[n].branches \in Seq(Seq([effect : {"read", "mutate"}, ask : BOOLEAN]))
           /\ def[n].type \in {"operation", "compensation"} =>
                 Len(def[n].branches) = 1 /\ Size(n) = 1
           /\ def[n].type = "condition" => Len(def[n].branches) = 2
           /\ def[n].type = "parallel" => Len(def[n].branches) > 1
           /\ def[n].type = "bounded_loop" => Len(def[n].branches) = 1 /\ def[n].branches[1] # <<>>
                                              /\ def[n].max \in Nat \ {0}
           /\ Target(n) \in DOMAIN def
           /\ def[n].type = "approval" => def[Target(n)].type = "operation"
           /\ def[n].type = "operation" => Target(n) = n
<1>1. NodeFits(def, n) /\ ReferencesExist(def)
    BY NodesAssumption DEF ValidWorkflow
<1>2. def[n].type = "approval" => def[n].refersTo \in DOMAIN def
    BY <1>1 DEF ReferencesExist
<1> QED
    BY <1>1, <1>2, Zenon DEF NodeFits, Target, Size

LEMMA BranchFacts ==
    ASSUME def \in Definitions, NEW n \in DOMAIN def, NEW b \in DOMAIN def[n].branches,
           NEW iteration \in Nat
    PROVE  /\ Branch(n, b, iteration) \in Seq(KeyRecord)
           /\ Len(Branch(n, b, iteration)) = Len(def[n].branches[b])
           /\ \A i \in DOMAIN Branch(n, b, iteration) :
                 Branch(n, b, iteration)[i] = Key(n, b, iteration, i)
<1> DEFINE R == [effect : {"read", "mutate"}, ask : BOOLEAN]
           list == def[n].branches[b]
<1>1. def[n].branches \in Seq(Seq(R))
    BY NodeFacts
<1>2. list \in Seq(R) /\ b \in Nat
    <2> DEFINE all == def[n].branches
    <2>1. all \in Seq(Seq(R)) /\ b \in DOMAIN all /\ list = all[b]
      BY <1>1
    <2> HIDE DEF R, all
    <2> QED
      BY ONLY <2>1
<1>3. Branch(n, b, iteration) = [i \in DOMAIN list |-> Key(n, b, iteration, i)]
    BY DEF Branch
<1> HIDE DEF list, R
<1>4. DOMAIN list = 1..Len(list) /\ Len(list) \in Nat
    BY ONLY <1>2
<1>5. \A i \in 1..Len(list) : Key(n, b, iteration, i) \in KeyRecord
    BY <1>2 DEF Key, KeyRecord
<1>6. [i \in 1..Len(list) |-> Key(n, b, iteration, i)] \in Seq(KeyRecord)
    BY <1>4, <1>5
<1>7. Len([i \in 1..Len(list) |-> Key(n, b, iteration, i)]) = Len(list)
    BY <1>4
<1>8. Branch(n, b, iteration) = [i \in 1..Len(list) |-> Key(n, b, iteration, i)]
    BY <1>3, <1>4
<1> HIDE DEF Branch
<1> QED
    BY <1>6, <1>7, <1>8 DEF list

\* Requests of different branches, iterations or places have different keys.
LEMMA KeyFacts ==
    ASSUME NEW n1, NEW b1, NEW t1, NEW i1, NEW n2, NEW b2, NEW t2, NEW i2
    PROVE  /\ Key(n1, b1, t1, i1) = Key(n2, b2, t2, i2) =>
                 n1 = n2 /\ b1 = b2 /\ t1 = t2 /\ i1 = i2
           /\ Key(n1, b1, t1, i1).node = n1 /\ Key(n1, b1, t1, i1).branch = b1
    BY DEF Key

\* The requests of a node are of that node, or of the one it approves, each once.
LEMMA SlotsFacts ==
    ASSUME def \in Definitions, NEW n \in DOMAIN def, NEW b \in {1, 2}
    PROVE  /\ Slots(n, b) \in Seq(KeyRecord) /\ Injective(Slots(n, b))
           /\ \A i \in DOMAIN Slots(n, b) : Slots(n, b)[i].node = Target(n)
           /\ def[n].type = "condition" =>
                 \A i \in DOMAIN Slots(n, b) : Slots(n, b)[i].branch = b
           /\ def[n].type = "bounded_loop" =>
                 /\ Size(n) \in Nat \ {0} /\ def[n].max \in Nat \ {0}
                 /\ Len(Slots(n, b)) = def[n].max * Size(n)
           /\ def[n].type \in {"operation", "compensation", "approval"} => Len(Slots(n, b)) = 1
           /\ def[n].type \in {"checkpoint", "human_input", "delegation"} => Slots(n, b) = <<>>
           /\ def[n].type # "condition" => Slots(n, b) = Slots(n, 1)
           /\ def[n].type = "approval" => Slots(n, b) = Slots(Target(n), 1)
<1> DEFINE Good(list) == /\ list \in Seq(KeyRecord) /\ Injective(list)
                         /\ \A i \in DOMAIN list : list[i].node = Target(n)
<1> USE NodeFacts
<1>0. ASSUME NEW m \in DOMAIN def, NEW c \in DOMAIN def[m].branches
      PROVE  /\ Branch(m, c, 0) \in Seq(KeyRecord) /\ Injective(Branch(m, c, 0))
             /\ \A i \in DOMAIN Branch(m, c, 0) : /\ Branch(m, c, 0)[i].node = m
                                                  /\ Branch(m, c, 0)[i].branch = c
  <2>1. /\ Branch(m, c, 0) \in Seq(KeyRecord)
        /\ \A i \in DOMAIN Branch(m, c, 0) : Branch(m, c, 0)[i] = Key(m, c, 0, i)
    BY BranchFacts
  <2>2. Injective(Branch(m, c, 0))
    BY <2>1, KeyFacts DEF Injective
  <2> QED
    BY <2>1, <2>2, KeyFacts
<1>a. ASSUME NEW list, NEW T, list \in Seq(Seq(T)), NEW c \in 1..Len(list) PROVE c \in DOMAIN list
    BY <1>a
<1>1. CASE def[n].type \in {"operation", "compensation"}
  <2>1. Slots(n, b) = Branch(n, 1, 0) /\ Slots(n, 1) = Branch(n, 1, 0) /\ Target(n) = n
    BY <1>1 DEF Slots, Target
  <2>2. 1 \in DOMAIN def[n].branches
    BY <1>1, <1>a
  <2>3. Len(Branch(n, 1, 0)) = 1
    BY <1>1, <2>2, BranchFacts DEF Size
  <2> QED
    BY <1>0, <1>1, <2>1, <2>2, <2>3
<1>2. CASE def[n].type = "approval"
  <2> DEFINE x == Target(n)
  <2>1. x \in DOMAIN def /\ def[x].type = "operation" /\ def[n].refersTo = x
    BY <1>2 DEF Target
  <2>2. Slots(n, b) = Branch(x, 1, 0) /\ Slots(n, 1) = Branch(x, 1, 0)
        /\ Slots(x, 1) = Branch(x, 1, 0)
    BY <1>2, <2>1 DEF Slots
  <2> HIDE DEF x
  <2>3. 1 \in DOMAIN def[x].branches
    BY <2>1, <1>a
  <2>4. Len(Branch(x, 1, 0)) = 1
    BY <2>1, <2>3, BranchFacts DEF Size
  <2>5. /\ Branch(x, 1, 0) \in Seq(KeyRecord) /\ Injective(Branch(x, 1, 0))
        /\ \A i \in DOMAIN Branch(x, 1, 0) : Branch(x, 1, 0)[i].node = x
    BY <1>0, <2>1, <2>3
  <2> QED
    BY <1>2, <2>2, <2>4, <2>5 DEF x
<1>3. CASE def[n].type = "condition"
  <2>1. Slots(n, b) = Branch(n, b, 0) /\ Target(n) = n
    BY <1>3 DEF Slots, Target
  <2>2. b \in DOMAIN def[n].branches
    BY <1>3, <1>a
  <2> QED
    BY <1>0, <1>3, <2>1, <2>2
<1>4. CASE def[n].type = "parallel"
  <2> DEFINE lists == [i \in DOMAIN def[n].branches |-> Branch(n, i, 0)]
  <2>1. Slots(n, b) = FlattenSeq(lists) /\ Slots(n, 1) = FlattenSeq(lists) /\ Target(n) = n
    BY <1>4 DEF Slots, Target
  <2>2. DOMAIN def[n].branches = 1..Len(def[n].branches) /\ Len(def[n].branches) \in Nat
        /\ Len(def[n].branches) > 1
    BY <1>4
  <2>3. lists \in Seq(Seq(KeyRecord)) /\ lists # <<>>
    <3> DEFINE k == Len(def[n].branches)
    <3>1. \A i \in 1..k : Branch(n, i, 0) \in Seq(KeyRecord)
      BY <1>0, <2>2
    <3>2. lists = [i \in 1..k |-> Branch(n, i, 0)] /\ k \in Nat /\ k > 1
      BY <2>2
    <3> HIDE DEF k, lists
    <3>3. [i \in 1..k |-> Branch(n, i, 0)] \in Seq(Seq(KeyRecord))
      BY <3>1, <3>2
    <3>4. lists # <<>>
      BY ONLY <3>2
    <3> QED
      BY ONLY <3>2, <3>3, <3>4
  <2>4. \A c \in DOMAIN lists : lists[c] = Branch(n, c, 0)
                                /\ \A i \in DOMAIN lists[c] : lists[c][i] = Key(n, c, 0, i)
    BY BranchFacts
  <2> HIDE DEF lists
  <2>5. AllDistinct(lists)
    <3> SUFFICES ASSUME NEW c1 \in DOMAIN lists, NEW c2 \in DOMAIN lists,
                        NEW e1 \in DOMAIN lists[c1], NEW e2 \in DOMAIN lists[c2],
                        lists[c1][e1] = lists[c2][e2]
                 PROVE  c1 = c2 /\ e1 = e2
      BY DEF AllDistinct
    <3>1. Key(n, c1, 0, e1) = Key(n, c2, 0, e2)
      BY ONLY <2>4, lists[c1][e1] = lists[c2][e2]
    <3> QED
      BY ONLY <3>1 DEF Key
  <2>6. /\ FlattenSeq(lists) \in Seq(KeyRecord) /\ Injective(FlattenSeq(lists))
        /\ \A i \in DOMAIN FlattenSeq(lists) : \E c \in DOMAIN lists :
              \E e \in DOMAIN lists[c] : FlattenSeq(lists)[i] = lists[c][e]
    BY ONLY <2>3, <2>5, FlattenFacts
  <2>7. \A i \in DOMAIN FlattenSeq(lists) : FlattenSeq(lists)[i].node = n
    BY ONLY <2>4, <2>6 DEF Key
  <2> QED
    BY <1>4, <2>1, <2>6, <2>7
<1>5. CASE def[n].type = "bounded_loop"
  <2> DEFINE max == def[n].max
             lists == [i \in 1..max |-> Branch(n, 1, i - 1)]
  <2>1. Slots(n, b) = FlattenSeq(lists) /\ Slots(n, 1) = FlattenSeq(lists) /\ Target(n) = n
    BY <1>5 DEF Slots, Target
  <2>2. max \in Nat \ {0} /\ 1 \in DOMAIN def[n].branches
    BY <1>5, <1>a
  <2>a. Size(n) \in Nat \ {0}
    <3>1. def[n].branches[1] # <<>>
      BY <1>5
    <3> DEFINE all == def[n].branches
               T == [effect : {"read", "mutate"}, ask : BOOLEAN]
    <3>2. all \in Seq(Seq(T)) /\ 1 \in DOMAIN all
      BY <2>2
    <3> HIDE DEF all, T
    <3>3. all[1] \in Seq(T)
      BY ONLY <3>2
    <3>4. all[1] # <<>> => Len(all[1]) \in Nat \ {0}
      BY ONLY <3>3
    <3> QED
      BY ONLY <3>1, <3>4 DEF Size, all
  <2> HIDE DEF max
  <2>b. \A i \in 1..max : /\ Branch(n, 1, i - 1) \in Seq(KeyRecord)
                          /\ Len(Branch(n, 1, i - 1)) = Size(n)
                          /\ \A e \in DOMAIN Branch(n, 1, i - 1) :
                                Branch(n, 1, i - 1)[e] = Key(n, 1, i - 1, e)
    <3> TAKE i \in 1..max
    <3>1. i - 1 \in Nat
      BY <2>2
    <3> QED
      BY <2>2, <3>1, BranchFacts DEF Size
  <2>3. lists \in Seq(Seq(KeyRecord)) /\ lists # <<>> /\ Len(lists) = max /\ DOMAIN lists = 1..max
    <3>1. [i \in 1..max |-> Branch(n, 1, i - 1)] \in Seq(Seq(KeyRecord))
      BY <2>2, <2>b
    <3>2. Len([i \in 1..max |-> Branch(n, 1, i - 1)]) = max
      BY <2>2
    <3> QED
      BY <2>2, <3>1, <3>2
  <2>4. \A c \in DOMAIN lists : /\ Len(lists[c]) = Size(n)
                                /\ \A e \in DOMAIN lists[c] : lists[c][e] = Key(n, 1, c - 1, e)
    BY <2>b
  <2> HIDE DEF lists
  <2>5. AllDistinct(lists)
    <3> SUFFICES ASSUME NEW c1 \in DOMAIN lists, NEW c2 \in DOMAIN lists,
                        NEW e1 \in DOMAIN lists[c1], NEW e2 \in DOMAIN lists[c2],
                        lists[c1][e1] = lists[c2][e2]
                 PROVE  c1 = c2 /\ e1 = e2
      BY DEF AllDistinct
    <3>1. Key(n, 1, c1 - 1, e1) = Key(n, 1, c2 - 1, e2)
      BY ONLY <2>4, lists[c1][e1] = lists[c2][e2]
    <3>2. c1 - 1 = c2 - 1 /\ e1 = e2
      BY ONLY <3>1 DEF Key
    <3>3. c1 \in 1..max /\ c2 \in 1..max /\ max \in Nat
      BY ONLY <2>2, <2>3
    <3> QED
      BY ONLY <3>2, <3>3
  <2>c. lists \in Seq(Seq(KeyRecord)) /\ lists # <<>>
    BY ONLY <2>3
  <2>6. /\ FlattenSeq(lists) \in Seq(KeyRecord) /\ Injective(FlattenSeq(lists))
        /\ \A i \in DOMAIN FlattenSeq(lists) : \E c \in DOMAIN lists :
              \E e \in DOMAIN lists[c] : FlattenSeq(lists)[i] = lists[c][e]
    BY ONLY <2>c, <2>5, FlattenFacts
  <2>7. \A i \in DOMAIN FlattenSeq(lists) : FlattenSeq(lists)[i].node = n
    BY ONLY <2>4, <2>6 DEF Key
  <2>8. Len(FlattenSeq(lists)) = max * Size(n)
    BY ONLY <2>3, <2>4, <2>a, FlattenLength
  <2> QED
    BY <1>5, <2>1, <2>2, <2>a, <2>6, <2>7, <2>8 DEF max
<1>6. CASE def[n].type \in {"checkpoint", "human_input", "delegation"}
  <2>1. Slots(n, b) = <<>> /\ Slots(n, 1) = <<>>
    BY <1>6 DEF Slots
  <2>2. <<>> \in Seq(KeyRecord) /\ DOMAIN <<>> = {}
    OBVIOUS
  <2>3. Injective(<<>>)
    BY <2>2 DEF Injective
  <2> QED
    BY <1>6, <2>1, <2>2, <2>3
<1> QED
    BY <1>1, <1>2, <1>3, <1>4, <1>5, <1>6

\* Every request of a node is one of all requests.
LEMMA ExpectedFacts ==
    ASSUME def \in Definitions, NEW n \in DOMAIN def
    PROVE  /\ ExpectedKeys(n) \in Seq(AllKeys)
           /\ \A b \in {1, 2} : Slots(n, b) \in Seq(AllKeys)
           /\ def[n].type = "condition" =>
                 ExpectedKeys(n) = Slots(n, 1) \o Slots(n, 2)
           /\ def[n].type # "condition" => ExpectedKeys(n) = Slots(n, 1)
<1>1. /\ Slots(n, 1) \in Seq(KeyRecord) /\ Slots(n, 2) \in Seq(KeyRecord)
      /\ def[n].type # "condition" => Slots(n, 2) = Slots(n, 1)
    BY SlotsFacts
<1>2. /\ def[n].type = "condition" => ExpectedKeys(n) = Slots(n, 1) \o Slots(n, 2)
      /\ def[n].type # "condition" => ExpectedKeys(n) = Slots(n, 1)
    BY DEF ExpectedKeys
<1> DEFINE one == Slots(n, 1)  two == Slots(n, 2)  all == ExpectedKeys(n)
<1> HIDE DEF one, two, all
<1>3. /\ one \in Seq(KeyRecord) /\ two \in Seq(KeyRecord)
      /\ \/ all = one /\ two = one
         \/ all = one \o two
    BY <1>1, <1>2 DEF one, two, all
<1>4. \A i \in DOMAIN all : all[i] \in AllKeys
    BY DEF all, AllKeys, ToSet
<1>5. all \in Seq(AllKeys)
    BY ONLY <1>3, <1>4
<1>6. /\ \A i \in DOMAIN one : \E e \in DOMAIN all : one[i] = all[e]
      /\ \A i \in DOMAIN two : \E e \in DOMAIN all : two[i] = all[e]
  <2>1. CASE all = one /\ two = one
    BY ONLY <2>1
  <2>2. CASE all = one \o two
    <3>1. /\ \A i \in DOMAIN one : i \in DOMAIN all /\ all[i] = one[i]
          /\ \A i \in DOMAIN two : Len(one) + i \in DOMAIN all /\ all[Len(one) + i] = two[i]
      BY ONLY <1>3, <2>2
    <3> QED
      BY ONLY <3>1
  <2> QED
    BY ONLY <1>3, <2>1, <2>2
<1>7. /\ \A i \in DOMAIN one : one[i] \in AllKeys
      /\ \A i \in DOMAIN two : two[i] \in AllKeys
    BY ONLY <1>4, <1>6
<1>8. one \in Seq(AllKeys) /\ two \in Seq(AllKeys)
    BY ONLY <1>3, <1>7
<1>9. \A b \in {1, 2} : Slots(n, b) \in Seq(AllKeys)
    BY <1>8 DEF one, two
<1> QED
    BY <1>2, <1>5, <1>9 DEF all

\* The requests depend on the definition only.
LEMMA SameKeys ==
    ASSUME UNCHANGED def
    PROVE  /\ \A n, b : Slots(n, b)' = Slots(n, b)
           /\ \A n : ExpectedKeys(n)' = ExpectedKeys(n)
           /\ AllKeys' = AllKeys
           /\ \A n : Size(n)' = Size(n) /\ Target(n)' = Target(n)
<1>1. \A n, b : Slots(n, b)' = Slots(n, b)
    BY DEF Slots, Branch, Key
<1>2. \A n : ExpectedKeys(n)' = ExpectedKeys(n)
    BY <1>1 DEF ExpectedKeys
<1>3. AllKeys' = AllKeys
    BY <1>2 DEF AllKeys
<1> QED
    BY <1>1, <1>2, <1>3 DEF Size, Target

-----------------------------------------------------------------------------
(* Types.  SagaInv has the form of the records and which nodes a wave is about;  *)
(* here is what their fields hold.  A busy request is of a task that runs, and no *)
(* two of them are of the same task.                                             *)

TaskRecord == [key : AllKeys, certified : BOOLEAN, latest : BOOLEAN, status : TaskStatus]
JobStatus  == {"todo", "busy", "verified_complete", "ready", "awaiting_approval",
               "recovery_required", "cancelled", "failed"}

Typed(state, most) == /\ state.status \in NodeStatus
                      /\ state.ids \in Seq(1..most) /\ state.iterations \in Nat
NodeTyped(state)   == Typed(state, Len(tasks))

JobTyped(j) ==
    /\ j.keys \in Seq(AllKeys) /\ j.ids \in Seq(0..Len(tasks)) /\ j.states \in Seq(JobStatus)
    /\ Len(j.states) = Len(j.keys) /\ Len(j.keys) <= Len(j.ids)

\* The requests of j that are busy are of tasks that run.
BusyRun(j) == \A i \in DOMAIN j.states :
                 j.states[i] = "busy" => j.ids[i] # 0 /\ tasks[j.ids[i]].status = "running"

PlainInv ==
    /\ def \in Definitions /\ faults \in FaultSets /\ answers \in [DOMAIN def -> {1, 2}]
    /\ mode \in {"serving", "down", "repairing"} /\ run.error \in BOOLEAN
    /\ launched \in [AllKeys -> Nat] /\ committed \subseteq AllKeys /\ count \in 0..MaxFaults

NodesInv ==
    /\ \A n \in DOMAIN def : NodeTyped(run.nodes[n])
    /\ wave.phase # "none" => \A n \in DOMAIN def : NodeTyped(wave.base[n])
    /\ \A n \in DOMAIN wave.results : NodeTyped(wave.results[n])

JobsTyped(set) ==
    /\ \A j \in set : j.answer # "throws" /\ JobTyped(j) /\ BusyRun(j)
    /\ \A j, other \in set : \A i \in DOMAIN j.states, m \in DOMAIN other.states :
          j.states[i] = "busy" /\ other.states[m] = "busy" /\ j.ids[i] = other.ids[m] =>
             j = other /\ i = m
JobsInv == JobsTyped(jobs)

TypeInv == PlainInv /\ tasks \in Seq(TaskRecord) /\ NodesInv /\ JobsInv

LEMMA Widen ==
    ASSUME NEW u \in Nat, NEW v \in Nat, u <= v
    PROVE  /\ \A list : list \in Seq(1..u) => list \in Seq(1..v)
           /\ \A list : list \in Seq(0..u) => list \in Seq(0..v)
<1>1. 1..u \subseteq 1..v /\ 0..u \subseteq 0..v
    OBVIOUS
<1>2. ASSUME NEW S, NEW T, S \subseteq T, NEW list, list \in Seq(S) PROVE list \in Seq(T)
    BY ONLY <1>2
<1> QED
    BY <1>1, <1>2

\* What Touch changes of the tasks that are known.
LEMMA TouchFacts ==
    ASSUME NEW known, known \in Seq(TaskRecord), NEW id \in 1..Len(known),
           NEW status \in TaskStatus
    PROVE  /\ Touch(known, id, status) \in Seq(TaskRecord)
           /\ Len(Touch(known, id, status)) = Len(known)
           /\ Touch(known, id, status)[id].status = status
           /\ \A i \in 1..Len(known) :
                 /\ Touch(known, id, status)[i].key = known[i].key
                 /\ i # id => Touch(known, id, status)[i].status = known[i].status
<1> DEFINE new(i) == IF i = id THEN [known[i] EXCEPT !.status = status, !.latest = TRUE]
                     ELSE [known[i] EXCEPT !.latest = @ /\ known[i].key # known[id].key]
<1>1. Touch(known, id, status) = [i \in 1..Len(known) |-> new(i)]
    BY DEF Touch
<1>2. \A i \in 1..Len(known) : known[i] \in TaskRecord
    OBVIOUS
<1>3. ASSUME NEW i \in 1..Len(known)
      PROVE  /\ new(i) \in TaskRecord /\ new(i).key = known[i].key
             /\ i = id => new(i).status = status
             /\ i # id => new(i).status = known[i].status
  <2>1. ASSUME NEW old, old \in TaskRecord, NEW flag \in BOOLEAN
        PROVE  /\ [old EXCEPT !.status = status, !.latest = TRUE] \in TaskRecord
               /\ [old EXCEPT !.status = status, !.latest = TRUE].key = old.key
               /\ [old EXCEPT !.status = status, !.latest = TRUE].status = status
               /\ [old EXCEPT !.latest = flag] \in TaskRecord
               /\ [old EXCEPT !.latest = flag].key = old.key
               /\ [old EXCEPT !.latest = flag].status = old.status
    BY <2>1 DEF TaskRecord
  <2> DEFINE old == known[i]  flag == old.latest /\ old.key # known[id].key
  <2>2. old \in TaskRecord /\ flag \in BOOLEAN
    BY <1>2
  <2>3. new(i) = IF i = id THEN [old EXCEPT !.status = status, !.latest = TRUE]
                 ELSE [old EXCEPT !.latest = flag]
    OBVIOUS
  <2> HIDE DEF old, flag, new
  <2>4. /\ new(i) \in TaskRecord /\ new(i).key = old.key
        /\ i = id => new(i).status = status
        /\ i # id => new(i).status = old.status
    BY <2>1, <2>2, <2>3
  <2> QED
    BY <2>4 DEF old
<1> HIDE DEF new
<1>4. Len(known) \in Nat
    OBVIOUS
<1> DEFINE list == [i \in 1..Len(known) |-> new(i)]
<1>5. list \in Seq(TaskRecord) /\ Len(list) = Len(known)
      /\ \A i \in 1..Len(known) : list[i] = new(i)
    BY ONLY <1>3, <1>4
<1>6. Touch(known, id, status) = list
    BY <1>1
<1> HIDE DEF list
<1> QED
    BY <1>3, <1>5, <1>6

-----------------------------------------------------------------------------
(* What becomes of a job.                                                      *)

\* A request of j has the task id, and is in a status.
Put(j, i, id, status) == [j EXCEPT !.ids[i] = id, !.states[i] = status]

LEMMA PutFacts ==
    ASSUME NEW j, JobForm(j), NEW I, NEW S, j.ids \in Seq(I), j.states \in Seq(S),
           NEW i \in 1..Len(j.states), Len(j.states) <= Len(j.ids), NEW id \in I,
           NEW status \in S
    PROVE  /\ JobForm(Put(j, i, id, status))
           /\ Put(j, i, id, status).node = j.node /\ Put(j, i, id, status).answer = j.answer
           /\ Put(j, i, id, status).alive = j.alive /\ Put(j, i, id, status).keys = j.keys
           /\ Put(j, i, id, status).ids \in Seq(I)
           /\ Len(Put(j, i, id, status).ids) = Len(j.ids)
           /\ \A m \in 1..Len(j.ids) :
                 Put(j, i, id, status).ids[m] = IF m = i THEN id ELSE j.ids[m]
           /\ Put(j, i, id, status).states \in Seq(S)
           /\ Len(Put(j, i, id, status).states) = Len(j.states)
           /\ \A m \in 1..Len(j.states) :
                 Put(j, i, id, status).states[m] = IF m = i THEN status ELSE j.states[m]
<1> DEFINE new == Put(j, i, id, status)
<1>1. /\ DOMAIN new = DOMAIN j /\ new.node = j.node /\ new.answer = j.answer
      /\ new.alive = j.alive /\ new.keys = j.keys
      /\ new.ids = [j.ids EXCEPT ![i] = id] /\ new.states = [j.states EXCEPT ![i] = status]
    BY DEF JobForm, Put
<1>2. JobForm(new)
    BY <1>1 DEF JobForm
<1> HIDE DEF new
<1>3. ASSUME NEW T, NEW list, list \in Seq(T), NEW m \in 1..Len(list), NEW e \in T
      PROVE  /\ [list EXCEPT ![m] = e] \in Seq(T) /\ Len([list EXCEPT ![m] = e]) = Len(list)
             /\ \A u \in 1..Len(list) : [list EXCEPT ![m] = e][u] = IF u = m THEN e ELSE list[u]
    BY ONLY <1>3
<1>4. i \in 1..Len(j.ids)
  <2>1. Len(j.ids) \in Nat /\ Len(j.states) \in Nat
    OBVIOUS
  <2> QED
    BY <2>1
<1>5. /\ new.ids \in Seq(I) /\ Len(new.ids) = Len(j.ids)
      /\ \A m \in 1..Len(j.ids) : new.ids[m] = IF m = i THEN id ELSE j.ids[m]
    BY <1>1, <1>3, <1>4
<1>6. /\ new.states \in Seq(S) /\ Len(new.states) = Len(j.states)
      /\ \A m \in 1..Len(j.states) : new.states[m] = IF m = i THEN status ELSE j.states[m]
    BY <1>1, <1>3
<1> QED
    BY <1>1, <1>2, <1>5, <1>6 DEF new

\* The requests that are left after a loop has stopped.
Kept(j, i, status) == IF status = "verified_complete" /\ Stops(j, i) THEN i ELSE Len(j.states)

LEMMA FinishedShape ==
    ASSUME NEW j, JobForm(j), NEW K, NEW I, NEW S,
           j.keys \in Seq(K), j.ids \in Seq(I), j.states \in Seq(S), Len(j.keys) = Len(j.states),
           NEW i \in 1..Len(j.states), Len(j.states) <= Len(j.ids), NEW id \in I,
           NEW status \in S
    PROVE  \E next : /\ next = Finished(j, i, id, status) /\ JobForm(next)
                     /\ next.node = j.node /\ next.answer = j.answer /\ next.alive = j.alive
                     /\ next.ids \in Seq(I) /\ Len(next.ids) = Len(j.ids)
                     /\ \A m \in 1..Len(j.ids) :
                           next.ids[m] = IF m = i THEN id ELSE j.ids[m]
                     /\ Kept(j, i, status) \in {i, Len(j.states)}
                     /\ next.keys \in Seq(K) /\ Len(next.keys) = Kept(j, i, status)
                     /\ next.states \in Seq(S) /\ Len(next.states) = Kept(j, i, status)
                     /\ \A m \in 1..Kept(j, i, status) :
                           /\ next.keys[m] = j.keys[m]
                           /\ next.states[m] = IF m = i THEN status ELSE j.states[m]
<1> DEFINE new == Put(j, i, id, status)
           cut == [new EXCEPT !.keys = SubSeq(@, 1, i), !.states = SubSeq(@, 1, i)]
           stop == status = "verified_complete" /\ Stops(j, i)
<1>1. Finished(j, i, id, status) = IF stop THEN cut ELSE new
    BY DEF Finished, Put
<1>2. /\ JobForm(new) /\ new.node = j.node /\ new.answer = j.answer
      /\ new.alive = j.alive /\ new.keys = j.keys
      /\ new.ids \in Seq(I) /\ Len(new.ids) = Len(j.ids)
      /\ \A m \in 1..Len(j.ids) : new.ids[m] = IF m = i THEN id ELSE j.ids[m]
      /\ new.states \in Seq(S) /\ Len(new.states) = Len(j.states)
      /\ \A m \in 1..Len(j.states) : new.states[m] = IF m = i THEN status ELSE j.states[m]
  <2> HIDE DEF new, cut, stop
  <2>1. new = Put(j, i, id, status)
    BY DEF new
  <2> QED
    BY ONLY <2>1, PutFacts, JobForm(j), j.ids \in Seq(I), j.states \in Seq(S),
            i \in 1..Len(j.states), Len(j.states) <= Len(j.ids), id \in I, status \in S,
            SMTT(60)
<1>3. Kept(j, i, status) = IF stop THEN i ELSE Len(j.states)
    BY DEF Kept
<1> DEFINE Good(next) ==
              /\ JobForm(next)
              /\ next.node = j.node /\ next.answer = j.answer /\ next.alive = j.alive
              /\ next.ids \in Seq(I) /\ Len(next.ids) = Len(j.ids)
              /\ \A m \in 1..Len(j.ids) : next.ids[m] = IF m = i THEN id ELSE j.ids[m]
              /\ Kept(j, i, status) \in {i, Len(j.states)}
              /\ next.keys \in Seq(K) /\ Len(next.keys) = Kept(j, i, status)
              /\ next.states \in Seq(S) /\ Len(next.states) = Kept(j, i, status)
              /\ \A m \in 1..Kept(j, i, status) :
                    /\ next.keys[m] = j.keys[m]
                    /\ next.states[m] = IF m = i THEN status ELSE j.states[m]
<1> HIDE DEF new, stop
<1>4. CASE ~stop
  <2>1. /\ Finished(j, i, id, status) = new /\ Kept(j, i, status) = Len(j.states)
    BY <1>1, <1>3, <1>4
  <2>2. Good(new)
    BY <1>2, <2>1
  <2> QED
    BY <2>1, <2>2
<1>5. CASE stop
  <2>1. /\ Finished(j, i, id, status) = cut /\ Kept(j, i, status) = i
    BY <1>1, <1>3, <1>5
  <2>2. /\ JobForm(cut) /\ cut.node = new.node /\ cut.answer = new.answer
        /\ cut.alive = new.alive /\ cut.ids = new.ids
        /\ cut.keys = SubSeq(new.keys, 1, i) /\ cut.states = SubSeq(new.states, 1, i)
    BY <1>2 DEF JobForm
  <2> HIDE DEF cut
  <2>3. ASSUME NEW T, NEW list, list \in Seq(T), NEW m \in 1..Len(list)
        PROVE  /\ SubSeq(list, 1, m) \in Seq(T) /\ Len(SubSeq(list, 1, m)) = m
               /\ \A u \in 1..m : SubSeq(list, 1, m)[u] = list[u]
    BY ONLY <2>3
  <2>4. cut.keys \in Seq(K) /\ Len(cut.keys) = i /\ \A m \in 1..i : cut.keys[m] = j.keys[m]
    BY <1>2, <2>2, <2>3
  <2>5. cut.states \in Seq(S) /\ Len(cut.states) = i
        /\ \A m \in 1..i : cut.states[m] = new.states[m]
    BY <1>2, <2>2, <2>3
  <2>6. \A m \in 1..i : m \in 1..Len(j.states)
    OBVIOUS
  <2>7. \A m \in 1..i : cut.states[m] = IF m = i THEN status ELSE j.states[m]
    BY <1>2, <2>5, <2>6
  <2>8. Good(cut)
    <3>1. /\ JobForm(cut)
          /\ cut.node = j.node /\ cut.answer = j.answer /\ cut.alive = j.alive
          /\ cut.ids \in Seq(I) /\ Len(cut.ids) = Len(j.ids)
          /\ \A m \in 1..Len(j.ids) : cut.ids[m] = IF m = i THEN id ELSE j.ids[m]
      BY ONLY <1>2, <2>2
    <3> QED
      BY ONLY <2>1, <2>4, <2>5, <2>7, <3>1
  <2> QED
    BY <2>1, <2>8
<1> QED
    BY <1>4, <1>5

LEMMA SomeIdTyped ==
    ASSUME NEW L \in Nat, NEW list, list \in Seq(1..L), NEW i
    PROVE  SomeId(list, i) \in 0..L /\ (i \in DOMAIN list => SomeId(list, i) = list[i])
           /\ (SomeId(list, i) # 0 => i \in DOMAIN list)
<1>1. i \in DOMAIN list => list[i] \in 1..L
    OBVIOUS
<1> QED
    BY <1>1 DEF SomeId

\* The task an operation starts with exists, or is still to be planned.
LEMMA FirstIdTyped ==
    ASSUME NEW L \in Nat, NEW nodes, \A m \in DOMAIN def : nodes[m].ids \in Seq(1..L),
           NEW n \in DOMAIN def
    PROVE  FirstId(n, nodes) \in 0..L
<1> DEFINE approvals == {a \in DOMAIN def : def[a].type = "approval" /\ def[a].refersTo = n
                                            /\ nodes[a].ids # <<>>}
<1>1. ASSUME NEW list, list \in Seq(1..L), list # <<>> PROVE list[1] \in 0..L
  <2>1. 1 \in 1..Len(list)
    BY ONLY <1>1
  <2>2. list[1] \in 1..L
    BY ONLY <1>1, <2>1
  <2> QED
    BY <2>2
<1>2. ASSUME NEW list, list \in Seq(1..L), NEW i PROVE SomeId(list, i) \in 0..L
    BY <1>2, SomeIdTyped
<1>3. approvals # {} => (CHOOSE a \in approvals : TRUE) \in approvals
    OBVIOUS
<1>4. FirstId(n, nodes) = IF approvals # {} THEN nodes[CHOOSE a \in approvals : TRUE].ids[1]
                          ELSE SomeId(nodes[n].ids, 1)
    BY DEF FirstId
<1> DEFINE p == CHOOSE a \in approvals : TRUE
<1>5. approvals # {} => p \in DOMAIN def /\ nodes[p].ids # <<>>
    BY <1>3
<1>6. FirstId(n, nodes) = IF approvals # {} THEN nodes[p].ids[1] ELSE SomeId(nodes[n].ids, 1)
    BY <1>4
<1> HIDE DEF approvals, p
<1> QED
    BY <1>1, <1>2, <1>5, <1>6

\* How a job begins.
LEMMA JobBegins ==
    ASSUME TypeInv, FormInv, NEW n \in DOMAIN def, NEW b \in {1, 2}, NEW answer \in Answers
    PROVE  /\ JobForm(Job(n, b, answer)) /\ JobTyped(Job(n, b, answer))
           /\ Job(n, b, answer).node = n /\ Job(n, b, answer).answer = answer
           /\ Job(n, b, answer).alive /\ Job(n, b, answer).keys = Slots(n, b)
           /\ \A i \in DOMAIN Job(n, b, answer).states :
                 Job(n, b, answer).states[i] =
                    IF i <= run.nodes[n].iterations *
                            (IF def[n].type = "bounded_loop" THEN Size(n) ELSE 0)
                    THEN "verified_complete" ELSE "todo"
           /\ Len(Job(n, b, answer).ids) = IF Len(run.nodes[n].ids) > Len(Slots(n, b))
                                           THEN Len(run.nodes[n].ids) ELSE Len(Slots(n, b))
           /\ \A i \in DOMAIN Job(n, b, answer).ids :
                 Job(n, b, answer).ids[i] =
                    IF i = 1 /\ def[n].type = "operation" THEN FirstId(n, run.nodes)
                    ELSE SomeId(run.nodes[n].ids, i)
<1> DEFINE keys   == Slots(n, b)
           state  == run.nodes[n]
           offset == state.iterations * (IF def[n].type = "bounded_loop" THEN Size(n) ELSE 0)
           size   == Len(keys) + IF Len(state.ids) > Len(keys)
                                 THEN Len(state.ids) - Len(keys) ELSE 0
           L == Len(tasks)
           first(i) == IF i = 1 /\ def[n].type = "operation" THEN FirstId(n, run.nodes)
                       ELSE SomeId(state.ids, i)
           begin(i) == IF i <= offset THEN "verified_complete" ELSE "todo"
           job == Job(n, b, answer)
<1>1. /\ DOMAIN job = {"node", "keys", "answer", "alive", "ids", "states"}
      /\ job.node = n /\ job.answer = answer /\ job.alive = TRUE /\ job.keys = keys
      /\ job.ids = [i \in 1..size |-> first(i)]
      /\ job.states = [i \in DOMAIN keys |-> begin(i)]
    BY DEF Job, Size
<1>2. JobForm(job)
    BY <1>1 DEF JobForm
<1>3. keys \in Seq(AllKeys)
    BY ExpectedFacts DEF TypeInv, PlainInv
<1>4. L \in Nat /\ \A m \in DOMAIN def : run.nodes[m].ids \in Seq(1..L)
    BY DEF TypeInv, NodesInv, NodeTyped, Typed
<1> DEFINE k == Len(keys)  given == Len(state.ids)
<1>5. k \in Nat /\ given \in Nat /\ DOMAIN keys = 1..k /\ size = IF given > k THEN given ELSE k
  <2>1. k \in Nat /\ DOMAIN keys = 1..k
    BY <1>3
  <2>2. given \in Nat
    BY <1>4
  <2> HIDE DEF k, given, keys
  <2>3. size = k + IF given > k THEN given - k ELSE 0
    BY DEF k, given
  <2> QED
    BY <2>1, <2>2, <2>3
<1>6. \A i \in 1..size : first(i) \in 0..L
  <2> TAKE i \in 1..size
  <2>1. FirstId(n, run.nodes) \in 0..L
    BY <1>4, FirstIdTyped
  <2>2. SomeId(state.ids, i) \in 0..L
    <3>1. state.ids \in Seq(1..L)
      BY <1>4
    <3> HIDE DEF L, state
    <3> QED
      BY <1>4, <3>1, SomeIdTyped
  <2> QED
    BY <2>1, <2>2
<1>7. \A i \in 1..k : begin(i) \in JobStatus
    BY DEF JobStatus
<1> HIDE DEF first, begin, L, k, given, job, keys, size
<1>8. size \in Nat /\ k <= size
    BY <1>5
<1>9. job.ids \in Seq(0..L) /\ Len(job.ids) = size /\ DOMAIN job.ids = 1..size
      /\ \A i \in 1..size : job.ids[i] = first(i)
    BY ONLY <1>1, <1>6, <1>8
<1>10. job.states \in Seq(JobStatus) /\ Len(job.states) = k /\ DOMAIN job.states = 1..k
       /\ \A i \in 1..k : job.states[i] = begin(i)
    BY ONLY <1>1, <1>5, <1>7
<1>11. JobTyped(job)
    BY <1>1, <1>3, <1>8, <1>9, <1>10 DEF JobTyped, L, k
<1> QED
    BY <1>1, <1>2, <1>5, <1>9, <1>10, <1>11 DEF first, begin, k, given, job, keys, size

\* What a job ends with.
LEMMA AggregateFacts ==
    ASSUME NEW states, states \in Seq(JobStatus)
    PROVE  /\ Aggregate(states) \in {"failed", "recovery_required", "awaiting_approval",
                                     "cancelled", "ready", "verified_complete"}
           /\ Aggregate(states) = "verified_complete" =>
                 \A i \in DOMAIN states : states[i] \in {"todo", "busy", "verified_complete"}
           /\ Aggregate(states) # "verified_complete" => Aggregate(states) \in ToSet(states)
<1> DEFINE order == <<"failed", "recovery_required", "awaiting_approval", "cancelled", "ready">>
           names == {"failed", "recovery_required", "awaiting_approval", "cancelled", "ready"}
           result == Aggregate(states)
<1>1. order \in Seq(names) /\ Len(order) = 5
      /\ \A name \in names : \E i \in 1..5 : order[i] = name
    OBVIOUS
<1>2. result = Foremost(order, ToSet(states), "verified_complete")
    BY Zenon DEF Aggregate
<1> HIDE DEF order, result
<1>3. \/ /\ result = "verified_complete"
         /\ \A i \in 1..Len(order) : order[i] \notin ToSet(states)
      \/ result \in names \cap ToSet(states)
    BY <1>1, <1>2, ForemostFacts
<1>4. \A i \in DOMAIN states : states[i] \in ToSet(states) /\ states[i] \in JobStatus
    BY DEF ToSet
<1>5. result = "verified_complete" => \A i \in DOMAIN states : states[i] \notin names
    BY <1>1, <1>3, <1>4
<1> QED
    BY <1>3, <1>4, <1>5 DEF JobStatus, result

LEMMA PlannedFacts ==
    ASSUME tasks \in Seq(TaskRecord), NEW ids, ids \in Seq(0..Len(tasks))
    PROVE  Planned(ids) \in Seq(1..Len(tasks)) /\ Len(Planned(ids)) <= Len(ids)
<1> DEFINE L == Len(tasks)  S == 0..L  set == DOMAIN tasks  kept == Among(ids, set)
<1>1. set = 1..L /\ L \in Nat /\ ids \in Seq(S)
    OBVIOUS
<1> HIDE DEF S
<1>2. kept \in Seq(S \cap set) /\ Len(kept) <= Len(ids)
    BY <1>1, AmongFacts
<1>3. S \cap set = 1..L
    BY <1>1 DEF S
<1> QED
    BY <1>2, <1>3 DEF Planned

LEMMA OutcomeTyped ==
    ASSUME TypeInv, FormInv, NEW j \in jobs
    PROVE  /\ NodeTyped(Outcome(j)) /\ Outcome(j).ids = Planned(j.ids)
           /\ Outcome(j).iterations =
                 IF def[j.node].type = "bounded_loop"
                 THEN Cardinality({i \in DOMAIN j.states : j.states[i] = "verified_complete"})
                      \div Size(j.node)
                 ELSE 0
           /\ LET status == IF j.answer # "none" THEN j.answer ELSE Aggregate(j.states)
              IN Outcome(j).status = IF j.node \in Compensations /\ status = "verified_complete"
                                     THEN "compensated" ELSE status
<1> DEFINE n == j.node
           status == IF j.answer # "none" THEN j.answer ELSE Aggregate(j.states)
           whole  == Cardinality({i \in DOMAIN j.states : j.states[i] = "verified_complete"})
<1>1. /\ Outcome(j).status = IF n \in Compensations /\ status = "verified_complete"
                             THEN "compensated" ELSE status
      /\ Outcome(j).ids = Planned(j.ids)
      /\ Outcome(j).iterations = IF def[n].type = "bounded_loop" THEN whole \div Size(n) ELSE 0
    BY DEF Outcome, NodeState, Size
<1>2. JobForm(j) /\ j.answer # "throws" /\ JobTyped(j) /\ n \in DOMAIN def /\ def \in Definitions
    BY DEF FormInv, TypeInv, JobsInv, JobsTyped, JobForm
<1>3. status \in NodeStatus
    BY <1>2, AggregateFacts DEF JobForm, Answers, JobTyped, NodeStatus, DoneStatus
<1>4. Outcome(j).status \in NodeStatus
    BY <1>1, <1>3 DEF NodeStatus, DoneStatus
<1>5. Outcome(j).ids \in Seq(1..Len(tasks))
    BY <1>1, <1>2, PlannedFacts DEF TypeInv, JobTyped
<1>6. whole \in Nat
  <2> DEFINE list == j.states  S == {i \in DOMAIN list : list[i] = "verified_complete"}
  <2>1. list \in Seq(JobStatus)
    BY <1>2 DEF JobTyped
  <2>2. DOMAIN list = 1..Len(list) /\ Len(list) \in Nat
    BY ONLY <2>1
  <2>3. IsFiniteSet(1..Len(list)) /\ S \subseteq 1..Len(list)
    BY <2>2, FS_Interval
  <2>4. IsFiniteSet(S)
    BY <2>3, FS_Subset
  <2> QED
    BY <2>4, FS_CardinalityType
<1> HIDE DEF whole
<1>7. def[n].type = "bounded_loop" => Size(n) \in Nat \ {0}
    BY <1>2, SlotsFacts
<1> DEFINE size == Size(n)
<1> HIDE DEF size
<1>8. size \in Nat \ {0} => whole \div size \in Nat
    BY ONLY <1>6
<1>9. Outcome(j).iterations \in Nat
    BY <1>1, <1>7, <1>8 DEF size
<1> QED
    BY <1>1, <1>4, <1>5, <1>9 DEF NodeTyped, Typed, whole

-----------------------------------------------------------------------------
(* What recovery makes of a node.                                              *)

Known      == {tasks[id].key : id \in DOMAIN tasks}
IsVerified(id) == tasks[id].status = "verified_success"
\* The tasks that recovery chooses for a node, one of each key that it finds.
Chosen(n, choice) == [i \in DOMAIN KeysToRecover(n) |-> choice[KeysToRecover(n)[i]]]
Picks == {choice \in [Known -> DOMAIN tasks] : \A k \in Known : choice[k] \in Preferred(k)}

LEMMA ChosenFacts ==
    ASSUME TypeInv, NEW n \in DOMAIN def, NEW choice \in Picks
    PROVE  /\ KeysToRecover(n) \in Seq(AllKeys)
           /\ Chosen(n, choice) \in Seq(1..Len(tasks))
           /\ Len(Chosen(n, choice)) = Len(KeysToRecover(n))
           /\ \A i \in 1..Len(KeysToRecover(n)) :
                 /\ KeysToRecover(n)[i] \in Known
                 /\ Chosen(n, choice)[i] \in Preferred(KeysToRecover(n)[i])
                 /\ tasks[Chosen(n, choice)[i]].key = KeysToRecover(n)[i]
<1> DEFINE keys == KeysToRecover(n)  all == ExpectedKeys(n)  ids == Chosen(n, choice)
           L == Len(tasks)
<1>1. all \in Seq(AllKeys)
    BY ExpectedFacts DEF TypeInv, PlainInv
<1>2. keys = Among(all, Known)
    BY DEF KeysToRecover, Known
<1>3. DOMAIN tasks = 1..L /\ L \in Nat
    BY DEF TypeInv
<1>4. ids = [i \in DOMAIN keys |-> choice[keys[i]]]
    BY DEF Chosen
<1>5. \A k \in Known : choice[k] \in 1..L /\ choice[k] \in Preferred(k)
    BY <1>3 DEF Picks
<1>6. \A k : \A id \in Preferred(k) : tasks[id].key = k
    BY DEF Preferred, TasksOf
<1> HIDE DEF keys, all, ids, L
<1>7. keys \in Seq(AllKeys \cap Known)
    BY <1>1, <1>2, AmongFacts
<1>8. keys \in Seq(AllKeys) /\ DOMAIN keys = 1..Len(keys) /\ Len(keys) \in Nat
      /\ \A i \in 1..Len(keys) : keys[i] \in Known
    BY <1>7
<1>9. \A i \in 1..Len(keys) : choice[keys[i]] \in 1..L
    BY <1>5, <1>8
<1>10. ids = [i \in 1..Len(keys) |-> choice[keys[i]]]
    BY <1>4, <1>8
<1>11. ids \in Seq(1..L) /\ Len(ids) = Len(keys)
       /\ \A i \in 1..Len(keys) : ids[i] = choice[keys[i]]
    BY ONLY <1>8, <1>9, <1>10
<1> QED
    BY <1>5, <1>6, <1>8, <1>11 DEF keys, ids, L

LEMMA RecoveredFacts ==
    ASSUME TypeInv, FormInv, NEW n \in DOMAIN def, NEW ids, ids \in Seq(1..Len(tasks))
    PROVE  /\ NodeTyped(RecoveredState(n, ids)) /\ NodeForm(RecoveredState(n, ids))
           /\ Fits(n, RecoveredState(n, ids).status)
           /\ ids = <<>> => RecoveredState(n, ids) = run.nodes[n]
           /\ ids # <<>> =>
                 /\ RecoveredState(n, ids).ids = ids
                 /\ RecoveredState(n, ids).status \in
                       {"recovery_required", "awaiting_approval", "failed", "pending", "cancelled",
                        "verified_complete", "compensated"}
                 /\ RecoveredState(n, ids).status \in {"verified_complete", "compensated"} <=>
                       \A i \in DOMAIN ids : IsVerified(ids[i])
                 /\ RecoveredState(n, ids).status = "recovery_required" <=>
                       \E i \in DOMAIN ids : tasks[ids[i]].status = "recovery_required"
                 /\ RecoveredState(n, ids).iterations =
                       IF def[n].type = "bounded_loop" /\ \A i \in DOMAIN ids : IsVerified(ids[i])
                       THEN (Len(ids) + Size(n) - 1) \div Size(n) ELSE 0
<1> DEFINE L == Len(tasks)
           Some(s) == \E i \in DOMAIN ids : tasks[ids[i]].status = s
           All(s)  == \A i \in DOMAIN ids : tasks[ids[i]].status = s
           status  == IF Some("recovery_required") THEN "recovery_required"
                      ELSE IF Some("awaiting_approval") THEN "awaiting_approval"
                      ELSE IF Some("failed") THEN "failed"
                      ELSE IF Some("planned") THEN "pending"
                      ELSE IF ~All("verified_success") THEN "cancelled"
                      ELSE IF n \in Compensations THEN "compensated" ELSE "verified_complete"
           turns == IF def[n].type = "bounded_loop" /\ All("verified_success")
                    THEN (Len(ids) + Size(n) - 1) \div Size(n) ELSE 0
           state == RecoveredState(n, ids)
<1>1. state = IF ids = <<>> THEN run.nodes[n] ELSE NodeState(status, ids, turns)
    BY DEF RecoveredState, Size
<1>2. /\ NodeTyped(run.nodes[n]) /\ NodeForm(run.nodes[n]) /\ Fits(n, run.nodes[n].status)
    BY DEF TypeInv, NodesInv, FormInv, RunForm, Status
<1>3. CASE ids = <<>>
    BY <1>1, <1>2, <1>3
<1>4. CASE ids # <<>>
  <2>1. state = NodeState(status, ids, turns)
    BY <1>1, <1>4
  <2>2. /\ DOMAIN state = {"status", "ids", "iterations"}
        /\ state.status = status /\ state.ids = ids /\ state.iterations = turns
    BY <2>1 DEF NodeState
  <2>3. status \in {"recovery_required", "awaiting_approval", "failed", "pending", "cancelled",
                    "verified_complete", "compensated"}
        /\ (status = "compensated" => n \in Compensations)
        /\ (status = "verified_complete" => n \notin Compensations)
    OBVIOUS
  <2>4. /\ status \in {"verified_complete", "compensated"} <=> All("verified_success")
        /\ status = "recovery_required" <=> Some("recovery_required")
    <3>1. \E i \in DOMAIN ids : TRUE
      <4> DEFINE S == 1..L
      <4>1. ids \in Seq(S) /\ ids # <<>>
        BY <1>4
      <4> HIDE DEF S
      <4>2. 1 \in DOMAIN ids
        BY ONLY <4>1
      <4> QED
        BY <4>2
    <3>2. \A s : Some(s) /\ All("verified_success") => s = "verified_success"
      OBVIOUS
    <3> HIDE DEF Some, All
    <3> QED
      BY <3>2
  <2>5. turns \in Nat
    <3>1. def[n].type = "bounded_loop" => Size(n) \in Nat \ {0}
      BY SlotsFacts DEF TypeInv, PlainInv
    <3> DEFINE size == Size(n)  k == Len(ids)
    <3>2. k \in Nat
      OBVIOUS
    <3> HIDE DEF size, k
    <3>3. size \in Nat \ {0} => (k + size - 1) \div size \in Nat
      <4>1. size \in Nat \ {0} => k + size - 1 \in Nat
        BY <3>2
      <4> DEFINE u == k + size - 1
      <4> HIDE DEF u
      <4>2. u \in Nat /\ size \in Nat \ {0} => u \div size \in Nat
        OBVIOUS
      <4> QED
        BY <4>1, <4>2 DEF u
    <3> QED
      BY <3>1, <3>3 DEF size, k
  <2> HIDE DEF status, turns, state
  <2>6. NodeTyped(state) /\ NodeForm(state) /\ Fits(n, state.status)
    <3>1. status \in NodeStatus
      BY <2>3 DEF NodeStatus, DoneStatus
    <3>2. Fits(n, status)
      BY <2>3 DEF Fits, Compensations
    <3> QED
      BY <2>2, <2>5, <3>1, <3>2 DEF NodeTyped, Typed, NodeForm
  <2>7. All("verified_success") <=> \A i \in DOMAIN ids : IsVerified(ids[i])
    BY DEF IsVerified
  <2>8. turns = IF def[n].type = "bounded_loop" /\ (\A i \in DOMAIN ids : IsVerified(ids[i]))
                THEN (Len(ids) + Size(n) - 1) \div Size(n) ELSE 0
    BY <2>7 DEF turns
  <2> QED
    BY <1>4, <2>2, <2>3, <2>4, <2>6, <2>7, <2>8 DEF state
<1> QED
    BY <1>3, <1>4

\* What RecoverRun does, in these terms.
RecoveredNodes(choice) == [n \in DOMAIN def |-> RecoveredState(n, Chosen(n, choice))]

LEMMA RecoverRunMeans ==
    ASSUME RecoverRun
    PROVE  /\ mode = "repairing" /\ mode' = "serving"
           /\ UNCHANGED <<def, faults, answers, tasks, committed, wave, jobs, launched, count>>
           /\ \/ /\ run.status \notin {"planned", "running", "awaiting_approval",
                                       "recovery_required"}
                 /\ lost' = lost \cup {n \in DOMAIN def : run.nodes[n].status \notin DoneStatus}
                 /\ UNCHANGED <<run, repaired>>
              \/ /\ run.status \in {"planned", "running", "awaiting_approval",
                                    "recovery_required"}
                 /\ \E choice \in Picks :
                       LET nodes == SkipUnused(RecoveredNodes(choice))
                       IN /\ run' = [status |-> DeriveStatus(nodes), nodes |-> nodes,
                                     error |-> DeriveStatus(nodes) = "recovery_required"]
                          /\ repaired' = repaired \cup
                                {n \in DOMAIN def : /\ nodes[n].status = "verified_complete"
                                                    /\ run.nodes[n].status # "verified_complete"}
                 /\ UNCHANGED lost
<1>1. CASE run.status \notin {"planned", "running", "awaiting_approval", "recovery_required"}
    BY <1>1, Zenon DEF RecoverRun
<1>2. CASE run.status \in {"planned", "running", "awaiting_approval", "recovery_required"}
  <2>1. PICK choice \in [Known -> DOMAIN tasks] :
           /\ \A k \in DOMAIN choice : choice[k] \in Preferred(k)
           /\ LET found(n) == LET keys == KeysToRecover(n)
                              IN RecoveredState(n, [i \in DOMAIN keys |-> choice[keys[i]]])
                  nodes    == SkipUnused([n \in DOMAIN def |-> found(n)])
              IN /\ run' = [status |-> DeriveStatus(nodes), nodes |-> nodes,
                            error |-> DeriveStatus(nodes) = "recovery_required"]
                 /\ repaired' = repaired \cup
                       {n \in DOMAIN def : /\ nodes[n].status = "verified_complete"
                                           /\ run.nodes[n].status # "verified_complete"}
    BY <1>2, Zenon DEF RecoverRun, Known
  <2>2. choice \in Picks
    BY <2>1 DEF Picks
  <2>3. [n \in DOMAIN def |-> LET keys == KeysToRecover(n)
                              IN RecoveredState(n, [i \in DOMAIN keys |-> choice[keys[i]]])]
        = RecoveredNodes(choice)
    BY DEF RecoveredNodes, Chosen
  <2>4. UNCHANGED lost /\ mode = "repairing" /\ mode' = "serving"
        /\ UNCHANGED <<def, faults, answers, tasks, committed, wave, jobs, launched, count>>
    BY <1>2, Zenon DEF RecoverRun
  <2> QED
    BY <1>2, <2>1, <2>2, <2>3, <2>4
<1> QED
    BY <1>1, <1>2

-----------------------------------------------------------------------------
(* What a request does.                                                        *)

\* Request i of j has become st, with the task id.
Became(j, next, i, id, st) ==
    /\ JobForm(next)
    /\ next.node = j.node /\ next.answer = j.answer /\ next.alive = j.alive
    /\ Len(next.ids) = Len(j.ids)
    /\ \A m \in 1..Len(j.ids) : next.ids[m] = IF m = i THEN id ELSE j.ids[m]
    /\ Kept(j, i, st) \in {i, Len(j.states)}
    /\ Len(next.keys) = Kept(j, i, st) /\ Len(next.states) = Kept(j, i, st)
    /\ \A m \in 1..Kept(j, i, st) : /\ next.keys[m] = j.keys[m]
                                    /\ next.states[m] = IF m = i THEN st ELSE j.states[m]

Plain(next, most) == /\ next.keys \in Seq(AllKeys) /\ next.ids \in Seq(0..most)
                     /\ next.states \in Seq(JobStatus)

LEMMA FinishedBecomes ==
    ASSUME TypeInv, FormInv, NEW j \in jobs, NEW i \in DOMAIN j.states, NEW most \in Nat,
           Len(tasks) <= most, NEW id \in 1..most, NEW st \in JobStatus
    PROVE  /\ \E next : /\ next = Finished(j, i, id, st) /\ Became(j, next, i, id, st)
                        /\ Plain(next, most)
           /\ st = "busy" =>
                 \E next : /\ next = Put(j, i, id, st) /\ Became(j, next, i, id, st)
                           /\ Plain(next, most)
<1>1. JobForm(j) /\ JobTyped(j)
    BY DEF TypeInv, JobsInv, JobsTyped, FormInv
<1> DEFINE I == 0..most
<1>2. j.ids \in Seq(I) /\ id \in I
    BY <1>1, Widen DEF JobTyped, TypeInv
<1>3. /\ j.keys \in Seq(AllKeys) /\ j.states \in Seq(JobStatus)
      /\ Len(j.keys) = Len(j.states) /\ Len(j.states) <= Len(j.ids)
    BY <1>1 DEF JobTyped
<1>4. i \in 1..Len(j.states)
    BY <1>3
<1> HIDE DEF I
<1>5. PICK next : /\ next = Finished(j, i, id, st) /\ JobForm(next)
                  /\ next.node = j.node /\ next.answer = j.answer /\ next.alive = j.alive
                  /\ next.ids \in Seq(I) /\ Len(next.ids) = Len(j.ids)
                  /\ \A m \in 1..Len(j.ids) : next.ids[m] = IF m = i THEN id ELSE j.ids[m]
                  /\ Kept(j, i, st) \in {i, Len(j.states)}
                  /\ next.keys \in Seq(AllKeys) /\ Len(next.keys) = Kept(j, i, st)
                  /\ next.states \in Seq(JobStatus) /\ Len(next.states) = Kept(j, i, st)
                  /\ \A m \in 1..Kept(j, i, st) :
                        /\ next.keys[m] = j.keys[m]
                        /\ next.states[m] = IF m = i THEN st ELSE j.states[m]
    BY ONLY <1>1, <1>2, <1>3, <1>4, st \in JobStatus, FinishedShape, SMTT(60)
<1>6. Became(j, next, i, id, st) /\ Plain(next, most)
    BY ONLY <1>5 DEF Became, Plain, I
<1>7. ASSUME st = "busy"
      PROVE  \E new : /\ new = Put(j, i, id, st) /\ Became(j, new, i, id, st) /\ Plain(new, most)
  <2> DEFINE new == Put(j, i, id, st)
  <2>1. new = Put(j, i, id, st)
    OBVIOUS
  <2> HIDE DEF new
  <2>2. /\ JobForm(new) /\ new.node = j.node /\ new.answer = j.answer
        /\ new.alive = j.alive /\ new.keys = j.keys
        /\ new.ids \in Seq(I) /\ Len(new.ids) = Len(j.ids)
        /\ \A m \in 1..Len(j.ids) : new.ids[m] = IF m = i THEN id ELSE j.ids[m]
        /\ new.states \in Seq(JobStatus) /\ Len(new.states) = Len(j.states)
        /\ \A m \in 1..Len(j.states) : new.states[m] = IF m = i THEN st ELSE j.states[m]
    BY ONLY <2>1, <1>1, <1>2, <1>3, <1>4, st \in JobStatus, PutFacts, SMTT(60)
  <2>3. Kept(j, i, st) = Len(j.states)
    BY <1>7 DEF Kept
  <2>4. Became(j, new, i, id, st) /\ Plain(new, most)
    BY ONLY <1>3, <2>2, <2>3 DEF Became, Plain, I
  <2> QED
    BY <2>1, <2>4
<1> QED
    BY <1>5, <1>6, <1>7

\* What has become of the tasks.
Asked(j, i, id, st) ==
    /\ tasks' \in Seq(TaskRecord) /\ id \in 1..Len(tasks')
    /\ Len(tasks') = IF SomeId(j.ids, i) = 0 THEN Len(tasks) + 1 ELSE Len(tasks)
    /\ id = IF SomeId(j.ids, i) = 0 THEN Len(tasks) + 1 ELSE j.ids[i]
    /\ SomeId(j.ids, i) = 0 => tasks'[id].key = j.keys[i]
    /\ \A m \in 1..Len(tasks) : /\ tasks'[m].key = tasks[m].key
                                /\ m # id => tasks'[m].status = tasks[m].status
    /\ id <= Len(tasks) => \/ tasks'[id].status = tasks[id].status
                           \/ tasks[id].status \in {"planned", "awaiting_approval"}
                           \/ (tasks[id].status = "running" /\ j.states[i] = "busy")
    /\ st \in JobStatus \ {"todo", "ready"}
    /\ st = "busy" => tasks'[id].status = "running"
                      /\ (id <= Len(tasks) =>
                             tasks[id].status \in {"planned", "awaiting_approval"})
    /\ st = "verified_complete" => \/ tasks'[id].status = "verified_success"
                                   \/ /\ tasks'[id].status = "planned"
                                      /\ def[j.node].type = "approval"
    /\ st = "recovery_required" => tasks'[id].status = "recovery_required"
    /\ st = "failed" \/ st = "cancelled" \/ st = "awaiting_approval" =>
          tasks'[id].status # "recovery_required"
    /\ \/ UNCHANGED launched
       \/ /\ st = "busy" /\ i \in Startable(j)
          /\ launched' = [launched EXCEPT ![tasks'[id].key] = @ + 1]
    /\ committed' \in {committed, committed \cup {tasks'[id].key}}
    /\ UNCHANGED <<def, faults, answers, mode, run, wave, lost, repaired, count>>

LEMMA StatusForTaskFacts ==
    ASSUME NEW status \in TaskStatus, NEW only \in BOOLEAN
    PROVE  /\ StatusForTask(status, only) \in JobStatus \ {"todo", "busy"}
           /\ StatusForTask(status, only) = "ready" => status = "planned" /\ ~only
           /\ StatusForTask(status, only) = "verified_complete" =>
                 status = "verified_success" \/ (status = "planned" /\ only)
           /\ StatusForTask(status, only) = "recovery_required" <=> status = "recovery_required"
<1>1. StatusForTask(status, only) =
         IF status = "verified_success" THEN "verified_complete"
         ELSE IF status = "planned" THEN IF only THEN "verified_complete" ELSE "ready"
         ELSE IF status \in {"awaiting_approval", "recovery_required", "cancelled"} THEN status
         ELSE "failed"
    BY DEF StatusForTask
<1> QED
    BY <1>1 DEF JobStatus

\* A task is updated, here or there.
LEMMA TouchIn ==
    ASSUME UNCHANGED def
    PROVE  TaskRecord' = TaskRecord
    BY SameKeys DEF TaskRecord, TaskStatus

LEMMA StartMeans ==
    ASSUME TypeInv, FormInv, NEW j \in jobs, NEW i \in DOMAIN j.states, StartRequest(j, i)
    PROVE  \E id, st, next : /\ Replace(j, next) /\ Became(j, next, i, id, st)
                             /\ Plain(next, Len(tasks')) /\ Asked(j, i, id, st)
<1> DEFINE given   == SomeId(j.ids, i)
           L       == Len(tasks)
           id      == IF given = 0 THEN Len(tasks) + 1 ELSE given
           planned == [key |-> j.keys[i], certified |-> FALSE, latest |-> TRUE,
                       status |-> IF Request(j.keys[i]).ask THEN "awaiting_approval"
                                                            ELSE "planned"]
           known   == IF given = 0 THEN Touch(Append(tasks, planned), id, planned.status)
                                   ELSE tasks
           status  == known[id].status
           only    == def[j.node].type = "approval"
           most    == Len(known)
<1>1. /\ i \in Startable(j)
      /\ \/ /\ \/ status = "awaiting_approval" /\ given # 0
               \/ status = "planned" /\ ~only
            /\ Execute(j, i, id, known)
         \/ /\ status # "planned" \/ only
            /\ tasks' = known
            /\ Replace(j, Finished(j, i, id, StatusForTask(status, only)))
            /\ UNCHANGED launched
      /\ UNCHANGED <<def, faults, answers, mode, run, committed, wave, lost, repaired, count>>
    BY Zenon DEF StartRequest
<1>2. /\ JobTyped(j) /\ tasks \in Seq(TaskRecord) /\ L \in Nat /\ i \in 1..Len(j.states)
  <2>1. JobTyped(j) /\ tasks \in Seq(TaskRecord)
    BY DEF TypeInv, JobsInv, JobsTyped
  <2>2. j.states \in Seq(JobStatus)
    BY <2>1 DEF JobTyped
  <2> QED
    BY <2>1, <2>2
<1>3. i \in DOMAIN j.keys /\ j.keys[i] \in AllKeys /\ i \in DOMAIN j.ids
      /\ given \in 0..L /\ (given # 0 => given = j.ids[i])
  <2>1. /\ j.keys \in Seq(AllKeys) /\ j.ids \in Seq(0..L) /\ j.states \in Seq(JobStatus)
        /\ Len(j.states) = Len(j.keys) /\ Len(j.keys) <= Len(j.ids)
    BY <1>2 DEF JobTyped
  <2> HIDE DEF L
  <2>2. i \in 1..Len(j.keys) /\ i \in 1..Len(j.ids)
    BY <1>2, <2>1
  <2>3. j.keys[i] \in AllKeys /\ i \in DOMAIN j.ids /\ i \in DOMAIN j.keys
    BY ONLY <2>1, <2>2
  <2> DEFINE S == 0..L
  <2>4. j.ids \in Seq(S)
    BY <2>1
  <2> HIDE DEF S
  <2>5. j.ids[i] \in S
    BY ONLY <2>2, <2>4
  <2> QED
    BY <2>3, <2>5 DEF SomeId, S
<1>4. /\ known \in Seq(TaskRecord) /\ id \in 1..Len(known)
      /\ Len(known) = IF given = 0 THEN L + 1 ELSE L
      /\ given = 0 => known[id].key = j.keys[i]
      /\ given = 0 => known[id].status \in {"planned", "awaiting_approval"}
      /\ \A m \in 1..L : known[m].key = tasks[m].key /\ known[m].status = tasks[m].status
  <2>1. CASE given # 0
    <3>1. known = tasks /\ id = given
      BY <2>1
    <3> HIDE DEF known, id
    <3> QED
      BY <1>2, <1>3, <2>1, <3>1
  <2>2. CASE given = 0
    <3> DEFINE longer == Append(tasks, planned)
    <3>1. planned \in TaskRecord /\ planned.key = j.keys[i]
          /\ planned.status \in {"planned", "awaiting_approval"}
          /\ planned.status \in TaskStatus
      BY <1>3 DEF TaskRecord, TaskStatus
    <3>2. known = Touch(longer, id, planned.status) /\ id = L + 1
      BY <2>2
    <3> HIDE DEF planned, known, id
    <3>3. /\ longer \in Seq(TaskRecord) /\ Len(longer) = L + 1 /\ longer[L + 1] = planned
          /\ \A m \in 1..L : longer[m] = tasks[m]
      BY <1>2, <3>1
    <3> HIDE DEF longer
    <3>4. L + 1 \in 1..Len(longer) /\ \A m \in 1..L : m \in 1..Len(longer) /\ m # L + 1
      BY <1>2, <3>3
    <3>5. /\ known \in Seq(TaskRecord) /\ Len(known) = Len(longer)
          /\ known[id].status = planned.status
          /\ \A m \in 1..Len(longer) : /\ known[m].key = longer[m].key
                                       /\ m # id => known[m].status = longer[m].status
      BY ONLY <3>1, <3>2, <3>3, <3>4, TouchFacts, SMTT(60)
    <3> QED
      BY <2>2, <3>1, <3>2, <3>3, <3>4, <3>5
  <2> QED
    BY <2>1, <2>2
<1>5. most \in Nat /\ L <= most
  <2> HIDE DEF known
  <2> QED
    BY <1>2, <1>4
<1> HIDE DEF given, L, id, planned, known, status, most
<1>6. status \in TaskStatus
  <2>1. known[id] \in TaskRecord
    BY <1>4
  <2> QED
    BY <2>1 DEF TaskRecord, status
<1>7. TaskRecord' = TaskRecord
    BY <1>1, TouchIn
<1>8. ASSUME NEW st \in JobStatus \ {"todo", "ready"}, NEW next, Replace(j, next),
             Became(j, next, i, id, st), Plain(next, most),
             tasks' \in Seq(TaskRecord), Len(tasks') = Len(known),
             \A m \in 1..Len(known) : /\ tasks'[m].key = known[m].key
                                      /\ m # id => tasks'[m].status = known[m].status,
             tasks'[id].status = status \/ status \in {"planned", "awaiting_approval"},
             st = "busy" => tasks'[id].status = "running"
                            /\ status \in {"planned", "awaiting_approval"},
             st = "verified_complete" => \/ tasks'[id].status = "verified_success"
                                         \/ tasks'[id].status = "planned" /\ only,
             st = "recovery_required" => tasks'[id].status = "recovery_required",
             st = "failed" \/ st = "cancelled" \/ st = "awaiting_approval" =>
                 tasks'[id].status # "recovery_required",
             \/ UNCHANGED launched
             \/ st = "busy" /\ launched' = [launched EXCEPT ![tasks'[id].key] = @ + 1]
      PROVE  \E id1, st1, next1 : /\ Replace(j, next1) /\ Became(j, next1, i, id1, st1)
                                  /\ Plain(next1, Len(tasks')) /\ Asked(j, i, id1, st1)
  <2>1. Asked(j, i, id, st)
    <3>1. id = IF given = 0 THEN L + 1 ELSE given
      BY DEF id, L
    <3>2. id \in 1..Len(tasks') /\ Len(tasks') = IF given = 0 THEN L + 1 ELSE L
      BY <1>4, <1>8
    <3>3. \A m \in 1..L : /\ tasks'[m].key = tasks[m].key
                          /\ m # id => tasks'[m].status = tasks[m].status
      <4>1. \A m \in 1..L : m \in 1..Len(known)
        BY <1>2, <1>4
      <4> QED
        BY <1>4, <1>8, <4>1
    <3>4. given = 0 => tasks'[id].key = j.keys[i]
      BY <1>4, <1>8
    <3>5. id <= L => id \in 1..L /\ status = tasks[id].status
      BY <1>2, <1>4 DEF status
    <3> QED
      BY <1>1, <1>3, <1>8, <3>1, <3>2, <3>3, <3>4, <3>5 DEF Asked, given, L, only
  <2>2. Plain(next, Len(tasks'))
    BY <1>8 DEF most
  <2> QED
    BY <1>8, <2>1, <2>2
<1>9. CASE /\ status # "planned" \/ only
           /\ tasks' = known
           /\ Replace(j, Finished(j, i, id, StatusForTask(status, only)))
           /\ UNCHANGED launched
  <2> DEFINE st == StatusForTask(status, only)
  <2>1. /\ st \in JobStatus \ {"todo", "ready", "busy"}
        /\ st = "verified_complete" =>
              status = "verified_success" \/ (status = "planned" /\ only)
        /\ st = "recovery_required" <=> status = "recovery_required"
    BY <1>6, <1>9, StatusForTaskFacts
  <2>2. Replace(j, Finished(j, i, id, st))
    BY <1>9
  <2> HIDE DEF st
  <2>3. PICK next : /\ next = Finished(j, i, id, st) /\ Became(j, next, i, id, st)
                    /\ Plain(next, most)
    <3>1. id \in 1..most /\ Len(tasks) <= most
      BY <1>4, <1>5 DEF most, L
    <3> QED
      BY <1>5, <2>1, <3>1, FinishedBecomes
  <2>4. tasks'[id].status = status
    BY <1>9 DEF status
  <2> QED
    BY <1>4, <1>8, <1>9, <2>1, <2>2, <2>3, <2>4
<1>10. CASE /\ \/ status = "awaiting_approval" /\ given # 0
               \/ status = "planned" /\ ~only
            /\ Execute(j, i, id, known)
  <2>1. id \in 1..most /\ Len(tasks) <= most /\ "busy" \in JobStatus /\ "cancelled" \in JobStatus
        /\ "running" \in TaskStatus /\ "cancelled" \in TaskStatus
    BY <1>4, <1>5 DEF most, L, JobStatus, TaskStatus
  <2>2. ASSUME NEW new \in {"running", "cancelled"}, tasks' = Touch(known, id, new)
        PROVE  /\ tasks' \in Seq(TaskRecord) /\ Len(tasks') = Len(known)
               /\ tasks'[id].status = new
               /\ \A m \in 1..Len(known) : /\ tasks'[m].key = known[m].key
                                           /\ m # id => tasks'[m].status = known[m].status
    <3>1. new \in TaskStatus
      BY <2>1, <2>2
    <3>2. known \in Seq(TaskRecord) /\ id \in 1..Len(known)
      BY <1>4
    <3> QED
      <4> DEFINE new1 == Touch(known, id, new)
      <4>1. new1 = Touch(known, id, new) /\ tasks' = new1
        BY <2>2
      <4> HIDE DEF new1
      <4>2. /\ new1 \in Seq(TaskRecord) /\ Len(new1) = Len(known) /\ new1[id].status = new
            /\ \A m \in 1..Len(known) : /\ new1[m].key = known[m].key
                                        /\ m # id => new1[m].status = known[m].status
        BY ONLY <3>1, <3>2, <4>1, TouchFacts
      <4> QED
        BY ONLY <4>1, <4>2
  <2>3. CASE /\ tasks' = Touch(known, id, "cancelled")
             /\ Replace(j, Finished(j, i, id, "cancelled"))
             /\ UNCHANGED launched
    <3>1. PICK next : /\ next = Finished(j, i, id, "cancelled")
                      /\ Became(j, next, i, id, "cancelled") /\ Plain(next, most)
      BY <1>5, <2>1, FinishedBecomes
    <3>2. "cancelled" \in JobStatus \ {"todo", "ready"}
      BY DEF JobStatus
    <3> QED
      BY <1>8, <1>10, <2>2, <2>3, <3>1, <3>2
  <2>4. CASE /\ tasks' = Touch(known, id, "running")
             /\ Replace(j, [j EXCEPT !.ids[i] = id, !.states[i] = "busy"])
             /\ launched' = IF Request(known[id].key).effect = "mutate"
                            THEN [launched EXCEPT ![known[id].key] = @ + 1] ELSE launched
    <3>1. PICK next : /\ next = Put(j, i, id, "busy")
                      /\ Became(j, next, i, id, "busy") /\ Plain(next, most)
      BY <1>5, <2>1, FinishedBecomes
    <3>2. Replace(j, next)
      BY <2>4, <3>1 DEF Put
    <3>3. "busy" \in JobStatus \ {"todo", "ready"}
      BY DEF JobStatus
    <3>4. known[id].key = tasks'[id].key
      BY <1>4, <2>2, <2>4
    <3>5. \/ UNCHANGED launched
          \/ launched' = [launched EXCEPT ![tasks'[id].key] = @ + 1]
      BY <2>4, <3>4
    <3> QED
      BY <1>8, <1>10, <2>2, <2>4, <3>1, <3>2, <3>3, <3>5
  <2> QED
    BY <1>10, <2>3, <2>4, Zenon DEF Execute
<1> QED
    BY <1>1, <1>9, <1>10

LEMMA AnswerMeans ==
    ASSUME TypeInv, FormInv, NEW j \in jobs, NEW i, Answer(j, i)
    PROVE  /\ i \in DOMAIN j.states /\ j.states[i] = "busy"
           /\ \E id, st, next : /\ st # "busy"
                                /\ Replace(j, next) /\ Became(j, next, i, id, st)
                                /\ Plain(next, Len(tasks')) /\ Asked(j, i, id, st)
<1> DEFINE id == j.ids[i]  own == tasks[id].key
<1>1. PICK verdict \in {"verified_success", "failed", "cancelled"} :
         LET verified == verdict = "verified_success" /\ own \notin committed
             status   == IF verdict = "verified_success" /\ ~verified THEN "cancelled"
                                                                       ELSE verdict
         IN /\ tasks' = [Touch(tasks, id, status) EXCEPT ![id].certified = TRUE]
            /\ committed' = CommitKey(own, verified)
            /\ Replace(j, Finished(j, i, id, StatusForTask(status, FALSE)))
    BY Zenon DEF Answer
<1>2. /\ i \in DOMAIN j.states /\ j.states[i] = "busy"
      /\ UNCHANGED <<def, faults, answers, mode, run, wave, launched, lost, repaired, count>>
    BY Zenon DEF Answer, history
<1> DEFINE verified == verdict = "verified_success" /\ own \notin committed
           status   == IF verdict = "verified_success" /\ ~verified THEN "cancelled"
                                                                     ELSE verdict
           st == StatusForTask(status, FALSE)
<1>3. /\ tasks' = [Touch(tasks, id, status) EXCEPT ![id].certified = TRUE]
      /\ committed' = CommitKey(own, verified) /\ Replace(j, Finished(j, i, id, st))
    BY <1>1
<1>4. /\ tasks \in Seq(TaskRecord) /\ Len(tasks) \in Nat
      /\ j.ids \in Seq(0..Len(tasks)) /\ j.states \in Seq(JobStatus)
      /\ Len(j.states) <= Len(j.ids) /\ id # 0 /\ tasks[id].status = "running"
    BY <1>2 DEF TypeInv, JobsInv, JobsTyped, JobTyped, BusyRun
<1>5. id \in 1..Len(tasks) /\ i \in DOMAIN j.ids
  <2> DEFINE L == Len(tasks)  S == 0..L
  <2>1. j.ids \in Seq(S) /\ j.states \in Seq(JobStatus) /\ Len(j.states) <= Len(j.ids)
        /\ i \in DOMAIN j.states
    BY <1>2, <1>4
  <2> HIDE DEF S
  <2>2. i \in DOMAIN j.ids
    BY ONLY <2>1
  <2>3. id \in S
    BY ONLY <2>1, <2>2
  <2> QED
    BY <1>4, <2>2, <2>3 DEF S
<1>6. status \in {"verified_success", "failed", "cancelled"} /\ status \in TaskStatus
    BY DEF TaskStatus
<1>7. /\ st \in JobStatus \ {"todo", "ready", "busy"}
      /\ st = "verified_complete" => status = "verified_success"
      /\ st # "recovery_required"
    BY <1>6, StatusForTaskFacts
<1> DEFINE touched == Touch(tasks, id, status)
<1>8. /\ touched \in Seq(TaskRecord) /\ Len(touched) = Len(tasks) /\ touched[id].status = status
      /\ \A m \in 1..Len(tasks) : /\ touched[m].key = tasks[m].key
                                  /\ m # id => touched[m].status = tasks[m].status
  <2>1. tasks \in Seq(TaskRecord) /\ id \in 1..Len(tasks) /\ status \in TaskStatus
    BY <1>4, <1>5, <1>6
  <2>2. touched = Touch(tasks, id, status)
    OBVIOUS
  <2> HIDE DEF touched, status, id, own, verified, st
  <2>3. /\ Touch(tasks, id, status) \in Seq(TaskRecord)
        /\ Len(Touch(tasks, id, status)) = Len(tasks)
        /\ Touch(tasks, id, status)[id].status = status
        /\ \A m \in 1..Len(tasks) :
              /\ Touch(tasks, id, status)[m].key = tasks[m].key
              /\ m # id => Touch(tasks, id, status)[m].status = tasks[m].status
    BY ONLY <2>1, TouchFacts, Zenon
  <2> QED
    BY ONLY <2>2, <2>3, Zenon
<1> HIDE DEF touched, status, id, own, st, verified
<1>9. /\ tasks' \in Seq(TaskRecord) /\ Len(tasks') = Len(tasks) /\ tasks'[id].status = status
      /\ \A m \in 1..Len(tasks) : /\ tasks'[m].key = tasks[m].key
                                  /\ m # id => tasks'[m].status = tasks[m].status
  <2> DEFINE e == [touched[id] EXCEPT !.certified = TRUE]
  <2>1. tasks' = [touched EXCEPT ![id] = e]
    BY <1>3 DEF touched
  <2>2. touched[id] \in TaskRecord
    BY <1>5, <1>8
  <2>3. ASSUME NEW old, old \in TaskRecord
        PROVE  /\ [old EXCEPT !.certified = TRUE] \in TaskRecord
               /\ [old EXCEPT !.certified = TRUE].key = old.key
               /\ [old EXCEPT !.certified = TRUE].status = old.status
    BY <2>3 DEF TaskRecord
  <2>4. e \in TaskRecord /\ e.key = touched[id].key /\ e.status = touched[id].status
    BY <2>2, <2>3
  <2> HIDE DEF e
  <2>5. ASSUME NEW T, NEW list, list \in Seq(T), NEW u \in 1..Len(list), NEW new \in T
        PROVE  /\ [list EXCEPT ![u] = new] \in Seq(T)
               /\ Len([list EXCEPT ![u] = new]) = Len(list)
               /\ \A m \in 1..Len(list) :
                     [list EXCEPT ![u] = new][m] = IF m = u THEN new ELSE list[m]
    BY ONLY <2>5
  <2>6. /\ tasks' \in Seq(TaskRecord) /\ Len(tasks') = Len(touched)
        /\ \A m \in 1..Len(touched) : tasks'[m] = IF m = id THEN e ELSE touched[m]
    BY <1>5, <1>8, <2>1, <2>4, <2>5
  <2> QED
    BY <1>5, <1>8, <2>4, <2>6
<1>10. PICK next : /\ next = Finished(j, i, id, st) /\ Became(j, next, i, id, st)
                   /\ Plain(next, Len(tasks))
    BY <1>2, <1>4, <1>5, <1>7, FinishedBecomes
<1>11. Asked(j, i, id, st)
  <2>1. SomeId(j.ids, i) = id /\ id # 0 /\ j.ids[i] = id
    BY <1>4, <1>5 DEF SomeId, id
  <2>2. committed' \in {committed, committed \cup {tasks'[id].key}}
    BY <1>3, <1>5, <1>9 DEF CommitKey, own
  <2>3. tasks[id].status = "running"
    BY <1>4
  <2> QED
    BY <1>2, <1>5, <1>6, <1>7, <1>9, <2>1, <2>2, <2>3 DEF Asked
<1> QED
    BY <1>2, <1>3, <1>7, <1>9, <1>10, <1>11

\* A request that starts was not busy before.
LEMMA StartableFacts ==
    ASSUME NEW j, NEW i, i \in Startable(j)
    PROVE  i \in DOMAIN j.states /\ j.states[i] = "todo"
    BY DEF Startable

LEMMA RequestMeans ==
    ASSUME TypeInv, FormInv, NEW j \in jobs, NEW i \in DOMAIN j.states,
           StartRequest(j, i) \/ Answer(j, i)
    PROVE  \E id, st, next : /\ (i \in Startable(j) /\ j.states[i] = "todo")
                                \/ (st # "busy" /\ j.states[i] = "busy")
                             /\ Replace(j, next) /\ Became(j, next, i, id, st)
                             /\ Plain(next, Len(tasks')) /\ Asked(j, i, id, st)
<1>1. CASE StartRequest(j, i)
  <2>1. i \in Startable(j)
    BY <1>1 DEF StartRequest
  <2> QED
    BY <1>1, <2>1, StartMeans, StartableFacts
<1>2. CASE Answer(j, i)
    BY <1>2, AnswerMeans
<1> QED
    BY <1>1, <1>2

-----------------------------------------------------------------------------
(* Every step keeps the types.                                                 *)

\* What is typed stays so while tasks are added.
LEMMA TypedLonger ==
    ASSUME NEW most \in Nat, NEW more \in Nat, most <= more, NEW state, Typed(state, most)
    PROVE  Typed(state, more)
    BY Widen DEF Typed

\* The nodes of the run and of the wave are as they were.
LEMMA NodesStayTyped ==
    ASSUME TypeInv, UNCHANGED <<def, run, wave>>, Len(tasks) <= Len(tasks'),
           tasks' \in Seq(TaskRecord)
    PROVE  NodesInv'
<1>1. Len(tasks) \in Nat /\ Len(tasks') \in Nat
    BY DEF TypeInv
<1>2. \A state : Typed(state, Len(tasks)) => Typed(state, Len(tasks'))
    BY <1>1, TypedLonger
<1> QED
    BY <1>2 DEF TypeInv, NodesInv, NodeTyped

\* The busy requests after one of them has changed.
LEMMA RequestTypes ==
    ASSUME TypeInv, FormInv, NEW j \in jobs, NEW i \in DOMAIN j.states,
           StartRequest(j, i) \/ Answer(j, i)
    PROVE  TypeInv'
<1>1. PICK id, st, next : /\ (i \in Startable(j) /\ j.states[i] = "todo")
                                \/ (st # "busy" /\ j.states[i] = "busy")
                          /\ Replace(j, next) /\ Became(j, next, i, id, st)
                          /\ Plain(next, Len(tasks')) /\ Asked(j, i, id, st)
    BY RequestMeans
<1>2. /\ tasks' \in Seq(TaskRecord) /\ id \in 1..Len(tasks')
      /\ Len(tasks) \in Nat /\ Len(tasks') \in Nat /\ Len(tasks) <= Len(tasks')
      /\ DOMAIN tasks' = 1..Len(tasks')
      /\ UNCHANGED <<def, faults, answers, mode, run, wave, count>>
      /\ id = Len(tasks) + 1 \/ (id \in 1..Len(tasks) /\ id = j.ids[i])
  <2>1. tasks' \in Seq(TaskRecord) /\ tasks \in Seq(TaskRecord)
    BY <1>1 DEF Asked, TypeInv
  <2>2. Len(tasks) \in Nat /\ Len(tasks') \in Nat /\ DOMAIN tasks' = 1..Len(tasks')
    BY ONLY <2>1
  <2>3. /\ id \in 1..Len(tasks')
        /\ Len(tasks') = IF SomeId(j.ids, i) = 0 THEN Len(tasks) + 1 ELSE Len(tasks)
        /\ id = IF SomeId(j.ids, i) = 0 THEN Len(tasks) + 1 ELSE j.ids[i]
        /\ UNCHANGED <<def, faults, answers, mode, run, wave, count>>
    BY <1>1 DEF Asked
  <2> QED
    BY ONLY <2>1, <2>2, <2>3
<1>3. AllKeys' = AllKeys /\ TaskRecord' = TaskRecord
    BY <1>2, SameKeys, TouchIn
<1>4. PlainInv'
  <2>1. id \in DOMAIN tasks' /\ tasks'[id].key \in AllKeys
    <3>1. tasks'[id] \in TaskRecord
      BY <1>2
    <3> QED
      BY <1>2, <3>1 DEF TaskRecord
  <2>2. /\ committed' \in {committed, committed \cup {tasks'[id].key}}
        /\ UNCHANGED launched \/ launched' = [launched EXCEPT ![tasks'[id].key] = @ + 1]
    BY <1>1 DEF Asked
  <2>3. launched' \in [AllKeys -> Nat] /\ committed' \subseteq AllKeys
    BY <2>1, <2>2 DEF TypeInv, PlainInv
  <2> QED
    BY <1>2, <1>3, <2>3 DEF TypeInv, PlainInv
<1>5. tasks' \in Seq(TaskRecord')
    BY <1>2, <1>3
<1>6. NodesInv'
    BY <1>2, NodesStayTyped
<1>7. JobsInv'
  <2>1. \A job \in jobs : /\ job.answer # "throws" /\ JobTyped(job) /\ BusyRun(job)
                          /\ job.states \in Seq(JobStatus) /\ job.ids \in Seq(0..Len(tasks))
                          /\ Len(job.states) <= Len(job.ids)
    BY DEF TypeInv, JobsInv, JobsTyped, JobTyped
  <2>2. \A job, other \in jobs : \A m \in DOMAIN job.states, e \in DOMAIN other.states :
           job.states[m] = "busy" /\ other.states[e] = "busy" /\ job.ids[m] = other.ids[e] =>
              job = other /\ m = e
    BY DEF TypeInv, JobsInv, JobsTyped
  <2>3. \A job \in jobs : \A m \in DOMAIN job.states : job.states[m] = "busy" =>
           job.ids[m] \in 1..Len(tasks) /\ tasks[job.ids[m]].status = "running"
    <3> TAKE job \in jobs
    <3> TAKE m \in DOMAIN job.states
    <3> HAVE job.states[m] = "busy"
    <3> DEFINE L == Len(tasks)  S == 0..L
    <3>1. /\ job.ids \in Seq(S) /\ job.states \in Seq(JobStatus)
          /\ Len(job.states) <= Len(job.ids)
          /\ job.ids[m] # 0 /\ tasks[job.ids[m]].status = "running"
      BY <2>1 DEF BusyRun
    <3> HIDE DEF S
    <3>2. job.ids[m] \in S
      BY ONLY <3>1, m \in DOMAIN job.states
    <3> QED
      BY <1>2, <3>1, <3>2 DEF S
  <2>4. \A job \in jobs : \A m \in DOMAIN job.states :
           job.states[m] = "busy" /\ job.ids[m] = id =>
              st # "busy" /\ ((job = j /\ m = i) \/ tasks'[id].status = "running")
    <3> TAKE job \in jobs
    <3> TAKE m \in DOMAIN job.states
    <3> HAVE job.states[m] = "busy" /\ job.ids[m] = id
    <3>1. id \in 1..Len(tasks) /\ tasks[id].status = "running"
      BY <2>3
    <3>2. id <= Len(tasks) /\ id = j.ids[i]
      BY <1>2, <3>1
    <3>3. st # "busy" /\ (tasks'[id].status = "running" \/ j.states[i] = "busy")
      BY <1>1, <3>1, <3>2 DEF Asked
    <3>4. CASE j.states[i] = "busy"
      BY <2>2, <3>2, <3>3, <3>4
    <3> QED
      BY <3>3, <3>4
  <2>5. \A m \in 1..Len(tasks) : m # id => tasks'[m].status = tasks[m].status
    BY <1>1 DEF Asked
  <2>6. /\ next.answer = j.answer /\ Len(next.states) = Len(next.keys)
        /\ Len(next.keys) <= Len(next.ids)
        /\ \A m \in DOMAIN next.states :
              /\ m \in DOMAIN j.states
              /\ next.states[m] = IF m = i THEN st ELSE j.states[m]
              /\ next.ids[m] = IF m = i THEN id ELSE j.ids[m]
    <3> DEFINE k == Kept(j, i, st)  u == Len(j.states)  v == Len(j.ids)
    <3>1. /\ next.answer = j.answer /\ Len(next.ids) = v /\ k \in {i, u}
          /\ \A m \in 1..v : next.ids[m] = IF m = i THEN id ELSE j.ids[m]
          /\ Len(next.keys) = k /\ Len(next.states) = k
          /\ \A m \in 1..k : next.states[m] = IF m = i THEN st ELSE j.states[m]
          /\ next.states \in Seq(JobStatus)
      BY <1>1 DEF Became, Plain
    <3>2. j.states \in Seq(JobStatus) /\ j.ids \in Seq(0..Len(tasks)) /\ i \in DOMAIN j.states
      BY <2>1
    <3>3. DOMAIN j.states = 1..u /\ u \in Nat /\ v \in Nat /\ i \in 1..u
      BY ONLY <3>2
    <3>4. DOMAIN next.states = 1..Len(next.states)
      BY ONLY <3>1
    <3>5. u <= v
      BY <2>1
    <3> HIDE DEF k, u, v
    <3>6. k \in 1..u /\ \A m \in 1..k : m \in 1..u /\ m \in 1..v
      BY ONLY <3>1, <3>3, <3>5
    <3> QED
      BY ONLY <3>1, <3>3, <3>4, <3>5, <3>6
  <2>7. st = "busy" => tasks'[id].status = "running" /\ id # 0
    BY <1>1, <1>2 DEF Asked
  <2>8. jobs' = (jobs \ {j}) \cup {next}
    BY <1>1 DEF Replace
  <2>9. \A job \in jobs' : /\ job.answer # "throws" /\ job.keys \in Seq(AllKeys)
                           /\ job.ids \in Seq(0..Len(tasks')) /\ job.states \in Seq(JobStatus)
                           /\ Len(job.states) = Len(job.keys) /\ Len(job.keys) <= Len(job.ids)
    <3>1. ASSUME NEW job \in jobs
          PROVE  /\ job.answer # "throws" /\ job.keys \in Seq(AllKeys)
                 /\ job.ids \in Seq(0..Len(tasks')) /\ job.states \in Seq(JobStatus)
                 /\ Len(job.states) = Len(job.keys) /\ Len(job.keys) <= Len(job.ids)
      BY <1>2, <2>1, Widen DEF JobTyped
    <3>2. next.keys \in Seq(AllKeys) /\ next.ids \in Seq(0..Len(tasks'))
          /\ next.states \in Seq(JobStatus)
      BY <1>1 DEF Plain
    <3> QED
      BY <2>1, <2>6, <2>8, <3>1, <3>2
  <2>10. \A m \in DOMAIN next.states : next.states[m] = "busy" =>
            \/ m = i /\ st = "busy" /\ next.ids[m] = id
            \/ m # i /\ m \in DOMAIN j.states /\ j.states[m] = "busy" /\ next.ids[m] = j.ids[m]
    BY ONLY <2>6
  <2>11. \A job \in jobs : \A m \in DOMAIN job.states :
            job.states[m] = "busy" /\ ~(job = j /\ m = i) =>
               job.ids[m] # 0 /\ tasks'[job.ids[m]].status = "running"
    BY <1>2, <2>3, <2>4, <2>5
  <2>12. \A job \in jobs' : \A m \in DOMAIN job.states :
            job.states[m] = "busy" => job.ids[m] # 0 /\ tasks'[job.ids[m]].status = "running"
    BY <2>7, <2>8, <2>10, <2>11
  <2>13. \A job, other \in jobs' : \A m \in DOMAIN job.states, e \in DOMAIN other.states :
           job.states[m] = "busy" /\ other.states[e] = "busy" /\ job.ids[m] = other.ids[e] =>
              job = other /\ m = e
    <3>1. ASSUME NEW job \in jobs \ {j}, NEW m \in DOMAIN job.states, job.states[m] = "busy",
                 NEW e \in DOMAIN next.states, next.states[e] = "busy",
                 job.ids[m] = next.ids[e]
          PROVE  FALSE
      BY <2>2, <2>4, <2>10, <3>1
    <3>2. ASSUME NEW m \in DOMAIN next.states, next.states[m] = "busy",
                 NEW e \in DOMAIN next.states, next.states[e] = "busy",
                 next.ids[m] = next.ids[e]
          PROVE  m = e
      BY <2>2, <2>4, <2>10, <3>2
    <3> QED
      BY <2>2, <2>8, <3>1, <3>2
  <2> QED
    BY <1>3, <2>9, <2>12, <2>13 DEF JobsInv, JobsTyped, JobTyped, BusyRun
<1> QED
    BY <1>4, <1>5, <1>6, <1>7 DEF TypeInv

\* How the jobs of a node may be.
LEMMA JobsFacts ==
    ASSUME TypeInv, NEW n \in DOMAIN def, NEW j \in Jobs(n)
    PROVE  \E b \in {1, 2}, answer \in Answers :
              /\ j = Job(n, b, answer)
              /\ def[n].type = "condition" /\ answer # "throws" => b = answers[n]
              /\ def[n].type # "condition" => b = 1
              /\ answer \notin {"none", "throws"} =>
                    def[n].type \in {"checkpoint", "human_input", "delegation"}
              /\ answer = "none" =>
                    def[n].type \notin {"checkpoint", "human_input", "delegation"}
<1>1. answers[n] \in {1, 2}
    BY DEF TypeInv, PlainInv
<1>2. CASE def[n].type = "condition"
  <2>1. j \in {Job(n, 1, "throws")} \/ j \in {Job(n, answers[n], "none")}
    BY <1>2, Zenon DEF Jobs
  <2> QED
    BY <1>1, <1>2, <2>1 DEF Answers
<1>3. CASE def[n].type = "checkpoint"
    BY <1>3 DEF Jobs, Answers
<1>4. CASE def[n].type = "human_input"
  <2>1. \E a \in {"awaiting_input", "verified_complete", "throws"} : j = Job(n, 1, a)
    BY <1>4 DEF Jobs
  <2> QED
    BY <1>4, <2>1 DEF Answers
<1>5. CASE def[n].type = "delegation"
  <2>1. \E a \in {"awaiting_input", "verified_complete", "failed"} : j = Job(n, 1, a)
    BY <1>5 DEF Jobs
  <2> QED
    BY <1>5, <2>1 DEF Answers
<1>6. CASE def[n].type \notin {"condition", "checkpoint", "human_input", "delegation"}
    BY <1>6 DEF Jobs, Answers
<1> QED
    BY <1>2, <1>3, <1>4, <1>5, <1>6

\* A job that has just begun is not busy.
LEMMA JobsBegin ==
    ASSUME TypeInv, FormInv, NEW n \in DOMAIN def, NEW j \in Jobs(n)
    PROVE  JobTyped(j) /\ \A i \in DOMAIN j.states : j.states[i] # "busy"
<1>1. PICK b \in {1, 2}, answer \in Answers : j = Job(n, b, answer)
    BY JobsFacts
<1>2. JobTyped(j)
    BY <1>1, JobBegins
<1>3. \A i \in DOMAIN j.states : j.states[i] \in {"verified_complete", "todo"}
  <2> DEFINE offset == run.nodes[n].iterations *
                          (IF def[n].type = "bounded_loop" THEN Size(n) ELSE 0)
  <2>1. \A i \in DOMAIN j.states : j.states[i] = IF i <= offset THEN "verified_complete"
                                                                ELSE "todo"
    BY <1>1, JobBegins
  <2> HIDE DEF offset
  <2> QED
    BY <2>1
<1> QED
    BY <1>2, <1>3

LEMMA JobsWiden ==
    ASSUME NEW old, JobsTyped(old), NEW fresh,
           \A j \in fresh : /\ j.answer # "throws" /\ JobTyped(j)
                            /\ \A i \in DOMAIN j.states : j.states[i] # "busy"
    PROVE  JobsTyped(old \cup fresh)
    BY DEF JobsTyped, BusyRun

LEMMA JobsNarrow ==
    ASSUME NEW old, JobsTyped(old), NEW fewer, fewer \subseteq old
    PROVE  JobsTyped(fewer)
    BY DEF JobsTyped

\* Jobs that nobody waits for any more.
LEMMA JobsOrphaned ==
    ASSUME NEW old, JobsTyped(old), \A j \in old : JobForm(j)
    PROVE  JobsTyped({[j EXCEPT !.alive = FALSE] : j \in old})
<1> DEFINE dead(j) == [j EXCEPT !.alive = FALSE]
<1>1. \A j \in old : /\ dead(j).answer = j.answer /\ dead(j).keys = j.keys
                     /\ dead(j).ids = j.ids /\ dead(j).states = j.states
    BY DEF JobForm
<1> HIDE DEF dead
<1>2. \A j \in old : dead(j).answer # "throws" /\ JobTyped(dead(j)) /\ BusyRun(dead(j))
    BY <1>1 DEF JobsTyped, JobTyped, BusyRun
<1>3. JobsTyped({dead(j) : j \in old})
    BY <1>1, <1>2 DEF JobsTyped
<1> QED
    BY <1>3 DEF dead

\* The types of the jobs depend on the definition and the tasks only.
LEMMA JobsStayTyped ==
    ASSUME UNCHANGED <<def, tasks>>, NEW set, JobsTyped(set), jobs' = set
    PROVE  JobsInv'
<1>1. AllKeys' = AllKeys
    BY SameKeys
<1> QED
    BY <1>1 DEF JobsInv, JobsTyped, JobTyped, BusyRun

LEMMA RejectTypes ==
    ASSUME TypeInv, FormInv, UNCHANGED <<def, tasks>>, NEW nodes, NEW still, NEW fresh,
           still \subseteq jobs \cup fresh,
           \A j \in fresh : /\ JobForm(j) /\ JobTyped(j)
                            /\ \A i \in DOMAIN j.states : j.states[i] # "busy",
           Reject(nodes, still)
    PROVE  JobsInv'
<1> DEFINE open == {k \in still : ~Over(k)}
           quiet == {k \in fresh : ~Over(k)}
           left == {[j EXCEPT !.alive = FALSE] : j \in open}
<1>1. \A j \in open : j.answer = "none" /\ j.answer # "throws"
    BY DEF Over
<1>2. JobsTyped(jobs \cup quiet)
    BY JobsWiden DEF TypeInv, JobsInv, Over
<1>3. open \subseteq jobs \cup quiet
    OBVIOUS
<1>4. JobsTyped(open) /\ \A j \in open : JobForm(j)
    BY <1>2, <1>3, JobsNarrow DEF FormInv
<1>5. JobsTyped(left)
    BY <1>4, JobsOrphaned
<1>6. jobs' = left
    BY DEF Reject
<1> HIDE DEF left
<1> QED
    BY <1>5, <1>6, JobsStayTyped

\* The plain part of the state, when most of it stays.
LEMMA PlainStays ==
    ASSUME PlainInv, UNCHANGED <<def, faults, launched>>,
           answers' \in [DOMAIN def -> {1, 2}], committed' \subseteq AllKeys,
           mode' \in {"serving", "down", "repairing"}, run'.error \in BOOLEAN,
           count' = count \/ (count < MaxFaults /\ count' = count + 1)
    PROVE  PlainInv'
<1>1. AllKeys' = AllKeys
    BY SameKeys
<1>2. count' \in 0..MaxFaults
    BY NodesAssumption DEF PlainInv
<1> QED
    BY <1>1, <1>2 DEF PlainInv

\* The tasks stay, and with them what is typed.
LEMMA TasksStayTyped ==
    ASSUME UNCHANGED <<def, tasks>>, TypeInv
    PROVE  tasks' \in Seq(TaskRecord') /\ Len(tasks') = Len(tasks)
    BY TouchIn DEF TypeInv

LEMMA AdvanceTypes ==
    ASSUME TypeInv, SagaInv, Advance
    PROVE  TypeInv'
<1> DEFINE nodes == WaveOf(run)
<1>1. PICK begin \in [nodes -> UNION {Jobs(n) : n \in nodes}] :
         /\ \A n \in nodes : begin[n] \in Jobs(n)
         /\ LET started == {begin[n] : n \in nodes}
            IN \/ Reject(nodes, jobs \cup started) /\ MayFault("throw") /\ count' = count + 1
               \/ /\ \A j \in started : j.answer # "throws"
                  /\ jobs' = jobs \cup started
                  /\ wave' = [NoWave EXCEPT !.phase = "work", !.base = run.nodes]
                  /\ UNCHANGED <<history, count>>
    BY Zenon DEF Advance
<1>2. UNCHANGED <<def, faults, answers, mode, run, tasks, committed>> /\ UNCHANGED launched
    BY <1>1 DEF Advance, Reject, history
<1>3. \A n \in nodes : n \in DOMAIN def
    BY WaveFacts
<1> DEFINE started == {begin[n] : n \in nodes}
<1>4. \A j \in started : /\ JobForm(j) /\ JobTyped(j)
                         /\ \A i \in DOMAIN j.states : j.states[i] # "busy"
    BY <1>1, <1>3, JobFacts, JobsBegin DEF SagaInv
<1>5. PlainInv'
    BY <1>1, <1>2, PlainStays DEF TypeInv, PlainInv, MayFault
<1>6. JobsInv'
  <2>1. CASE Reject(nodes, jobs \cup started)
    <3> HIDE DEF nodes, started
    <3> QED
      BY <1>2, <1>4, <2>1, RejectTypes DEF SagaInv
  <2>2. CASE /\ \A j \in started : j.answer # "throws"
             /\ jobs' = jobs \cup started
    <3> HIDE DEF started
    <3>1. JobsTyped(jobs \cup started)
      BY <1>4, <2>2, JobsWiden DEF TypeInv, JobsInv
    <3> QED
      BY <1>2, <2>2, <3>1, JobsStayTyped
  <2> QED
    BY <1>1, <2>1, <2>2
<1>7. NodesInv'
  <2>1. \/ wave' = NoWave
        \/ wave' = [NoWave EXCEPT !.phase = "work", !.base = run.nodes]
    BY <1>1 DEF Reject
  <2> HIDE DEF nodes, started
  <2>2. wave'.results = <<>> /\ (wave'.phase = "none" \/ wave'.base = run.nodes)
    <3>1. CASE wave' = NoWave
      BY ONLY <3>1 DEF NoWave
    <3>2. CASE wave' = [NoWave EXCEPT !.phase = "work", !.base = run.nodes]
      BY ONLY <3>2 DEF NoWave
    <3> QED
      BY <2>1, <3>1, <3>2
  <2>3. DOMAIN wave'.results = {}
    BY ONLY <2>2
  <2> QED
    BY <1>2, <2>2, <2>3 DEF TypeInv, NodesInv, NodeTyped
<1> QED
    BY <1>2, <1>5, <1>6, <1>7, TasksStayTyped DEF TypeInv

LEMMA ThrowTypes ==
    ASSUME TypeInv, SagaInv, NEW j \in jobs, NEW i, Throw(j, i)
    PROVE  TypeInv'
<1> DEFINE gone == {k.node : k \in {k \in jobs : k.alive}} \cup DOMAIN wave.results
           still == jobs \ {j}  fresh == {}
<1>1. /\ UNCHANGED <<def, faults, answers, mode, run, tasks, committed>> /\ Reject(gone, still)
      /\ MayFault("throw") /\ count' = count + 1
    BY DEF Throw
<1>2. UNCHANGED launched /\ wave' = NoWave
    BY <1>1 DEF Reject
<1>3. PlainInv'
    BY <1>1, <1>2, PlainStays DEF TypeInv, PlainInv, MayFault
<1>4. JobsInv'
  <2>1. still \subseteq jobs \cup fresh /\ \A k \in fresh :
           /\ JobForm(k) /\ JobTyped(k)
           /\ \A m \in DOMAIN k.states : k.states[m] # "busy"
    OBVIOUS
  <2> HIDE DEF gone, still, fresh
  <2> QED
    BY <1>1, <2>1, RejectTypes DEF SagaInv
<1>5. NodesInv'
  <2>1. DOMAIN wave'.results = {} /\ wave'.phase = "none"
    BY <1>2 DEF NoWave
  <2> QED
    BY <1>1, <2>1 DEF TypeInv, NodesInv, NodeTyped
<1> QED
    BY <1>1, <1>3, <1>4, <1>5, TasksStayTyped DEF TypeInv

\* Results are what jobs end with.
LEMMA GatherTypes ==
    ASSUME TypeInv, SagaInv, Gather
    PROVE  TypeInv'
<1> DEFINE over    == {j \in jobs : j.alive}
           results == [n \in {j.node : j \in over} |-> Outcome(CHOOSE j \in over : j.node = n)]
<1>1. /\ jobs' = jobs \ over
      /\ wave' = [wave EXCEPT !.phase = "undo", !.results = results, !.undo = ToUndo(results)]
      /\ wave.phase = "work"
      /\ UNCHANGED <<def, faults, answers, mode, run, tasks, committed, count>>
      /\ UNCHANGED launched
    BY DEF Gather, history
<1>2. wave'.results = results /\ wave'.base = wave.base
    BY <1>1 DEF SagaInv, FormInv, WaveForm
<1>3. \A n \in DOMAIN results : NodeTyped(results[n])
  <2> TAKE n \in DOMAIN results
  <2>1. \E j \in over : j.node = n
    OBVIOUS
  <2> DEFINE j == CHOOSE j \in over : j.node = n
  <2>2. j \in over /\ results[n] = Outcome(j)
    BY <2>1
  <2> HIDE DEF j, results
  <2> QED
    BY <2>2, OutcomeTyped DEF SagaInv
<1> HIDE DEF results, over
<1>4. NodesInv'
    BY <1>1, <1>2, <1>3 DEF TypeInv, NodesInv, NodeTyped
<1>5. JobsInv'
  <2> DEFINE left == jobs \ over
  <2>1. JobsTyped(left) /\ jobs' = left
    BY <1>1, JobsNarrow DEF TypeInv, JobsInv
  <2> HIDE DEF left
  <2> QED
    BY <1>1, <2>1, JobsStayTyped
<1>6. PlainInv'
    BY <1>1, PlainStays DEF TypeInv, PlainInv
<1> QED
    BY <1>1, <1>4, <1>5, <1>6, TasksStayTyped DEF TypeInv

\* What UndoNext does, in these terms.
LEMMA UndoMeans ==
    ASSUME SagaInv, UndoNext
    PROVE  LET n == Head(wave.undo)
               Result(state) == /\ wave'.results = Noted(n, state) /\ wave'.base = wave.base
                                /\ wave'.phase = "undo" /\ wave'.undo = Tail(wave.undo)
                                /\ wave'.moved = wave.moved
           IN /\ n \in Compensations /\ n \in DOMAIN def /\ wave.phase = "undo"
              /\ UNCHANGED <<def, faults, answers, mode, run, tasks, committed, launched, lost,
                             repaired, count>>
              /\ \/ ~Undoes(n) /\ Result(NodeState("skipped", <<>>, 0)) /\ UNCHANGED jobs
                 \/ /\ Undoes(n) /\ (\A j \in jobs : ~j.alive) /\ UNCHANGED wave
                    /\ jobs' = jobs \cup {[Job(n, 1, "none") EXCEPT
                                              !.ids = <<SomeId(wave.base[n].ids, 1)>>]}
                 \/ \E j \in jobs : /\ j.alive /\ j.node = n /\ Over(j)
                                    /\ Result(Outcome(j)) /\ jobs' = jobs \ {j}
<1> DEFINE n == Head(wave.undo)
           Result(state) == /\ wave'.results = Noted(n, state) /\ wave'.base = wave.base
                            /\ wave'.phase = "undo" /\ wave'.undo = Tail(wave.undo)
                            /\ wave'.moved = wave.moved
           Set(state) == wave' = [wave EXCEPT !.undo = Tail(@), !.results = Noted(n, state)]
<1>1. /\ UNCHANGED <<def, faults, answers, mode, run, tasks, committed, launched, lost, repaired,
                     count>>
      /\ wave.phase = "undo" /\ wave.undo # <<>>
      /\ \/ ~Undoes(n) /\ Set(NodeState("skipped", <<>>, 0)) /\ UNCHANGED jobs
         \/ /\ Undoes(n) /\ \A j \in jobs : ~j.alive
            /\ jobs' = jobs \cup {[Job(n, 1, "none") EXCEPT
                                      !.ids = <<SomeId(wave.base[n].ids, 1)>>]}
            /\ UNCHANGED wave
         \/ \E j \in jobs : /\ j.alive /\ j.node = n /\ Over(j)
                            /\ Set(Outcome(j)) /\ jobs' = jobs \ {j}
    BY Zenon DEF UndoNext, history
<1>2. \A state : Set(state) => Result(state)
    BY <1>1 DEF SagaInv, FormInv, WaveForm
<1>3. n \in Compensations /\ n \in DOMAIN def
  <2>1. wave.undo \in Seq(Compensations)
    BY DEF SagaInv, FormInv, WaveForm
  <2>2. wave.undo # <<>>
    BY <1>1
  <2> DEFINE S == Compensations
  <2>3. wave.undo \in Seq(S)
    BY <2>1
  <2> HIDE DEF S
  <2>4. n \in S
    BY ONLY <2>2, <2>3
  <2> QED
    BY <2>4 DEF Compensations, S
<1> HIDE DEF Result, Set, n
<1>4. \/ ~Undoes(n) /\ Result(NodeState("skipped", <<>>, 0)) /\ UNCHANGED jobs
      \/ /\ Undoes(n) /\ (\A j \in jobs : ~j.alive) /\ UNCHANGED wave
         /\ jobs' = jobs \cup {[Job(n, 1, "none") EXCEPT !.ids = <<SomeId(wave.base[n].ids, 1)>>]}
      \/ \E j \in jobs : /\ j.alive /\ j.node = n /\ Over(j)
                         /\ Result(Outcome(j)) /\ jobs' = jobs \ {j}
    BY <1>1, <1>2
<1> QED
    BY <1>1, <1>3, <1>4, Zenon DEF n, Result

\* The job of a compensation.
LEMMA UndoingJob ==
    ASSUME TypeInv, FormInv, NEW n \in DOMAIN def, n \in Compensations, NEW id, id \in 0..Len(tasks)
    PROVE  \E job : /\ job = [Job(n, 1, "none") EXCEPT !.ids = <<id>>]
                    /\ JobForm(job) /\ JobTyped(job) /\ job.node = n /\ job.answer = "none"
                    /\ job.alive /\ job.keys = Slots(n, 1) /\ job.ids = <<id>>
                    /\ Len(job.keys) = 1 /\ DOMAIN job.states = {1} /\ job.states[1] = "todo"
<1> DEFINE made == Job(n, 1, "none")  job == [made EXCEPT !.ids = <<id>>]
<1>1. def[n].type = "compensation" /\ "none" \in Answers /\ 1 \in {1, 2}
    BY DefinitionFacts DEF TypeInv, PlainInv, Answers
<1>2. /\ JobForm(made) /\ JobTyped(made) /\ made.node = n /\ made.answer = "none"
      /\ made.alive /\ made.keys = Slots(n, 1)
      /\ \A i \in DOMAIN made.states :
            made.states[i] = IF i <= run.nodes[n].iterations *
                                     (IF def[n].type = "bounded_loop" THEN Size(n) ELSE 0)
                             THEN "verified_complete" ELSE "todo"
    BY <1>1, JobBegins
<1>3. Len(Slots(n, 1)) = 1
    BY <1>1, SlotsFacts DEF TypeInv, PlainInv
<1>4. run.nodes[n].iterations \in Nat
    BY DEF TypeInv, NodesInv, NodeTyped, Typed
<1> HIDE DEF made
<1>5. /\ JobForm(job) /\ job.node = n /\ job.answer = "none" /\ job.alive
      /\ job.keys = made.keys /\ job.ids = <<id>> /\ job.states = made.states
    BY <1>2 DEF JobForm
<1>6. /\ made.keys \in Seq(AllKeys) /\ made.states \in Seq(JobStatus)
      /\ Len(made.states) = Len(made.keys)
    BY <1>2 DEF JobTyped
<1>7. DOMAIN made.states = {1} /\ Len(made.states) = 1
  <2>1. Len(made.states) = 1
    BY <1>2, <1>3, <1>6
  <2>2. DOMAIN made.states = 1..1
    BY ONLY <1>6, <2>1
  <2> QED
    BY <2>1, <2>2
<1>8. made.states[1] = "todo"
  <2>1. made.states[1] = IF 1 <= run.nodes[n].iterations * 0 THEN "verified_complete" ELSE "todo"
    BY <1>1, <1>2, <1>7
  <2>2. run.nodes[n].iterations * 0 = 0
    BY <1>4
  <2> QED
    BY <2>1, <2>2
<1>9. <<id>> \in Seq(0..Len(tasks)) /\ Len(<<id>>) = 1
    OBVIOUS
<1>a. job = [made EXCEPT !.ids = <<id>>]
    OBVIOUS
<1> HIDE DEF job
<1>10. /\ job.keys \in Seq(AllKeys) /\ job.ids \in Seq(0..Len(tasks))
       /\ job.states \in Seq(JobStatus) /\ Len(job.keys) = 1 /\ Len(job.ids) = 1
       /\ Len(job.states) = 1 /\ DOMAIN job.states = {1} /\ job.states[1] = "todo"
       /\ job.keys = Slots(n, 1)
  <2>1. made.keys = Slots(n, 1)
    BY <1>2
  <2> QED
    BY ONLY <1>3, <1>5, <1>6, <1>7, <1>8, <1>9, <2>1
<1>11. JobTyped(job)
    BY <1>10 DEF JobTyped
<1> QED
    BY <1>5, <1>a, <1>10, <1>11 DEF made

LEMMA UndoTypes ==
    ASSUME TypeInv, SagaInv, UndoNext
    PROVE  TypeInv'
<1> DEFINE n == Head(wave.undo)
           Result(state) == /\ wave'.results = Noted(n, state) /\ wave'.base = wave.base
                            /\ wave'.phase = "undo" /\ wave'.undo = Tail(wave.undo)
                            /\ wave'.moved = wave.moved
<1>1. /\ n \in Compensations /\ n \in DOMAIN def /\ wave.phase = "undo"
      /\ UNCHANGED <<def, faults, answers, mode, run, tasks, committed, launched, count>>
      /\ \/ ~Undoes(n) /\ Result(NodeState("skipped", <<>>, 0)) /\ UNCHANGED jobs
         \/ /\ Undoes(n) /\ (\A j \in jobs : ~j.alive) /\ UNCHANGED wave
            /\ jobs' = jobs \cup {[Job(n, 1, "none") EXCEPT
                                      !.ids = <<SomeId(wave.base[n].ids, 1)>>]}
         \/ \E j \in jobs : /\ j.alive /\ j.node = n /\ Over(j)
                            /\ Result(Outcome(j)) /\ jobs' = jobs \ {j}
    BY UndoMeans
<1> HIDE DEF n
<1>2. PlainInv'
    BY <1>1, PlainStays DEF TypeInv, PlainInv
<1>3. ASSUME NEW state, NodeTyped(state), Result(state) PROVE NodesInv'
  <2>1. \A m \in DOMAIN wave'.results : NodeTyped(wave'.results[m])
    BY <1>3 DEF TypeInv, NodesInv, Noted
  <2> QED
    BY <1>1, <1>3, <2>1 DEF TypeInv, NodesInv, NodeTyped
<1>4. ASSUME NEW set, set \subseteq jobs, jobs' = set PROVE JobsInv'
    BY <1>1, <1>4, JobsNarrow, JobsStayTyped DEF TypeInv, JobsInv
<1>5. CASE ~Undoes(n) /\ Result(NodeState("skipped", <<>>, 0)) /\ UNCHANGED jobs
  <2> DEFINE state == NodeState("skipped", <<>>, 0)
  <2>1. NodeTyped(state)
    <3>1. <<>> \in Seq(1..Len(tasks)) /\ 0 \in Nat
      OBVIOUS
    <3> QED
      BY <3>1 DEF NodeTyped, Typed, NodeState, NodeStatus, DoneStatus
  <2>2. Result(state)
    BY <1>5
  <2> HIDE DEF state, Result
  <2> QED
    BY <1>1, <1>2, <1>3, <1>4, <1>5, <2>1, <2>2, TasksStayTyped DEF TypeInv
<1>6. ASSUME NEW j \in jobs, Result(Outcome(j)), jobs' = jobs \ {j} PROVE TypeInv'
  <2> DEFINE left == jobs \ {j}
  <2>1. left \subseteq jobs /\ jobs' = left
    BY <1>6
  <2>2. JobsInv'
    <3> HIDE DEF left
    <3> QED
      BY <1>4, <2>1
  <2>3. NodesInv'
    <3>1. NodeTyped(Outcome(j))
      BY OutcomeTyped DEF SagaInv
    <3> HIDE DEF Result
    <3> QED
      BY <1>3, <1>6, <3>1
  <2> QED
    BY <1>1, <1>2, <2>2, <2>3, TasksStayTyped DEF TypeInv
<1>7. CASE /\ Undoes(n) /\ (\A j \in jobs : ~j.alive) /\ UNCHANGED wave
           /\ jobs' = jobs \cup {[Job(n, 1, "none") EXCEPT
                                      !.ids = <<SomeId(wave.base[n].ids, 1)>>]}
  <2> DEFINE id == SomeId(wave.base[n].ids, 1)
  <2>1. id \in 0..Len(tasks)
    <3>1. wave.base[n].ids \in Seq(1..Len(tasks)) /\ Len(tasks) \in Nat
      BY <1>1 DEF TypeInv, NodesInv, NodeTyped, Typed
    <3> QED
      BY <3>1, SomeIdTyped
  <2>2. jobs' = jobs \cup {[Job(n, 1, "none") EXCEPT !.ids = <<id>>]}
    BY <1>7
  <2> HIDE DEF id
  <2>3. PICK job : /\ job = [Job(n, 1, "none") EXCEPT !.ids = <<id>>]
                   /\ JobForm(job) /\ JobTyped(job) /\ job.answer = "none"
                   /\ DOMAIN job.states = {1} /\ job.states[1] = "todo"
    BY <1>1, <2>1, UndoingJob DEF SagaInv
  <2> DEFINE fresh == {job}  set == jobs \cup fresh
  <2>4. /\ jobs' = set
        /\ \A j \in fresh : /\ j.answer # "throws" /\ JobTyped(j)
                            /\ \A i \in DOMAIN j.states : j.states[i] # "busy"
    BY <2>2, <2>3
  <2>5. JobsTyped(set)
    <3> HIDE DEF fresh
    <3> QED
      BY <2>4, JobsWiden DEF TypeInv, JobsInv
  <2> HIDE DEF set
  <2>6. JobsInv'
    BY <1>1, <2>4, <2>5, JobsStayTyped
  <2>7. NodesInv'
    BY <1>1, <1>7, TasksStayTyped, NodesStayTyped DEF TypeInv
  <2> QED
    BY <1>1, <1>2, <2>6, <2>7, TasksStayTyped DEF TypeInv
<1> QED
    BY <1>1, <1>5, <1>6, <1>7

\* A node that is skipped keeps what it has.
LEMMA SkipKeeps ==
    ASSUME NEW given, DOMAIN given = DOMAIN def, \A n \in DOMAIN def : NodeForm(given[n]),
           NEW n \in DOMAIN def
    PROVE  /\ SkipUnused(given)[n].ids = given[n].ids
           /\ SkipUnused(given)[n].iterations = given[n].iterations
           /\ \/ SkipUnused(given)[n] = given[n]
              \/ /\ SkipUnused(given)[n].status = "skipped"
                 /\ n \in Compensations /\ given[n].status = "pending"
           /\ NodeTyped(given[n]) => NodeTyped(SkipUnused(given)[n])
<1> DEFINE state == [given[n] EXCEPT !.status = "skipped"]
<1>1. \/ SkipUnused(given)[n] = given[n]
      \/ /\ SkipUnused(given)[n] = state
         /\ n \in Compensations /\ given[n].status = "pending"
    BY DEF SkipUnused
<1>2. /\ state.ids = given[n].ids /\ state.iterations = given[n].iterations
      /\ state.status = "skipped"
    BY DEF NodeForm
<1> HIDE DEF state
<1> QED
    BY <1>1, <1>2 DEF NodeTyped, Typed, NodeStatus, DoneStatus

\* What Commit does, in these terms.
Merged == [n \in DOMAIN def |-> IF n \in DOMAIN wave.results THEN wave.results[n]
                                                             ELSE run.nodes[n]]

LEMMA CommitMeans ==
    ASSUME SagaInv, Commit
    PROVE  /\ wave.phase = "undo" /\ wave.undo = <<>> /\ wave' = NoWave
           /\ UNCHANGED <<def, faults, answers, mode, tasks, committed, jobs, launched, repaired,
                          count>>
           /\ \/ /\ wave.moved \/ run.error
                 /\ lost' = lost \cup DOMAIN wave.results /\ UNCHANGED run
              \/ /\ ~wave.moved /\ UNCHANGED lost
                 /\ run'.nodes = SkipUnused(Merged) /\ run'.error = run.error
                 /\ run'.status = DeriveStatus(SkipUnused(Merged))
                 /\ run.error => run'.status = run.status
           /\ DOMAIN Merged = DOMAIN def
           /\ \A n \in DOMAIN def : /\ NodeForm(Merged[n])
                                    /\ n \in DOMAIN wave.results => Merged[n] = wave.results[n]
                                    /\ n \notin DOMAIN wave.results => Merged[n] = run.nodes[n]
<1> DEFINE nodes == SkipUnused(Merged)  derived == DeriveStatus(nodes)
<1>1. /\ wave.phase = "undo" /\ wave.undo = <<>> /\ wave' = NoWave
      /\ UNCHANGED <<def, faults, answers, mode, tasks, committed, jobs, launched, repaired, count>>
      /\ IF wave.moved \/ (run.error /\ derived # run.status)
         THEN lost' = lost \cup DOMAIN wave.results /\ UNCHANGED run
         ELSE run' = [run EXCEPT !.nodes = nodes, !.status = derived] /\ UNCHANGED lost
    BY Zenon DEF Commit, Merged
<1>2. DOMAIN run = {"status", "error", "nodes"} /\ wave.moved \in BOOLEAN
    BY DEF SagaInv, FormInv, RunForm, WaveForm
<1> HIDE DEF nodes, derived
<1>3. run' = [run EXCEPT !.nodes = nodes, !.status = derived] =>
         run'.nodes = nodes /\ run'.error = run.error /\ run'.status = derived
    BY <1>2
<1>4. \A n \in DOMAIN def : /\ n \in DOMAIN wave.results => Merged[n] = wave.results[n]
                            /\ n \notin DOMAIN wave.results => Merged[n] = run.nodes[n]
    BY DEF Merged
<1>5. \A n \in DOMAIN def : NodeForm(Merged[n])
    BY <1>4 DEF SagaInv, FormInv, RunForm, WaveForm
<1>6. DOMAIN Merged = DOMAIN def
    BY DEF Merged
<1> QED
    BY <1>1, <1>2, <1>3, <1>4, <1>5, <1>6 DEF nodes, derived

LEMMA CommitTypes ==
    ASSUME TypeInv, SagaInv, Commit
    PROVE  TypeInv'
<1>1. /\ wave.phase = "undo" /\ wave.undo = <<>> /\ wave' = NoWave
      /\ UNCHANGED <<def, faults, answers, mode, tasks, committed, jobs, launched, repaired, count>>
      /\ \/ UNCHANGED run
         \/ run'.nodes = SkipUnused(Merged) /\ run'.error = run.error
      /\ DOMAIN Merged = DOMAIN def
      /\ \A n \in DOMAIN def : /\ NodeForm(Merged[n])
                               /\ n \in DOMAIN wave.results => Merged[n] = wave.results[n]
                               /\ n \notin DOMAIN wave.results => Merged[n] = run.nodes[n]
    BY CommitMeans
<1>2. \A n \in DOMAIN def : NodeTyped(Merged[n]) /\ NodeTyped(SkipUnused(Merged)[n])
    BY <1>1, SkipKeeps DEF TypeInv, NodesInv
<1>3. NodesInv'
  <2>1. DOMAIN wave'.results = {} /\ wave'.phase = "none"
    BY <1>1 DEF NoWave
  <2>2. \A n \in DOMAIN def : NodeTyped(run'.nodes[n])
    BY <1>1, <1>2 DEF TypeInv, NodesInv
  <2> QED
    BY <1>1, <2>1, <2>2 DEF NodesInv, NodeTyped
<1>4. JobsInv'
    BY <1>1, JobsStayTyped DEF TypeInv, JobsInv
<1>5. PlainInv'
    BY <1>1, PlainStays DEF TypeInv, PlainInv
<1> QED
    BY <1>1, <1>3, <1>4, <1>5, TasksStayTyped DEF TypeInv

\* The wave notices that the run has moved.
LEMMA MovedMeans ==
    ASSUME SagaInv, Moved
    PROVE  /\ wave'.phase = wave.phase /\ wave'.base = wave.base /\ wave'.results = wave.results
           /\ wave'.undo = wave.undo /\ DOMAIN wave' = DOMAIN wave
           /\ (wave.phase = "none" => wave' = wave) /\ (wave' = NoWave => wave = NoWave)
<1>1. NoWave.phase = "none" /\ NoWave.moved = FALSE
    BY DEF NoWave
<1>2. Idle => wave' = wave
    BY DEF Moved
<1>3. ~Idle => wave' = [wave EXCEPT !.moved = TRUE]
    BY DEF Moved
<1>4. DOMAIN wave = {"phase", "base", "results", "undo", "moved"}
      /\ (wave.phase = "none" => wave = NoWave)
    BY DEF SagaInv, FormInv, WaveForm, WaveInv
<1>5. CASE Idle
    BY <1>2, <1>5 DEF Idle
<1>6. CASE ~Idle
  <2>1. wave' = [wave EXCEPT !.moved = TRUE] /\ wave.phase # "none"
    BY <1>3, <1>4, <1>6 DEF Idle
  <2>2. wave'.moved = TRUE
    BY <1>4, <2>1
  <2> QED
    BY <1>1, <1>4, <2>1, <2>2
<1> QED
    BY <1>5, <1>6

LEMMA MovedTypes ==
    ASSUME TypeInv, SagaInv, Halt \/ Resume \/ Cancel
    PROVE  TypeInv'
<1>1. /\ UNCHANGED <<def, faults, answers, mode, committed, jobs, launched>> /\ Moved
      /\ count' = count \/ (count < MaxFaults /\ count' = count + 1)
    BY DEF Halt, Resume, Cancel, history, MayFault
<1>2. wave'.phase = wave.phase /\ wave'.base = wave.base /\ wave'.results = wave.results
    BY <1>1, MovedMeans
<1>3. DOMAIN run = {"status", "error", "nodes"} /\ DOMAIN run.nodes = DOMAIN def
    BY DEF SagaInv, FormInv, RunForm
<1>4. CASE Halt \/ Resume
  <2>1. run'.nodes = run.nodes /\ run'.error = run.error /\ UNCHANGED tasks
    BY <1>3, <1>4 DEF Halt, Resume
  <2>2. NodesInv'
    BY <1>1, <1>2, <2>1 DEF TypeInv, NodesInv, NodeTyped
  <2>3. JobsInv'
    BY <1>1, <2>1, JobsStayTyped DEF TypeInv, JobsInv
  <2>4. PlainInv'
    BY <1>1, <2>1, PlainStays DEF TypeInv, PlainInv
  <2> QED
    BY <1>1, <2>1, <2>2, <2>3, <2>4, TasksStayTyped DEF TypeInv
<1>5. CASE Cancel
  <2> DEFINE open == {n \in DOMAIN def : run.nodes[n].status \in
                                            {"pending", "ready", "awaiting_approval"}}
             ids  == UNION {ToSet(run.nodes[n].ids) : n \in open}
             new(id) == IF id \in ids /\ tasks[id].status \in {"planned", "awaiting_approval"}
                        THEN [tasks[id] EXCEPT !.status = "cancelled"] ELSE tasks[id]
  <2>1. /\ run'.error = FALSE
        /\ run'.nodes = [n \in DOMAIN def |-> IF n \in open
                         THEN [run.nodes[n] EXCEPT !.status = "cancelled"] ELSE run.nodes[n]]
        /\ tasks' = [id \in DOMAIN tasks |-> new(id)]
    BY <1>5 DEF Cancel
  <2>2. \A n \in DOMAIN def : NodeTyped(run'.nodes[n])
    <3> TAKE n \in DOMAIN def
    <3>1. NodeTyped(run.nodes[n]) /\ NodeForm(run.nodes[n])
      BY DEF TypeInv, NodesInv, SagaInv, FormInv, RunForm
    <3>2. ASSUME NEW state, NodeTyped(state), NodeForm(state)
          PROVE  NodeTyped([state EXCEPT !.status = "cancelled"])
      BY <3>2 DEF NodeTyped, Typed, NodeForm, NodeStatus
    <3> QED
      BY <2>1, <3>1, <3>2
  <2>3. tasks \in Seq(TaskRecord)
    BY DEF TypeInv
  <2>4. \A id \in DOMAIN tasks : /\ new(id) \in TaskRecord
                                 /\ tasks[id].status = "running" => new(id).status = "running"
    <3> TAKE id \in DOMAIN tasks
    <3>1. tasks[id] \in TaskRecord
      BY <2>3
    <3>2. ASSUME NEW old, old \in TaskRecord
          PROVE  [old EXCEPT !.status = "cancelled"] \in TaskRecord
      BY <3>2 DEF TaskRecord, TaskStatus
    <3> QED
      BY <3>1, <3>2
  <2> HIDE DEF new, open, ids
  <2>5. /\ tasks' \in Seq(TaskRecord) /\ Len(tasks') = Len(tasks)
        /\ \A id \in DOMAIN tasks : tasks'[id] = new(id)
    BY <2>1, <2>3, <2>4
  <2>6. TaskRecord' = TaskRecord /\ AllKeys' = AllKeys
    BY <1>1, TouchIn, SameKeys
  <2>7. NodesInv'
    BY <1>1, <1>2, <2>2, <2>5 DEF TypeInv, NodesInv, NodeTyped
  <2>8. JobsInv'
    <3>1. \A j \in jobs : \A i \in DOMAIN j.states : j.states[i] = "busy" =>
             j.ids[i] # 0 /\ j.ids[i] \in DOMAIN tasks /\ tasks[j.ids[i]].status = "running"
      <4> TAKE j \in jobs
      <4> TAKE i \in DOMAIN j.states
      <4> HAVE j.states[i] = "busy"
      <4> DEFINE S == 0..Len(tasks)
      <4>1. /\ j.ids \in Seq(S) /\ j.states \in Seq(JobStatus) /\ Len(j.states) <= Len(j.ids)
            /\ j.ids[i] # 0 /\ tasks[j.ids[i]].status = "running"
        BY DEF TypeInv, JobsInv, JobsTyped, JobTyped, BusyRun
      <4> HIDE DEF S
      <4>2. j.ids[i] \in S
        BY ONLY <4>1, i \in DOMAIN j.states
      <4> QED
        BY <2>3, <4>1, <4>2 DEF S
    <3>2. \A j \in jobs : \A i \in DOMAIN j.states : j.states[i] = "busy" =>
             j.ids[i] # 0 /\ tasks'[j.ids[i]].status = "running"
      BY <2>4, <2>5, <3>1
    <3> QED
      BY <1>1, <2>5, <2>6, <3>2 DEF TypeInv, JobsInv, JobsTyped, JobTyped, BusyRun
  <2>9. PlainInv'
    BY <1>1, <2>1, PlainStays DEF TypeInv, PlainInv
  <2> QED
    BY <2>5, <2>6, <2>7, <2>8, <2>9 DEF TypeInv
<1> QED
    BY <1>4, <1>5

\* What a death and the recovery of tasks do to tasks.
LEMMA DieMeans ==
    ASSUME TypeInv, Die
    PROVE  /\ UNCHANGED <<def, faults, answers, run, history>>
           /\ mode' = "down" /\ wave' = NoWave /\ jobs' = {}
           /\ count < MaxFaults /\ count' = count + 1 /\ "death" \in faults
           /\ committed' \subseteq AllKeys
           /\ tasks' \in Seq(TaskRecord) /\ Len(tasks') = Len(tasks)
           /\ \A id \in 1..Len(tasks) :
                 /\ tasks'[id].key = tasks[id].key
                 /\ \/ tasks'[id].status = tasks[id].status
                    \/ tasks'[id].status = "verified_success" /\ tasks[id].status = "running"
<1>1. /\ UNCHANGED <<def, faults, answers, run, history>>
      /\ mode' = "down" /\ wave' = NoWave /\ jobs' = {}
      /\ count < MaxFaults /\ count' = count + 1 /\ "death" \in faults
    BY DEF Die, MayFault
<1>2. /\ tasks \in Seq(TaskRecord) /\ committed \subseteq AllKeys /\ DOMAIN tasks = 1..Len(tasks)
    BY DEF TypeInv, PlainInv
<1>3. CASE UNCHANGED <<tasks, committed>>
    BY <1>1, <1>2, <1>3
<1>4. ASSUME NEW id \in DOMAIN tasks, tasks[id].status = "running",
             committed' = committed \cup {tasks[id].key},
             UNCHANGED tasks \/ tasks' = Touch(tasks, id, "verified_success")
      PROVE  /\ committed' \subseteq AllKeys
             /\ tasks' \in Seq(TaskRecord) /\ Len(tasks') = Len(tasks)
             /\ \A m \in 1..Len(tasks) :
                   /\ tasks'[m].key = tasks[m].key
                   /\ \/ tasks'[m].status = tasks[m].status
                      \/ tasks'[m].status = "verified_success" /\ tasks[m].status = "running"
  <2>1. tasks[id] \in TaskRecord /\ id \in 1..Len(tasks)
    BY <1>2
  <2>2. committed' \subseteq AllKeys
    BY <1>2, <1>4, <2>1 DEF TaskRecord
  <2>3. CASE UNCHANGED tasks
    BY <1>2, <2>2, <2>3
  <2>4. CASE tasks' = Touch(tasks, id, "verified_success")
    <3> DEFINE new == Touch(tasks, id, "verified_success")
    <3>1. tasks' = new /\ new = Touch(tasks, id, "verified_success")
      BY <2>4
    <3>2. "verified_success" \in TaskStatus
      BY DEF TaskStatus
    <3> HIDE DEF new
    <3>3. /\ new \in Seq(TaskRecord) /\ Len(new) = Len(tasks)
          /\ new[id].status = "verified_success"
          /\ \A m \in 1..Len(tasks) : /\ new[m].key = tasks[m].key
                                      /\ m # id => new[m].status = tasks[m].status
      BY ONLY <1>2, <2>1, <3>1, <3>2, TouchFacts
    <3> QED
      BY <1>4, <2>2, <3>1, <3>3
  <2> QED
    BY <1>4, <2>3, <2>4
<1>5. \/ UNCHANGED <<tasks, committed>>
      \/ \E id \in DOMAIN tasks : /\ tasks[id].status = "running"
                                  /\ committed' = committed \cup {tasks[id].key}
                                  /\ UNCHANGED tasks \/ tasks' = Touch(tasks, id, "verified_success")
    BY Zenon DEF Die
<1> QED
    BY <1>1, <1>3, <1>4, <1>5

LEMMA RecoverTasksMeans ==
    ASSUME TypeInv, RecoverTasks
    PROVE  /\ UNCHANGED <<def, faults, answers, run, wave, jobs, history, count>>
           /\ mode = "down" /\ mode' = "repairing" /\ committed' \subseteq AllKeys
           /\ tasks' \in Seq(TaskRecord) /\ Len(tasks') = Len(tasks)
           /\ \A id \in 1..Len(tasks) :
                 /\ tasks'[id].key = tasks[id].key
                 /\ \/ tasks'[id].status = tasks[id].status
                    \/ /\ tasks[id].status = "running"
                       /\ tasks'[id].status \in {"verified_success", "recovery_required", "planned"}
<1> DEFINE interrupted == {id \in DOMAIN tasks : tasks[id].status = "running"}
           mutations   == {id \in interrupted : Request(tasks[id].key).effect = "mutate"}
<1>1. PICK seen \in SUBSET mutations :
         /\ tasks' = [id \in DOMAIN tasks |->
               [tasks[id] EXCEPT
                  !.status = IF id \in seen THEN "verified_success"
                             ELSE IF id \in mutations THEN "recovery_required"
                             ELSE IF id \in interrupted THEN "planned" ELSE @,
                  !.certified = @ \/ id \in seen,
                  !.latest = IF \E t \in interrupted : tasks[t].key = tasks[id].key
                             THEN id \in interrupted ELSE @]]
         /\ committed' = committed \cup {tasks[id].key : id \in seen}
    BY Zenon DEF RecoverTasks
<1>2. /\ UNCHANGED <<def, faults, answers, run, wave, jobs, history, count>>
      /\ mode = "down" /\ mode' = "repairing"
    BY DEF RecoverTasks
<1>3. tasks \in Seq(TaskRecord) /\ DOMAIN tasks = 1..Len(tasks)
      /\ \A id \in DOMAIN tasks : tasks[id] \in TaskRecord
    BY DEF TypeInv
<1>4. committed' \subseteq AllKeys
    BY <1>1, <1>3 DEF TypeInv, PlainInv, TaskRecord
<1> DEFINE status(id) == IF id \in seen THEN "verified_success"
                         ELSE IF id \in mutations THEN "recovery_required"
                         ELSE IF id \in interrupted THEN "planned" ELSE tasks[id].status
           sure(id) == tasks[id].certified \/ id \in seen
           last(id) == IF \E t \in interrupted : tasks[t].key = tasks[id].key
                       THEN id \in interrupted ELSE tasks[id].latest
           new(id) == [tasks[id] EXCEPT !.status = status(id), !.certified = sure(id),
                                        !.latest = last(id)]
<1>5. tasks' = [id \in DOMAIN tasks |-> new(id)]
    BY <1>1
<1>6. ASSUME NEW id \in DOMAIN tasks
      PROVE  /\ status(id) \in TaskStatus /\ sure(id) \in BOOLEAN /\ last(id) \in BOOLEAN
             /\ \/ status(id) = tasks[id].status
                \/ /\ tasks[id].status = "running"
                   /\ status(id) \in {"verified_success", "recovery_required", "planned"}
  <2>1. tasks[id] \in TaskRecord
    BY <1>3
  <2>2. tasks[id].status \in TaskStatus /\ tasks[id].certified \in BOOLEAN
        /\ tasks[id].latest \in BOOLEAN
    BY <2>1 DEF TaskRecord
  <2>3. /\ status(id) \in TaskStatus
        /\ \/ status(id) = tasks[id].status
           \/ /\ tasks[id].status = "running"
              /\ status(id) \in {"verified_success", "recovery_required", "planned"}
    BY <2>2 DEF TaskStatus
  <2>4. sure(id) \in BOOLEAN
    BY <2>2
  <2>5. last(id) \in BOOLEAN
    <3>1. (id \in interrupted) \in BOOLEAN
      OBVIOUS
    <3> QED
      BY <2>2, <3>1, Zenon
  <2> QED
    BY <2>3, <2>4, <2>5
<1> HIDE DEF status, sure, last
<1>8. \A id \in DOMAIN tasks : /\ new(id) \in TaskRecord /\ new(id).key = tasks[id].key
                               /\ new(id).status = status(id)
  <2> TAKE id \in DOMAIN tasks
  <2> DEFINE old == tasks[id]  s == status(id)  c == sure(id)  l == last(id)
  <2>1. old \in TaskRecord /\ s \in TaskStatus /\ c \in BOOLEAN /\ l \in BOOLEAN
    BY <1>3, <1>6
  <2>2. new(id) = [old EXCEPT !.status = s, !.certified = c, !.latest = l]
    OBVIOUS
  <2> HIDE DEF old, s, c, l, new
  <2>3. new(id) \in TaskRecord /\ new(id).key = old.key /\ new(id).status = s
    BY ONLY <2>1, <2>2 DEF TaskRecord
  <2> QED
    BY <2>3 DEF old, s
<1> HIDE DEF new
<1>9. tasks' \in Seq(TaskRecord) /\ Len(tasks') = Len(tasks)
      /\ \A id \in 1..Len(tasks) : tasks'[id] = new(id)
    BY <1>3, <1>5, <1>8
<1> QED
    BY <1>2, <1>3, <1>4, <1>6, <1>8, <1>9

LEMMA RestTypes ==
    ASSUME TypeInv, SagaInv, Change \/ Die \/ RecoverTasks \/ RecoverRun \/ UNCHANGED vars
    PROVE  TypeInv'
<1>0. JobsTyped({}) /\ DOMAIN NoWave.results = {} /\ NoWave.phase = "none"
    BY DEF JobsTyped, NoWave
<1>1. CASE Die \/ RecoverTasks
  <2>1. /\ UNCHANGED <<def, faults, answers, run, launched>>
        /\ wave' = NoWave /\ jobs' = {} /\ committed' \subseteq AllKeys
        /\ mode' \in {"serving", "down", "repairing"}
        /\ count' = count \/ (count < MaxFaults /\ count' = count + 1)
        /\ tasks' \in Seq(TaskRecord) /\ Len(tasks') = Len(tasks)
    <3>1. CASE Die
      BY <3>1, DieMeans DEF history
    <3>2. CASE RecoverTasks
      BY <3>2, RecoverTasksMeans DEF history, SagaInv, WaveInv
    <3> QED
      BY <1>1, <3>1, <3>2
  <2>2. PlainInv'
    BY <2>1, PlainStays DEF TypeInv, PlainInv
  <2>3. NodesInv'
    BY <1>0, <2>1 DEF TypeInv, NodesInv, NodeTyped
  <2>4. JobsInv'
    BY <2>1 DEF JobsInv, JobsTyped
  <2> QED
    BY <2>1, <2>2, <2>3, <2>4, TouchIn DEF TypeInv
<1>2. CASE Change \/ UNCHANGED vars
  <2>1. /\ UNCHANGED <<def, faults, mode, run, tasks, committed, wave, jobs, launched>>
        /\ count' = count \/ (count < MaxFaults /\ count' = count + 1)
    BY <1>2 DEF Change, vars, history, MayFault
  <2>2. answers' \in [DOMAIN def -> {1, 2}]
    <3>1. answers \in [DOMAIN def -> {1, 2}]
      BY DEF TypeInv, PlainInv
    <3>2. ASSUME NEW n \in DOMAIN def, answers' = [answers EXCEPT ![n] = 3 - @]
          PROVE  answers' \in [DOMAIN def -> {1, 2}]
      <4>1. 3 - answers[n] \in {1, 2}
        BY <3>1
      <4> QED
        BY <3>1, <3>2, <4>1
    <3> QED
      BY <1>2, <3>1, <3>2 DEF Change, vars
  <2>3. PlainInv'
    BY <2>1, <2>2, PlainStays DEF TypeInv, PlainInv
  <2>4. NodesInv'
    BY <2>1 DEF TypeInv, NodesInv, NodeTyped
  <2>5. JobsInv'
    BY <2>1, JobsStayTyped DEF TypeInv, JobsInv
  <2> QED
    BY <2>1, <2>3, <2>4, <2>5, TasksStayTyped DEF TypeInv
<1>3. CASE RecoverRun
  <2>1. /\ mode = "repairing" /\ mode' = "serving"
        /\ UNCHANGED <<def, faults, answers, tasks, committed, wave, jobs, launched, count>>
        /\ \/ UNCHANGED run
           \/ \E choice \in Picks :
                 run' = [status |-> DeriveStatus(SkipUnused(RecoveredNodes(choice))),
                         nodes |-> SkipUnused(RecoveredNodes(choice)),
                         error |-> DeriveStatus(SkipUnused(RecoveredNodes(choice)))
                                   = "recovery_required"]
    BY <1>3, RecoverRunMeans
  <2>2. ASSUME NEW choice \in Picks, NEW n \in DOMAIN def
        PROVE  NodeTyped(SkipUnused(RecoveredNodes(choice))[n])
    <3>1. Chosen(n, choice) \in Seq(1..Len(tasks))
      BY ChosenFacts
    <3>2. NodeTyped(RecoveredNodes(choice)[n])
      BY <3>1, RecoveredFacts DEF RecoveredNodes, SagaInv
    <3>3. DOMAIN RecoveredNodes(choice) = DOMAIN def
      BY DEF RecoveredNodes
    <3>4. \A m \in DOMAIN def : NodeForm(RecoveredNodes(choice)[m])
      BY ChosenFacts, RecoveredFacts DEF RecoveredNodes, SagaInv
    <3> QED
      BY <3>2, <3>3, <3>4, SkipKeeps
  <2>3. (\A n \in DOMAIN def : NodeTyped(run'.nodes[n])) /\ run'.error \in BOOLEAN
    <3>1. CASE UNCHANGED run
      BY <3>1 DEF TypeInv, NodesInv, PlainInv
    <3>2. ASSUME NEW choice \in Picks, NEW nodes, nodes = SkipUnused(RecoveredNodes(choice)),
                 NEW flag, flag <=> DeriveStatus(nodes) = "recovery_required", flag \in BOOLEAN,
                 run' = [status |-> DeriveStatus(nodes), nodes |-> nodes, error |-> flag]
          PROVE  (\A n \in DOMAIN def : NodeTyped(run'.nodes[n])) /\ run'.error \in BOOLEAN
      BY <2>2, <3>2
    <3> QED
      BY <2>1, <3>1, <3>2, Zenon
  <2>4. NodesInv'
    BY <2>1, <2>3 DEF TypeInv, NodesInv, NodeTyped
  <2>5. JobsInv'
    BY <2>1, JobsStayTyped DEF TypeInv, JobsInv
  <2>6. PlainInv'
    BY <2>1, <2>3, PlainStays DEF TypeInv, PlainInv
  <2> QED
    BY <2>1, <2>4, <2>5, <2>6, TasksStayTyped DEF TypeInv
<1> QED
    BY <1>1, <1>2, <1>3

LEMMA TypesKept ==
    ASSUME TypeInv, SagaInv, [Next]_vars
    PROVE  TypeInv'
<1>1. ASSUME NEW j \in jobs, NEW i \in DOMAIN j.states,
             StartRequest(j, i) \/ Throw(j, i) \/ Answer(j, i)
      PROVE  TypeInv'
    BY <1>1, RequestTypes, ThrowTypes DEF SagaInv
<1>2. ASSUME Next PROVE \/ Advance \/ Gather \/ UndoNext \/ Commit \/ Halt \/ Resume \/ Cancel
                        \/ Change \/ Die \/ RecoverTasks \/ RecoverRun
                        \/ \E j \in jobs : \E i \in DOMAIN j.states :
                              StartRequest(j, i) \/ Throw(j, i) \/ Answer(j, i)
    BY <1>2 DEF Next
<1> QED
    BY <1>1, <1>2, AdvanceTypes, GatherTypes, UndoTypes, CommitTypes, MovedTypes, RestTypes

LEMMA TypesBegin ==
    ASSUME Init
    PROVE  TypeInv
<1>1. /\ def \in Definitions /\ faults \in FaultSets /\ answers \in [DOMAIN def -> {1, 2}]
      /\ mode = "serving" /\ tasks = <<>> /\ committed = {} /\ wave = NoWave /\ jobs = {}
      /\ run = [status |-> "planned", error |-> FALSE,
                nodes |-> [n \in DOMAIN def |-> NodeState("pending", <<>>, 0)]]
      /\ launched = [k \in AllKeys |-> 0] /\ count = 0
    BY DEF Init, AllKeys
<1>2. PlainInv
  <2>1. run.error = FALSE
    BY <1>1
  <2> QED
    BY <1>1, <2>1, NodesAssumption DEF PlainInv
<1>3. tasks \in Seq(TaskRecord) /\ Len(tasks) = 0
  <2>1. <<>> \in Seq(TaskRecord)
    OBVIOUS
  <2> QED
    BY <1>1, <2>1
<1>4. NodesInv
  <2>1. \A n \in DOMAIN def : run.nodes[n] = NodeState("pending", <<>>, 0)
    BY <1>1
  <2>2. <<>> \in Seq(1..Len(tasks)) /\ 0 \in Nat
    OBVIOUS
  <2>3. NodeTyped(NodeState("pending", <<>>, 0))
    BY <2>2 DEF NodeTyped, Typed, NodeState, NodeStatus
  <2>4. DOMAIN NoWave.results = {} /\ NoWave.phase = "none"
    BY DEF NoWave
  <2> QED
    BY <1>1, <2>1, <2>3, <2>4 DEF NodesInv
<1>5. JobsInv
    BY <1>1 DEF JobsInv, JobsTyped
<1> QED
    BY <1>2, <1>3, <1>4, <1>5 DEF TypeInv

\* TypeOK is what TypeInv and the form of the records say.
LEMMA TypesShow ==
    ASSUME TypeInv, SagaInv
    PROVE  TypeOK
<1>1. /\ def \in Definitions /\ faults \in FaultSets
      /\ mode \in {"serving", "down", "repairing"}
      /\ run.status \in RunStatus /\ run.error \in BOOLEAN
      /\ committed \subseteq DOMAIN launched /\ count \in 0..MaxFaults
    BY DEF TypeInv, PlainInv, SagaInv, FormInv, RunForm
<1>2. \A n \in DOMAIN def : /\ run.nodes[n].status \in NodeStatus
                            /\ run.nodes[n].ids \in Seq(DOMAIN tasks)
  <2>1. DOMAIN tasks = 1..Len(tasks)
    BY DEF TypeInv
  <2> QED
    BY <2>1 DEF TypeInv, NodesInv, NodeTyped, Typed
<1>3. \A id \in DOMAIN tasks : tasks[id].status \in TaskStatus /\ tasks[id].key \in DOMAIN launched
  <2>1. \A id \in DOMAIN tasks : tasks[id] \in TaskRecord
    BY DEF TypeInv
  <2> QED
    BY <2>1 DEF TaskRecord, TypeInv, PlainInv
<1>4. \A j \in jobs : \A i \in DOMAIN j.states :
         j.states[i] = "busy" => tasks[j.ids[i]].status = "running"
    BY DEF TypeInv, JobsInv, JobsTyped, BusyRun
<1> QED
    BY <1>1, <1>2, <1>3, <1>4 DEF TypeOK
=============================================================================
