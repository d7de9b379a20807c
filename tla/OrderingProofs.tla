--------------------------- MODULE OrderingProofs ---------------------------
(***************************************************************************)
(* What the listings of Ordering contain and in which order, for any       *)
(* finite set and any key that tells its elements apart: ORDER BY position *)
(* and Array.filter as the queue and the outbox use them.                  *)
(***************************************************************************)
EXTENDS Ordering, FiniteSetTheorems, SequenceTheorems, WellFoundedInduction, TLAPS

\* A bounded, non-empty set of numbers has a greatest element.
LEMMA GreatestExists ==
  ASSUME NEW S \in SUBSET Nat, S # {}, NEW b \in Nat, \A s \in S : s <= b
  PROVE  \E n \in S : \A s \in S : s <= n
<1> DEFINE U == {n \in Nat : \A s \in S : s <= n}
<1>1. U \subseteq Nat /\ b \in U
  OBVIOUS
<1> DEFINE R == {ss \in Nat \X Nat : ss[1] < ss[2]}
<1>2. IsWellFoundedOn(R, Nat)
  BY NatLessThanWellFounded DEF OpToRel
<1>3. PICK m \in U : \A y \in U : ~ (<<y, m>> \in R)
  <2> HIDE DEF R, U
  <2> QED
    BY <1>1, <1>2, WFMin
<1>6. \A y \in U : ~ (y < m)
  BY <1>1, <1>3
<1>4. m \in S
  <2>1. SUFFICES ASSUME m \notin S PROVE FALSE
    OBVIOUS
  <2>2. \A s \in S : s <= m - 1
    BY <2>1
  <2>3. m - 1 \in U
    <3>1. PICK s \in S : TRUE
      OBVIOUS
    <3>2. s \in Nat /\ s <= m - 1
      BY <2>2
    <3>3. QED
      BY <2>2, <3>2
  <2>4. QED
    BY <2>3, <1>6
<1>5. QED
  BY <1>4

\* f tells the elements of the finite set S apart.
Orders(f, S) ==
  IsFiniteSet(S) /\ (\A x \in S : f[x] \in Int) /\ \A x, y \in S : f[x] = f[y] => x = y

\* s lists S in the order of f.
Lists(s, S, f) ==
  /\ s \in [1..Cardinality(S) -> S]
  /\ \A i, j \in 1..Cardinality(S) : i < j => f[s[i]] < f[s[j]]

\* How many elements of S are not behind x.
UpTo(x, S, f) == {y \in S : f[y] <= f[x]}
Rank(x, S, f) == Cardinality(UpTo(x, S, f))

\* The rank grows along the order and stays within the size of the set.
LEMMA RankProperties ==
  ASSUME NEW S, NEW f, Orders(f, S)
  PROVE  /\ \A x \in S : Rank(x, S, f) \in 1..Cardinality(S)
         /\ \A x, y \in S : f[x] < f[y] => Rank(x, S, f) < Rank(y, S, f)
<1>1. ASSUME NEW x \in S PROVE IsFiniteSet(UpTo(x, S, f)) /\ UpTo(x, S, f) \subseteq S /\ x \in UpTo(x, S, f)
  BY FS_Subset DEF UpTo, Orders
<1>2. ASSUME NEW x \in S PROVE Rank(x, S, f) \in 1..Cardinality(S)
  <2>1. Cardinality(UpTo(x, S, f)) <= Cardinality(S) /\ Cardinality(S) \in Nat
    BY <1>1, FS_Subset, FS_CardinalityType DEF Orders
  <2>2. Cardinality(UpTo(x, S, f)) \in Nat /\ Cardinality(UpTo(x, S, f)) # 0
    BY <1>1, FS_CardinalityType, FS_EmptySet
  <2> QED BY <2>1, <2>2 DEF Rank
<1>3. ASSUME NEW x \in S, NEW y \in S, f[x] < f[y] PROVE Rank(x, S, f) < Rank(y, S, f)
  <2>1. UpTo(x, S, f) \subseteq UpTo(y, S, f) /\ UpTo(x, S, f) # UpTo(y, S, f)
    BY <1>1, <1>3 DEF UpTo, Orders
  <2>2. Rank(x, S, f) <= Rank(y, S, f) /\ Rank(x, S, f) # Rank(y, S, f)
    BY <1>1, <2>1, FS_Subset DEF Rank
  <2> QED BY <1>2, <2>2
<1> QED BY <1>2, <1>3

\* Every rank is taken.
LEMMA RankTaken ==
  ASSUME NEW S, NEW f, Orders(f, S), NEW k \in 1..Cardinality(S)
  PROVE  \E x \in S : Rank(x, S, f) = k
<1> DEFINE n == Cardinality(S)
           r == [x \in S |-> Rank(x, S, f)]
<1>1. n \in Nat /\ IsFiniteSet(S)
  BY FS_CardinalityType DEF Orders
<1>2. IsFiniteSet(1..n) /\ Cardinality(1..n) = n
  BY <1>1, FS_Interval
<1>3. r \in [S -> 1..n]
  BY RankProperties
<1>4. \A x, y \in S : r[x] = r[y] => x = y
  <2>1. SUFFICES ASSUME NEW x \in S, NEW y \in S, r[x] = r[y], x # y PROVE FALSE
    OBVIOUS
  <2>2. f[x] < f[y] \/ f[y] < f[x]
    BY <2>1 DEF Orders
  <2>3. Rank(x, S, f) \in Int /\ Rank(y, S, f) \in Int /\ Rank(x, S, f) = Rank(y, S, f)
    BY <2>1, RankProperties
  <2> QED BY <2>2, <2>3, RankProperties
<1>5. r \in Injection(S, 1..n)
  BY <1>3, <1>4 DEF Injection, IsInjective
<1>6. r \in Surjection(S, 1..n)
  BY <1>1, <1>2, <1>5, FS_Injection
<1>7. \E x \in S : r[x] = k
  BY <1>6 DEF Surjection
<1> QED BY <1>7

\* InOrder is a listing.
LEMMA InOrderLists ==
  ASSUME NEW S, NEW f, Orders(f, S)
  PROVE  Lists(InOrder(S, f), S, f)
<1> DEFINE t == [k \in 1..Cardinality(S) |-> CHOOSE x \in S : Rank(x, S, f) = k]
<1>1. \A k \in 1..Cardinality(S) : t[k] \in S /\ Rank(t[k], S, f) = k
  BY RankTaken
<1>2. ASSUME NEW i \in 1..Cardinality(S), NEW j \in 1..Cardinality(S), i < j PROVE f[t[i]] < f[t[j]]
  <2>1. t[i] \in S /\ t[j] \in S /\ Rank(t[i], S, f) < Rank(t[j], S, f)
    BY <1>1, <1>2
  <2>2. SUFFICES ASSUME ~(f[t[i]] < f[t[j]]) PROVE FALSE
    OBVIOUS
  <2>3. t[i] # t[j]
    BY <2>1, <1>1
  <2>4. f[t[j]] < f[t[i]]
    BY <2>1, <2>2, <2>3 DEF Orders
  <2>5. Rank(t[j], S, f) < Rank(t[i], S, f)
    BY <2>1, <2>4, RankProperties
  <2>6. Rank(t[i], S, f) \in Int /\ Rank(t[j], S, f) \in Int
    BY <1>1, <1>2
  <2> QED BY <2>1, <2>5, <2>6
<1>3. t \in [1..Cardinality(S) -> S] /\ \A i, j \in DOMAIN t : i < j => f[t[i]] < f[t[j]]
  BY <1>1, <1>2
<1> HIDE DEF t
<1>4. \E s \in [1..Cardinality(S) -> S] : \A i, j \in DOMAIN s : i < j => f[s[i]] < f[s[j]]
  BY <1>3
<1> QED BY <1>4 DEF InOrder, Lists

\* A listing meets every element once.
LEMMA ListsAll ==
  ASSUME NEW S, NEW f, Orders(f, S), NEW s, Lists(s, S, f)
  PROVE  /\ \A i, j \in 1..Cardinality(S) : s[i] = s[j] => i = j
         /\ \A x \in S : \E i \in 1..Cardinality(S) : s[i] = x
<1> DEFINE n == Cardinality(S)
<1>1. n \in Nat /\ IsFiniteSet(S) /\ IsFiniteSet(1..n) /\ Cardinality(1..n) = n
  BY FS_CardinalityType, FS_Interval DEF Orders
<1>2. ASSUME NEW i \in 1..n, NEW j \in 1..n, s[i] = s[j] PROVE i = j
  <2>1. SUFFICES ASSUME i # j PROVE FALSE
    OBVIOUS
  <2>2. (f[s[i]] < f[s[j]] \/ f[s[j]] < f[s[i]]) /\ s[i] \in S
    BY <1>1, <2>1 DEF Lists
  <2>3. f[s[i]] \in Int
    BY <2>2 DEF Orders
  <2> QED BY <1>2, <2>2, <2>3
<1>3. s \in Injection(1..n, S)
  BY <1>2 DEF Injection, IsInjective, Lists
<1>4. s \in Surjection(1..n, S)
  BY <1>1, <1>3, FS_Injection
<1>5. \A x \in S : \E i \in 1..n : s[i] = x
  BY <1>4 DEF Surjection
<1> QED BY <1>2, <1>5

\* What a listing has at a place is the element of that rank.
LEMMA ListedAtRank ==
  ASSUME NEW S, NEW f, Orders(f, S), NEW s, Lists(s, S, f), NEW k \in 1..Cardinality(S)
  PROVE  Rank(s[k], S, f) = k
<1> DEFINE n == Cardinality(S)
           b == [j \in 1..k |-> s[j]]
<1>1. n \in Nat /\ k \in Nat /\ 1..k \subseteq 1..n
  BY FS_CardinalityType DEF Orders
<1>2. \A i \in 1..n : s[i] \in S /\ f[s[i]] \in Int
  BY DEF Lists, Orders
<1>3. \A j \in 1..k : s[j] \in UpTo(s[k], S, f)
  <2>1. TAKE j \in 1..k
  <2>2. j = k \/ f[s[j]] < f[s[k]]
    BY <1>1 DEF Lists
  <2> QED BY <1>1, <1>2, <2>2 DEF UpTo
<1>4. \A x \in UpTo(s[k], S, f) : \E j \in 1..k : s[j] = x
  <2>1. TAKE x \in UpTo(s[k], S, f)
  <2>2. PICK j \in 1..n : s[j] = x
    BY ListsAll DEF UpTo
  <2>3. ~(k < j)
    <3>1. k < j => f[s[k]] < f[s[j]]
      BY <1>1 DEF Lists
    <3>2. f[s[j]] <= f[s[k]]
      BY <2>2 DEF UpTo
    <3> QED BY <1>2, <3>1, <3>2
  <2> QED BY <1>1, <2>2, <2>3
<1>5. b \in Bijection(1..k, UpTo(s[k], S, f))
  <2>1. b \in [1..k -> UpTo(s[k], S, f)]
    BY <1>3
  <2>2. \A i, j \in 1..k : b[i] = b[j] => i = j
    BY <1>1, ListsAll
  <2>3. \A x \in UpTo(s[k], S, f) : \E j \in 1..k : b[j] = x
    BY <1>4
  <2> QED BY <2>1, <2>2, <2>3 DEF Bijection, Injection, Surjection, IsInjective
<1>6. IsFiniteSet(1..k) /\ Cardinality(1..k) = k
  BY <1>1, FS_Interval
<1>7. ExistsBijection(1..k, UpTo(s[k], S, f))
  BY <1>5 DEF ExistsBijection
<1> QED BY <1>6, <1>7, FS_Bijection DEF Rank

\* There is one listing.
LEMMA ListingIsUnique ==
  ASSUME NEW S, NEW f, Orders(f, S), NEW s, Lists(s, S, f)
  PROVE  InOrder(S, f) = s
<1> DEFINE n == Cardinality(S)
           t == InOrder(S, f)
<1>1. Lists(t, S, f)
  BY InOrderLists
<1>2. ASSUME NEW k \in 1..n PROVE t[k] = s[k]
  <2>1. t[k] \in S /\ s[k] \in S
    BY <1>1 DEF Lists
  <2>2. Rank(t[k], S, f) = k /\ Rank(s[k], S, f) = k
    BY <1>1, ListedAtRank
  <2>3. ~(f[t[k]] < f[s[k]]) /\ ~(f[s[k]] < f[t[k]])
    <3>1. f[t[k]] < f[s[k]] => k < k
      BY <2>1, <2>2, RankProperties
    <3>2. f[s[k]] < f[t[k]] => k < k
      BY <2>1, <2>2, RankProperties
    <3>3. k \in Int
      BY FS_CardinalityType DEF Orders
    <3> QED BY <3>1, <3>2, <3>3
  <2> QED BY <2>1, <2>3 DEF Orders
<1>3. t \in [1..n -> S] /\ s \in [1..n -> S]
  BY <1>1 DEF Lists
<1> HIDE DEF t, n
<1>4. t = [k \in 1..n |-> t[k]] /\ s = [k \in 1..n |-> s[k]]
  BY <1>3
<1>5. t = s
  BY <1>2, <1>4
<1> QED BY <1>5 DEF t

\* A listing of S is a sequence of all of S.
LEMMA ListingIsSequence ==
  ASSUME NEW S, NEW f, Orders(f, S)
  PROVE  /\ InOrder(S, f) \in Seq(S) /\ Len(InOrder(S, f)) = Cardinality(S)
         /\ DOMAIN InOrder(S, f) = 1..Cardinality(S)
         /\ {InOrder(S, f)[i] : i \in DOMAIN InOrder(S, f)} = S
<1> DEFINE s == InOrder(S, f)
<1>1. Lists(s, S, f) /\ Cardinality(S) \in Nat
  BY InOrderLists, FS_CardinalityType DEF Orders
<1>2. \A x \in S : \E i \in 1..Cardinality(S) : s[i] = x
  BY <1>1, ListsAll
<1> HIDE DEF s
<1>3. s \in [1..Cardinality(S) -> S]
  BY <1>1 DEF Lists
<1>4. s \in Seq(S) /\ Len(s) = Cardinality(S) /\ DOMAIN s = 1..Cardinality(S)
  BY <1>1, <1>3
<1>5. {s[i] : i \in DOMAIN s} = S
  BY <1>2, <1>3, <1>4
<1> QED BY <1>4, <1>5 DEF s

\* Only the keys of the listed elements matter.
LEMMA InOrderSameKeys ==
  ASSUME NEW S, NEW f, Orders(f, S), NEW g, \A x \in S : g[x] = f[x]
  PROVE  InOrder(S, g) = InOrder(S, f)
<1>1. Orders(g, S)
  BY DEF Orders
<1>2. Lists(InOrder(S, f), S, f)
  BY InOrderLists
<1> DEFINE s == InOrder(S, f)
<1> HIDE DEF s
<1>3. Lists(s, S, f) => Lists(s, S, g)
  BY DEF Lists
<1>4. Lists(s, S, g)
  BY <1>2, <1>3 DEF s
<1> QED BY <1>1, <1>4, ListingIsUnique DEF s

\* T is S with x, which g puts behind all others and which f does not know of.
JoinsLast(x, T, g, S, f) ==
  /\ x \notin S /\ T = S \cup {x} /\ Orders(g, T)
  /\ \A y \in S : g[y] = f[y] /\ g[y] < g[x]

\* t is s with x at the end.
IsWithLast(t, s, x) == t = Append(s, x)

\* One more, behind all others: ORDER BY with a new greatest key.
LEMMA InOrderWithLast ==
  ASSUME NEW S, NEW f, Orders(f, S), NEW x, NEW T, NEW g, JoinsLast(x, T, g, S, f)
  PROVE  IsWithLast(InOrder(T, g), InOrder(S, f), x)
<1>0. /\ x \notin S /\ T = S \cup {x} /\ Orders(g, T)
      /\ \A y \in S : g[y] = f[y] /\ g[y] < g[x]
  BY DEF JoinsLast
<1> DEFINE n == Cardinality(S)
           s == InOrder(S, f)
           t == Append(s, x)
<1>1. n \in Nat /\ Cardinality(T) = n + 1
  BY <1>0, FS_CardinalityType, FS_AddElement DEF Orders
<1>2. s \in [1..n -> S] /\ \A i, j \in 1..n : i < j => f[s[i]] < f[s[j]]
  BY InOrderLists DEF Lists
<1> HIDE DEF s
<1>3. s \in Seq(T) /\ Len(s) = n
  BY <1>0, <1>1, <1>2
<1>4. t \in [1..(n + 1) -> T] /\ t[n + 1] = x /\ \A i \in 1..n : t[i] = s[i]
  <2>1. t \in Seq(T) /\ Len(t) = n + 1 /\ t[n + 1] = x /\ \A i \in 1..n : t[i] = s[i]
    BY <1>0, <1>1, <1>3, AppendProperties
  <2> HIDE DEF t
  <2>2. t \in [1..Len(t) -> T]
    BY <2>1, LenProperties
  <2> QED BY <2>1, <2>2
<1> HIDE DEF t
<1>5. ASSUME NEW i \in 1..(n + 1), NEW j \in 1..(n + 1), i < j PROVE g[t[i]] < g[t[j]]
  <2>1. i \in 1..n /\ t[i] = s[i] /\ s[i] \in S
    BY <1>1, <1>2, <1>4, <1>5
  <2>2. CASE j = n + 1
    BY <1>0, <1>4, <2>1, <2>2
  <2>3. CASE j \in 1..n
    BY <1>0, <1>2, <1>4, <1>5, <2>1, <2>3
  <2> QED BY <1>1, <2>2, <2>3
<1>6. Lists(t, T, g)
  BY <1>1, <1>4, <1>5 DEF Lists
<1> QED BY <1>0, <1>6, ListingIsUnique DEF s, t, IsWithLast

\* One less: the others keep their order.
LEMMA InOrderWithout ==
  ASSUME NEW S, NEW f, Orders(f, S), NEW i \in 1..Cardinality(S), NEW g,
         \A y \in S : y # InOrder(S, f)[i] => g[y] = f[y]
  PROVE  InOrder(S \ {InOrder(S, f)[i]}, g) =
           [j \in 1..(Cardinality(S) - 1) |-> InOrder(S, f)[IF j < i THEN j ELSE j + 1]]
<1> DEFINE n == Cardinality(S)
           s == InOrder(S, f)
           T == S \ {s[i]}
           t == [j \in 1..(n - 1) |-> s[IF j < i THEN j ELSE j + 1]]
<1>1. n \in Nat /\ s \in [1..n -> S] /\ \A k, j \in 1..n : k < j => f[s[k]] < f[s[j]]
  BY InOrderLists, FS_CardinalityType DEF Lists, Orders
<1>2. \A k, j \in 1..n : s[k] = s[j] => k = j
  BY InOrderLists, ListsAll
<1>3. Cardinality(T) = n - 1 /\ IsFiniteSet(T)
  BY <1>1, FS_RemoveElement DEF Orders
<1>4. \A y \in T : g[y] = f[y]
  OBVIOUS
<1> HIDE DEF s
<1>5. t \in [1..(n - 1) -> T]
  <2>1. ASSUME NEW j \in 1..(n - 1) PROVE t[j] \in T
    <3>1. (IF j < i THEN j ELSE j + 1) \in 1..n /\ (IF j < i THEN j ELSE j + 1) # i
      BY <1>1
    <3> QED BY <1>1, <1>2, <3>1
  <2> QED BY <2>1
<1>6. ASSUME NEW k \in 1..(n - 1), NEW j \in 1..(n - 1), k < j PROVE g[t[k]] < g[t[j]]
  <2>1. t[k] \in T /\ t[j] \in T
    BY <1>5
  <2>2. f[t[k]] < f[t[j]]
    BY <1>1, <1>6
  <2> QED BY <1>4, <2>1, <2>2
<1>7. Lists(t, T, g)
  BY <1>3, <1>5, <1>6 DEF Lists
<1>8. Orders(g, T)
  BY <1>3, <1>4 DEF Orders
<1> QED BY <1>7, <1>8, ListingIsUnique DEF s

\* What is left without the first.
LEMMA TailForm ==
  ASSUME NEW T, NEW s \in Seq(T), s # <<>>
  PROVE  Tail(s) = [j \in 1..(Len(s) - 1) |-> s[j + 1]]
<1>1. /\ Tail(s) \in Seq(T) /\ Len(Tail(s)) = Len(s) - 1
      /\ \A j \in 1..Len(Tail(s)) : Tail(s)[j] = s[j + 1]
  BY HeadTailProperties
<1> DEFINE t == Tail(s)
<1> HIDE DEF t
<1>2. t = [j \in 1..Len(t) |-> t[j]]
  <2>1. t \in Seq(T)
    BY <1>1 DEF t
  <2>2. t \in [1..Len(t) -> T]
    BY <2>1, LenProperties
  <2> QED BY <2>2
<1>3. t = [j \in 1..(Len(s) - 1) |-> s[j + 1]]
  <2>1. Len(t) = Len(s) - 1 /\ \A j \in 1..Len(t) : t[j] = s[j + 1]
    BY <1>1 DEF t
  <2> QED BY <1>2, <2>1
<1> QED BY <1>3 DEF t

\* t has the items of s at the places I, and no others, in their order.
Picks(t, s, I) ==
  \E place \in [DOMAIN t -> I] :
    /\ \A k \in DOMAIN t : t[k] = s[place[k]]
    /\ \A k, l \in DOMAIN t : k < l => place[k] < place[l]
    /\ \A i \in I : \E k \in DOMAIN t : place[k] = i

\* Array.filter: the items at the chosen places, and no others, in their order.
LEMMA AtPlacesProperties ==
  ASSUME NEW T, NEW s \in Seq(T), NEW I \in SUBSET (DOMAIN s)
  PROVE  /\ AtPlaces(s, I) \in Seq(T) /\ Len(AtPlaces(s, I)) = Cardinality(I)
         /\ Picks(AtPlaces(s, I), s, I)
<1> DEFINE n == Cardinality(I)
           id == [i \in I |-> i]
           place == [k \in 1..n |-> CHOOSE i \in I : Cardinality({j \in I : j <= i}) = k]
           t == [k \in 1..n |-> s[place[k]]]
<1>1. IsFiniteSet(I) /\ n \in Nat /\ I \subseteq Int
  <2>1. DOMAIN s = 1..Len(s) /\ Len(s) \in Nat
    OBVIOUS
  <2>2. IsFiniteSet(1..Len(s)) /\ 1..Len(s) \subseteq Int
    BY <2>1, FS_Interval
  <2>3. IsFiniteSet(I)
    BY <2>1, <2>2, FS_Subset
  <2> QED BY <2>1, <2>2, <2>3, FS_CardinalityType
<1>2. Orders(id, I)
  BY <1>1 DEF Orders
<1>3. \A i \in I : Rank(i, I, id) = Cardinality({j \in I : j <= i})
  <2>1. \A i \in I : UpTo(i, I, id) = {j \in I : j <= i}
    BY DEF UpTo
  <2> QED BY <2>1 DEF Rank
<1>4. \A i, j \in I : Rank(i, I, id) \in 1..n /\ (i < j => Rank(i, I, id) < Rank(j, I, id))
  <2>1. \A i, j \in I : id[i] < id[j] => Rank(i, I, id) < Rank(j, I, id)
    BY <1>2, RankProperties
  <2>2. \A i \in I : Rank(i, I, id) \in 1..n /\ id[i] = i
    BY <1>2, RankProperties
  <2> QED BY <2>1, <2>2
<1>5. \A k \in 1..n : place[k] \in I /\ Rank(place[k], I, id) = k
  <2>1. TAKE k \in 1..n
  <2>2. \E i \in I : Cardinality({j \in I : j <= i}) = k
    <3>1. \E i \in I : Rank(i, I, id) = k
      BY <1>2, RankTaken
    <3> QED BY <1>3, <3>1
  <2>3. place[k] \in I /\ Cardinality({j \in I : j <= place[k]}) = k
    BY <2>2
  <2> QED BY <1>3, <2>3
<1>6. AtPlaces(s, I) = t
  BY DEF AtPlaces
<1> HIDE DEF place, id
<1>7. \A k, l \in 1..n : k < l => place[k] < place[l]
  <2>1. SUFFICES ASSUME NEW k \in 1..n, NEW l \in 1..n, k < l, ~(place[k] < place[l]) PROVE FALSE
    OBVIOUS
  <2>2. place[k] \in I /\ place[l] \in I /\ place[k] \in Int /\ place[l] \in Int
    BY <1>1, <1>5
  <2>3. Rank(place[k], I, id) = k /\ Rank(place[l], I, id) = l
    BY <1>5
  <2>4. place[k] # place[l]
    BY <2>1, <2>3
  <2>5. l < k
    BY <1>4, <2>1, <2>2, <2>3, <2>4
  <2> QED BY <1>1, <2>1, <2>5
<1>8. \A i \in I : \E k \in 1..n : place[k] = i
  <2>1. TAKE i \in I
  <2> DEFINE k == Rank(i, I, id)
  <2>2. k \in 1..n
    BY <1>4
  <2>3. place[k] \in I /\ Rank(place[k], I, id) = k
    BY <1>5, <2>2
  <2>4. ~(i < place[k]) /\ ~(place[k] < i)
    BY <1>1, <1>4, <2>2, <2>3
  <2>5. place[k] = i
    BY <1>1, <2>3, <2>4
  <2> QED BY <2>2, <2>5
<1>9. t \in Seq(T) /\ Len(t) = n /\ DOMAIN t = 1..n
  <2>1. \A i \in I : s[i] \in T
    OBVIOUS
  <2> QED BY <1>1, <1>5, <2>1
<1>10. place \in [1..n -> I]
  BY <1>5 DEF place
<1>11. \A k \in 1..n : t[k] = s[place[k]]
  OBVIOUS
<1> HIDE DEF t
<1>12. Picks(t, s, I)
  <2>1. /\ place \in [DOMAIN t -> I]
        /\ \A k \in DOMAIN t : t[k] = s[place[k]]
        /\ \A k, l \in DOMAIN t : k < l => place[k] < place[l]
        /\ \A i \in I : \E k \in DOMAIN t : place[k] = i
    BY <1>7, <1>8, <1>9, <1>10, <1>11
  <2> QED BY <2>1 DEF Picks
<1> QED BY <1>6, <1>9, <1>12
=============================================================================
