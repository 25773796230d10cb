-------------------------- MODULE PintosListProofs --------------------------
(***************************************************************************)
(* What the list operations of PintosList do to the members, the absence   *)
(* of duplicates and the order of a list.                                  *)
(***************************************************************************)
EXTENDS PintosList, TLAPS, WellFoundedInduction

\* A set of natural numbers has a least element.
LEMMA LeastExists ==
  ASSUME NEW T, T \subseteq Nat, T # {}
  PROVE  \E x \in T : \A y \in T : x <= y
<1> DEFINE R == OpToRel(<, Nat)
<1>1. IsWellFoundedOn(R, Nat)
  BY NatLessThanWellFounded
<1>2. \A x, y \in Nat : <<y, x>> \in R <=> y < x
  BY DEF OpToRel
<1> HIDE DEF R
<1>3. PICK x \in T : \A y \in T : ~(<<y, x>> \in R)
  BY <1>1, WFMin, Zenon
<1>4. \A y \in T : x <= y
  <2> TAKE y \in T
  <2>1. x \in Nat /\ y \in Nat
    OBVIOUS
  <2>2. ~(<<y, x>> \in R)
    BY <1>3
  <2>3. ~(y < x)
    BY <2>1, <2>2, <1>2, Zenon
  <2> QED
    BY <2>1, <2>3
<1> QED
  BY <1>4

\* A bounded set of natural numbers has a largest element.
LEMMA LargestExists ==
  ASSUME NEW n \in Nat, NEW T, T \subseteq 0..n, T # {}
  PROVE  \E x \in T : \A y \in T : x >= y
<1> DEFINE U == {u \in Nat : \E x \in T : u + x = n}
<1>1. U \subseteq Nat
  OBVIOUS
<1>2. U # {}
  <2>1. PICK x \in T : TRUE
    BY Zenon
  <2>2. x \in 0..n
    OBVIOUS
  <2>3. n - x \in Nat /\ (n - x) + x = n
    BY <2>2
  <2> QED
    BY <2>3, Zenon
<1>3. PICK u \in U : \A v \in U : u <= v
  <2> HIDE DEF U
  <2> QED
    BY <1>1, <1>2, LeastExists, Zenon
<1>4. PICK x \in T : u + x = n
  OBVIOUS
<1>5. \A y \in T : x >= y
  <2> TAKE y \in T
  <2>1. x \in 0..n /\ y \in 0..n /\ u \in Nat
    OBVIOUS
  <2>2. PICK v : v = n - y
    OBVIOUS
  <2>3. v \in Nat /\ v + y = n
    BY <2>1, <2>2
  <2>4. v \in U
    BY <2>3
  <2>5. u <= v
    BY <1>3, <2>4
  <2> QED
    BY <2>1, <2>3, <2>5, <1>4
<1> QED
  BY <1>5

\* The largest member of a bounded set of natural numbers.
LEMMA MaxProperties ==
  ASSUME NEW n \in Nat, NEW T, T \subseteq 0..n, T # {}
  PROVE  Max(T) \in T /\ \A y \in T : Max(T) >= y
BY LargestExists, Zenon DEF Max

----------------------------------------------------------------------------
(* Insertion *)

\* The elements of a concatenation.
LEMMA ConcatElements ==
  ASSUME NEW Q, NEW s \in Seq(Q), NEW t \in Seq(Q)
  PROVE  /\ s \o t \in Seq(Q)
         /\ Len(s \o t) = Len(s) + Len(t)
         /\ \A j \in 1..(Len(s) + Len(t)) :
              (s \o t)[j] = IF j <= Len(s) THEN s[j] ELSE t[j - Len(s)]
  OBVIOUS

\* r is s with e inserted as its element of index i.
Inserted(r, s, i, e) ==
  /\ Len(r) = Len(s) + 1
  /\ \A j \in 1..(i-1) : r[j] = s[j]
  /\ r[i] = e
  /\ \A j \in (i+1)..(Len(s)+1) : r[j] = s[j-1]

\* The elements of a list after list_insert.
LEMMA InsertElements ==
  ASSUME NEW Q, NEW s \in Seq(Q), NEW e \in Q, NEW i \in 1..(Len(s) + 1),
         NEW r, r = list_insert(s, i, e)
  PROVE  r \in Seq(Q) /\ Inserted(r, s, i, e)
<1>1. PICK a : a = SubSeq(s, 1, i-1)
  BY Zenon
<1>2. PICK b : b = SubSeq(s, i, Len(s))
  BY Zenon
<1>3. PICK c : c = a \o <<e>>
  BY Zenon
<1>4. PICK n : n = Len(s)
  OBVIOUS
<1>5. n \in Nat /\ i \in 1..(n+1)
  BY <1>4
<1>6. a \in Seq(Q) /\ Len(a) = i - 1 /\ \A j \in 1..(i-1) : a[j] = s[j]
  BY <1>1
<1>7. b \in Seq(Q) /\ Len(b) = n - i + 1 /\ \A j \in 1..(n-i+1) : b[j] = s[i+j-1]
  BY <1>2, <1>4
<1>8. c \in Seq(Q) /\ Len(c) = i /\ (\A j \in 1..(i-1) : c[j] = a[j]) /\ c[i] = e
  BY <1>3, <1>6
<1>9. PICK d : d = c \o b
  BY Zenon
<1>10. /\ d \in Seq(Q) /\ Len(d) = n + 1
       /\ \A j \in 1..i : d[j] = c[j]
       /\ \A j \in (i+1)..(n+1) : d[j] = b[j-i]
  <2>0. b \in Seq(Q) /\ c \in Seq(Q)
    BY <1>7, <1>8
  <2>1. d \in Seq(Q) /\ Len(d) = Len(c) + Len(b)
    BY <2>0, <1>9, ConcatElements, Zenon
  <2>2. \A j \in 1..(Len(c) + Len(b)) : d[j] = IF j <= Len(c) THEN c[j] ELSE b[j - Len(c)]
    BY <2>0, <1>9, ConcatElements, Zenon
  <2>3. Len(d) = n + 1
    BY <2>1, <1>5, <1>7, <1>8
  <2>4. \A j \in 1..(n+1) : d[j] = IF j <= i THEN c[j] ELSE b[j - i]
    <3>1. Len(c) + Len(b) = n + 1 /\ Len(c) = i
      BY <1>5, <1>7, <1>8
    <3> QED
      BY <2>2, <3>1, Zenon
  <2>5. \A j \in 1..i : d[j] = c[j]
    <3> TAKE j \in 1..i
    <3>1. j \in 1..(n+1) /\ j <= i
      BY <1>5
    <3> QED
      BY <3>1, <2>4, Zenon
  <2>6. \A j \in (i+1)..(n+1) : d[j] = b[j-i]
    <3> TAKE j \in (i+1)..(n+1)
    <3>1. j \in 1..(n+1) /\ ~(j <= i)
      BY <1>5
    <3> QED
      BY <3>1, <2>4, Zenon
  <2> QED
    BY <2>1, <2>3, <2>5, <2>6, Zenon
<1>11. r = d
  BY <1>1, <1>2, <1>3, <1>9 DEF list_insert
<1>12. \A j \in (i+1)..(n+1) : d[j] = s[j-1]
  <2> TAKE j \in (i+1)..(n+1)
  <2>1. PICK k : k = j - i
    OBVIOUS
  <2>2. k \in 1..(n-i+1) /\ i + k - 1 = j - 1
    BY <2>1, <1>5
  <2>3. d[j] = b[k] /\ b[k] = s[i+k-1]
    BY <2>1, <2>2, <1>7, <1>10
  <2> QED
    BY <2>2, <2>3
<1>13. \A j \in 1..(i-1) : d[j] = s[j]
  BY <1>5, <1>6, <1>8, <1>10
<1>14. d[i] = e
  BY <1>5, <1>8, <1>10
<1> QED
  BY <1>4, <1>10, <1>11, <1>12, <1>13, <1>14 DEF Inserted

\* The members of a list, by their index.
LEMMA Members ==
  ASSUME NEW Q, NEW s \in Seq(Q)
  PROVE  /\ Range(s) \subseteq Q
         /\ \A x : x \in Range(s) <=> \E i \in 1..Len(s) : s[i] = x
         /\ IsInjective(s) <=> \A i, j \in 1..Len(s) : s[i] = s[j] => i = j
BY DEF Range, IsInjective

\* Inserting e adds e to the members, and no duplicate if e is new.
LEMMA InsertMembers ==
  ASSUME NEW Q, NEW s \in Seq(Q), NEW e \in Q, NEW i \in 1..(Len(s) + 1),
         NEW r \in Seq(Q), Inserted(r, s, i, e)
  PROVE  /\ Range(r) = Range(s) \cup {e}
         /\ IsInjective(s) /\ e \notin Range(s) => IsInjective(r)
<1>1. PICK n : n = Len(s)
  OBVIOUS
<1>2. n \in Nat /\ i \in 1..(n+1)
  BY <1>1
<1>3. Len(r) = n + 1
  BY <1>1 DEF Inserted
<1>4. /\ \A j \in 1..(i-1) : r[j] = s[j]
      /\ r[i] = e
      /\ \A j \in (i+1)..(n+1) : r[j] = s[j-1]
  BY <1>1 DEF Inserted
<1>5. ASSUME NEW j \in 1..(n+1), j # i
      PROVE  \E k \in 1..n : r[j] = s[k] /\ (j < i => k = j) /\ (j > i => k = j - 1)
  <2>1. CASE j < i
    BY <2>1, <1>2, <1>4
  <2>2. CASE j > i
    BY <2>2, <1>2, <1>4
  <2> QED
    BY <1>2, <1>5, <2>1, <2>2
<1>6. ASSUME NEW k \in 1..n
      PROVE  \E j \in 1..(n+1) : r[j] = s[k]
  <2>1. CASE k < i
    <3>1. k \in 1..(i-1) /\ k \in 1..(n+1)
      BY <2>1, <1>2
    <3> QED
      BY <3>1, <1>4
  <2>2. CASE k >= i
    <3>1. k + 1 \in (i+1)..(n+1) /\ (k + 1) - 1 = k /\ k + 1 \in 1..(n+1)
      BY <2>2, <1>2
    <3>2. r[k+1] = s[(k+1)-1]
      BY <3>1, <1>4, Zenon
    <3> QED
      BY <3>1, <3>2
  <2> QED
    BY <1>2, <2>1, <2>2
<1>7. Range(r) = Range(s) \cup {e}
  <2>1. \A x : x \in Range(r) <=> \E j \in 1..(n+1) : r[j] = x
    BY <1>3, Members
  <2>2. \A x : x \in Range(s) <=> \E j \in 1..n : s[j] = x
    BY <1>1, Members
  <2>3. ASSUME NEW x \in Range(r) PROVE x \in Range(s) \cup {e}
    <3>1. PICK j \in 1..(n+1) : r[j] = x
      BY <2>1
    <3>2. CASE j = i
      BY <3>1, <3>2, <1>4
    <3>3. CASE j # i
      BY <3>1, <3>3, <1>5, <2>2
    <3> QED
      BY <3>2, <3>3
  <2>4. ASSUME NEW x \in Range(s) \cup {e} PROVE x \in Range(r)
    <3>1. CASE x = e
      BY <3>1, <1>2, <1>4, <2>1
    <3>2. CASE x \in Range(s)
      BY <3>2, <1>6, <2>1, <2>2
    <3> QED
      BY <3>1, <3>2
  <2> QED
    BY <2>3, <2>4
<1>8. ASSUME IsInjective(s), e \notin Range(s) PROVE IsInjective(r)
  <2>1. \A x : x \in Range(s) <=> \E j \in 1..n : s[j] = x
    BY <1>1, Members
  <2>2. \A j, k \in 1..n : s[j] = s[k] => j = k
    BY <1>1, <1>8, Members
  <2>3. ASSUME NEW j \in 1..(n+1), NEW k \in 1..(n+1), r[j] = r[k] PROVE j = k
    <3>1. CASE j = i \/ k = i
      BY <3>1, <2>3, <2>1, <1>4, <1>5, <1>8
    <3>2. CASE j # i /\ k # i
      <4>1. PICK p \in 1..n : r[j] = s[p] /\ (j < i => p = j) /\ (j > i => p = j - 1)
        BY <3>2, <1>5
      <4>2. PICK q \in 1..n : r[k] = s[q] /\ (k < i => q = k) /\ (k > i => q = k - 1)
        BY <3>2, <1>5
      <4>3. p = q
        BY <4>1, <4>2, <2>2, <2>3, Zenon
      <4> QED
        BY <4>1, <4>2, <4>3, <3>2, <1>2
    <3> QED
      BY <3>1, <3>2
  <2> QED
    BY <2>3, <1>3, Members
<1> QED
  BY <1>7, <1>8

\* list_insert_ordered inserts in front of the first element of G.
LEMMA InsertOrdered ==
  ASSUME NEW Q, NEW s \in Seq(Q), NEW e \in Q, NEW G
  PROVE  \E i \in 1..(Len(s) + 1) :
           /\ list_insert_ordered(s, e, G) \in Seq(Q)
           /\ Inserted(list_insert_ordered(s, e, G), s, i, e)
           /\ \A j \in 1..(i-1) : s[j] \notin G
           /\ i <= Len(s) => s[i] \in G
<1> DEFINE before == {i \in 1..Len(s) : s[i] \in G}
           p == IF before = {} THEN Len(s) + 1 ELSE Min(before)
<1>1. before \subseteq Nat /\ before \subseteq 1..Len(s) /\ Len(s) \in Nat
  OBVIOUS
<1>2. list_insert_ordered(s, e, G) = list_insert(s, p, e)
  BY DEF list_insert_ordered
<1>3. /\ p \in 1..(Len(s) + 1)
      /\ \A j \in 1..(p-1) : s[j] \notin G
      /\ p <= Len(s) => s[p] \in G
  <2>1. CASE before = {}
    BY <2>1
  <2>2. CASE before # {}
    <3> HIDE DEF before
    <3>1. \E i \in before : \A j \in before : i <= j
      BY <1>1, <2>2, LeastExists, Zenon
    <3>2. Min(before) \in before /\ \A j \in before : Min(before) <= j
      BY <3>1 DEF Min
    <3>3. PICK m : m = Min(before)
      OBVIOUS
    <3>4. p = m /\ m \in before /\ \A j \in before : m <= j
      BY <2>2, <3>2, <3>3
    <3>5. m \in 1..Len(s) /\ s[m] \in G
      BY <3>4 DEF before
    <3>6. \A j \in 1..(m-1) : s[j] \notin G
      BY <3>4, <3>5 DEF before
    <3> QED
      BY <3>4, <3>5, <3>6
  <2> QED
    BY <2>1, <2>2, Zenon
<1> HIDE DEF p
<1>4. list_insert(s, p, e) \in Seq(Q) /\ Inserted(list_insert(s, p, e), s, p, e)
  BY <1>3, InsertElements, Zenon
<1> QED
  BY <1>2, <1>3, <1>4, Zenon

\* list_insert_ordered adds its element, once.
LEMMA InsertOrderedMembers ==
  ASSUME NEW Q, NEW s \in Seq(Q), NEW e \in Q, NEW G
  PROVE  /\ list_insert_ordered(s, e, G) \in Seq(Q)
         /\ Range(list_insert_ordered(s, e, G)) = Range(s) \cup {e}
         /\ IsInjective(s) /\ e \notin Range(s) =>
              IsInjective(list_insert_ordered(s, e, G))
<1>1. PICK r : r = list_insert_ordered(s, e, G)
  OBVIOUS
<1>2. PICK i \in 1..(Len(s) + 1) : r \in Seq(Q) /\ Inserted(r, s, i, e)
  BY <1>1, InsertOrdered, Zenon
<1>3. /\ Range(r) = Range(s) \cup {e}
      /\ IsInjective(s) /\ e \notin Range(s) => IsInjective(r)
  BY <1>2, InsertMembers, Zenon
<1> QED
  BY <1>1, <1>2, <1>3, Zenon

\* The list is in the order of falling keys.
Descending(s, key) == \A i, j \in 1..Len(s) : i < j => key[s[i]] >= key[s[j]]

\* Insertion in front of the elements with a smaller key keeps that order.
LEMMA InsertOrderedDescending ==
  ASSUME NEW Q, NEW s \in Seq(Q), NEW e \in Q, NEW key \in [Q -> Nat],
         NEW G, \A x \in Q : x \in G <=> key[e] > key[x],
         Descending(s, key)
  PROVE  Descending(list_insert_ordered(s, e, G), key)
<1>1. PICK r : r = list_insert_ordered(s, e, G)
  OBVIOUS
<1>2. PICK i \in 1..(Len(s) + 1) :
        /\ r \in Seq(Q) /\ Inserted(r, s, i, e)
        /\ \A j \in 1..(i-1) : s[j] \notin G
        /\ i <= Len(s) => s[i] \in G
  BY <1>1, InsertOrdered, Zenon
<1>3. PICK n : n = Len(s)
  OBVIOUS
<1>4. n \in Nat /\ i \in 1..(n+1) /\ Len(r) = n + 1
  BY <1>2, <1>3 DEF Inserted
<1>5. PICK h : h = [j \in 1..n |-> key[s[j]]]
  BY Zenon
<1>6. h \in [1..n -> Nat] /\ \A j, k \in 1..n : j < k => h[j] >= h[k]
  BY <1>3, <1>5 DEF Descending
<1>7. \A j \in 1..n : j < i => h[j] >= key[e]
  BY <1>2, <1>3, <1>4, <1>5
<1>8. \A j \in 1..n : j >= i => key[e] >= h[j]
  <2>1. i <= n => key[e] > h[i]
    BY <1>2, <1>3, <1>4, <1>5
  <2> TAKE j \in 1..n
  <2> HAVE j >= i
  <2>2. h[i] >= h[j] /\ h[i] \in Nat /\ h[j] \in Nat
    BY <1>4, <1>6
  <2> QED
    BY <2>1, <2>2, <1>4
<1>9. PICK g : g = [j \in 1..(n+1) |-> key[r[j]]]
  BY Zenon
<1>10. /\ \A j \in 1..n : j < i => g[j] = h[j]
       /\ g[i] = key[e]
       /\ \A j \in 1..(n+1) : j > i => g[j] = h[j-1]
  <2>1. /\ \A j \in 1..(i-1) : r[j] = s[j]
        /\ r[i] = e
        /\ \A j \in (i+1)..(n+1) : r[j] = s[j-1]
    BY <1>2, <1>3 DEF Inserted
  <2>2. ASSUME NEW j \in 1..n, j < i PROVE g[j] = h[j]
    <3>1. j \in 1..(i-1) /\ j \in 1..(n+1)
      BY <2>2, <1>4
    <3>2. r[j] = s[j] /\ h[j] = key[s[j]]
      BY <3>1, <2>1, <1>5
    <3> QED
      BY <3>1, <3>2, <1>9
  <2>3. g[i] = key[e]
    BY <2>1, <1>4, <1>9
  <2>4. ASSUME NEW j \in 1..(n+1), j > i PROVE g[j] = h[j-1]
    <3>1. j \in (i+1)..(n+1) /\ j - 1 \in 1..n
      BY <2>4, <1>4
    <3>2. r[j] = s[j-1] /\ h[j-1] = key[s[j-1]]
      BY <3>1, <2>1, <1>5
    <3> QED
      BY <3>2, <1>9
  <2> QED
    BY <2>2, <2>3, <2>4
<1>11. ASSUME NEW j \in 1..(n+1), NEW k \in 1..(n+1), j < k PROVE g[j] >= g[k]
  <2>0. key[e] \in Nat
    OBVIOUS
  <2>1. CASE k < i
    <3>1. j \in 1..n /\ k \in 1..n /\ j < i /\ j < k
      BY <2>1, <1>4, <1>11
    <3>2. g[j] = h[j] /\ g[k] = h[k] /\ h[j] >= h[k]
      BY <2>1, <3>1, <1>6, <1>10
    <3> QED
      BY <3>2
  <2>2. CASE k = i
    BY <2>2, <1>4, <1>7, <1>10, <1>11
  <2>3. CASE j = i
    <3>1. k - 1 \in 1..n /\ k - 1 >= i /\ k > i
      BY <2>3, <1>4, <1>11
    <3>2. g[j] = key[e] /\ g[k] = h[k-1] /\ key[e] >= h[k-1]
      BY <2>3, <3>1, <1>8, <1>10
    <3> QED
      BY <3>2
  <2>4. CASE j > i
    <3>1. j - 1 \in 1..n /\ k - 1 \in 1..n /\ j - 1 < k - 1
      BY <2>4, <1>4, <1>11
    <3>2. k > i
      BY <2>4, <1>4, <1>11
    <3>3. g[j] = h[j-1] /\ g[k] = h[k-1] /\ h[j-1] >= h[k-1]
      BY <2>4, <3>1, <3>2, <1>6, <1>10
    <3> QED
      BY <3>3
  <2>5. CASE j < i /\ k > i
    <3>1. j \in 1..n /\ k - 1 \in 1..n /\ k - 1 >= i
      BY <2>5, <1>4, <1>11
    <3>2. g[j] = h[j] /\ g[k] = h[k-1] /\ h[j] >= key[e] /\ key[e] >= h[k-1]
      BY <2>5, <3>1, <1>7, <1>8, <1>10
    <3>3. h[j] \in Nat /\ h[k-1] \in Nat
      BY <3>1, <1>6
    <3> QED
      BY <2>0, <3>2, <3>3
  <2> QED
    BY <2>1, <2>2, <2>3, <2>4, <2>5, <1>4
<1> QED
  BY <1>1, <1>4, <1>9, <1>11 DEF Descending

----------------------------------------------------------------------------
(* Removal *)

\* r is s without its element of index i.
Removed(r, s, i) ==
  /\ Len(r) = Len(s) - 1
  /\ \A j \in 1..(i-1) : r[j] = s[j]
  /\ \A j \in i..(Len(s)-1) : r[j] = s[j+1]

\* The elements of a list after its i-th one is unlinked.
LEMMA RemoveElements ==
  ASSUME NEW Q, NEW s \in Seq(Q), NEW i \in 1..Len(s), NEW r, r = Unlink(s, i)
  PROVE  r \in Seq(Q) /\ Removed(r, s, i)
<1>1. PICK a : a = SubSeq(s, 1, i-1)
  BY Zenon
<1>2. PICK b : b = SubSeq(s, i+1, Len(s))
  BY Zenon
<1>3. PICK n : n = Len(s)
  OBVIOUS
<1>4. n \in Nat /\ i \in 1..n
  BY <1>3
<1>5. a \in Seq(Q) /\ Len(a) = i - 1 /\ \A j \in 1..(i-1) : a[j] = s[j]
  BY <1>1
<1>6. b \in Seq(Q) /\ Len(b) = n - i /\ \A j \in 1..(n-i) : b[j] = s[i+j]
  BY <1>2, <1>3
<1>7. r = a \o b
  BY <1>1, <1>2 DEF Unlink
<1>8. a \in Seq(Q) /\ b \in Seq(Q)
  BY <1>5, <1>6
<1>9. /\ r \in Seq(Q) /\ Len(r) = Len(a) + Len(b)
      /\ \A j \in 1..(Len(a) + Len(b)) : r[j] = IF j <= Len(a) THEN a[j] ELSE b[j - Len(a)]
  BY <1>7, <1>8, ConcatElements, SMTT(20)
<1>10. Len(a) + Len(b) = n - 1 /\ Len(a) = i - 1
  BY <1>4, <1>5, <1>6
<1>11. \A j \in 1..(n-1) : r[j] = IF j <= i - 1 THEN a[j] ELSE b[j - (i - 1)]
  BY <1>9, <1>10, Zenon
<1>12. ASSUME NEW j \in 1..(i-1) PROVE r[j] = s[j]
  <2>1. j \in 1..(n-1) /\ j <= i - 1
    BY <1>4
  <2> QED
    BY <2>1, <1>5, <1>11
<1>13. ASSUME NEW j \in i..(n-1) PROVE r[j] = s[j+1]
  <2>1. PICK k : k = j - (i - 1)
    OBVIOUS
  <2>2. j \in 1..(n-1) /\ ~(j <= i - 1) /\ k \in 1..(n-i) /\ i + k = j + 1
    BY <2>1, <1>4
  <2>3. r[j] = b[k]
    BY <2>1, <2>2, <1>11, Zenon
  <2>4. b[k] = s[i+k]
    BY <2>2, <1>6
  <2> QED
    BY <2>2, <2>3, <2>4
<1> QED
  BY <1>3, <1>9, <1>10, <1>12, <1>13 DEF Removed

\* Unlinking an element of a list without duplicates.
LEMMA RemoveMembers ==
  ASSUME NEW Q, NEW s \in Seq(Q), NEW i \in 1..Len(s),
         NEW r \in Seq(Q), Removed(r, s, i), IsInjective(s)
  PROVE  /\ Range(r) = Range(s) \ {s[i]}
         /\ IsInjective(r)
         /\ \A key : Descending(s, key) => Descending(r, key)
<1>1. PICK n : n = Len(s)
  OBVIOUS
<1>2. n \in Nat /\ i \in 1..n /\ Len(r) = n - 1
  BY <1>1 DEF Removed
<1>3. PICK f : f = [j \in 1..(n-1) |-> IF j < i THEN j ELSE j + 1]
  BY Zenon
<1>4. /\ \A j \in 1..(n-1) : f[j] \in 1..n /\ f[j] # i /\ r[j] = s[f[j]]
      /\ \A j, k \in 1..(n-1) : j < k => f[j] < f[k]
      /\ \A k \in 1..n : k # i => \E j \in 1..(n-1) : f[j] = k
  <2>1. \A j \in 1..(n-1) : f[j] = IF j < i THEN j ELSE j + 1
    BY <1>3
  <2>2. \A j \in 1..(n-1) : f[j] \in 1..n /\ f[j] # i
    BY <2>1, <1>2
  <2>3. ASSUME NEW j \in 1..(n-1) PROVE r[j] = s[f[j]]
    <3>1. CASE j < i
      BY <3>1, <2>1, <1>1, <1>2 DEF Removed
    <3>2. CASE j >= i
      BY <3>2, <2>1, <1>1, <1>2 DEF Removed
    <3> QED
      BY <3>1, <3>2, <1>2
  <2>4. \A j, k \in 1..(n-1) : j < k => f[j] < f[k]
    BY <2>1, <1>2
  <2>5. ASSUME NEW k \in 1..n, k # i PROVE \E j \in 1..(n-1) : f[j] = k
    <3>1. CASE k < i
      <4>1. k \in 1..(n-1)
        BY <3>1, <1>2
      <4> QED
        BY <4>1, <3>1, <2>1
    <3>2. CASE k > i
      <4>1. k - 1 \in 1..(n-1) /\ ~(k - 1 < i) /\ (k - 1) + 1 = k
        BY <3>2, <1>2
      <4>2. f[k-1] = k
        BY <4>1, <2>1
      <4> QED
        BY <4>1, <4>2
    <3> QED
      BY <2>5, <3>1, <3>2, <1>2
  <2> QED
    BY <2>2, <2>3, <2>4, <2>5
<1>5. \A j, k \in 1..n : s[j] = s[k] => j = k
  BY <1>1, Members
<1>6. \A x : x \in Range(s) <=> \E j \in 1..n : s[j] = x
  BY <1>1, Members
<1>7. \A x : x \in Range(r) <=> \E j \in 1..(n-1) : r[j] = x
  BY <1>2, Members
<1>8. Range(r) = Range(s) \ {s[i]}
  <2>1. ASSUME NEW x \in Range(r) PROVE x \in Range(s) \ {s[i]}
    <3>1. PICK j \in 1..(n-1) : r[j] = x
      BY <1>7
    <3>2. f[j] \in 1..n /\ f[j] # i /\ s[f[j]] = x
      BY <3>1, <1>4
    <3> QED
      BY <3>2, <1>2, <1>5, <1>6
  <2>2. ASSUME NEW x \in Range(s) \ {s[i]} PROVE x \in Range(r)
    <3>1. PICK k \in 1..n : s[k] = x
      BY <1>6
    <3>2. PICK j \in 1..(n-1) : f[j] = k
      BY <3>1, <1>4
    <3> QED
      BY <3>1, <3>2, <1>4, <1>7
  <2> QED
    BY <2>1, <2>2
<1>9. IsInjective(r)
  <2>1. ASSUME NEW j \in 1..(n-1), NEW k \in 1..(n-1), r[j] = r[k] PROVE j = k
    <3>1. f[j] = f[k]
      BY <2>1, <1>4, <1>5, SMTT(20)
    <3>2. f[j] \in Int /\ f[k] \in Int
      BY <1>2, <1>4
    <3>3. ~(j < k) /\ ~(k < j)
      BY <3>1, <3>2, <1>4
    <3> QED
      BY <3>3, <1>2
  <2> QED
    BY <2>1, <1>2, Members
<1>10. ASSUME NEW key, Descending(s, key) PROVE Descending(r, key)
  <2>1. \A j, k \in 1..n : j < k => key[s[j]] >= key[s[k]]
    BY <1>1, <1>10 DEF Descending
  <2>2. ASSUME NEW j \in 1..(n-1), NEW k \in 1..(n-1), j < k
        PROVE  key[r[j]] >= key[r[k]]
    <3>1. r[j] = s[f[j]] /\ r[k] = s[f[k]] /\ f[j] \in 1..n /\ f[k] \in 1..n /\ f[j] < f[k]
      BY <2>2, <1>4
    <3> QED
      BY <3>1, <2>1
  <2> QED
    BY <2>2, <1>2 DEF Descending
<1> QED
  BY <1>8, <1>9, <1>10

\* list_remove takes its element off a list without duplicates.
LEMMA ListRemove ==
  ASSUME NEW Q, NEW s \in Seq(Q), NEW e \in Range(s), IsInjective(s)
  PROVE  /\ list_remove(s, e) \in Seq(Q)
         /\ Range(list_remove(s, e)) = Range(s) \ {e}
         /\ IsInjective(list_remove(s, e))
         /\ \A key : Descending(s, key) => Descending(list_remove(s, e), key)
<1>1. PICK i : i = CHOOSE j \in 1..Len(s) : s[j] = e
  OBVIOUS
<1>2. i \in 1..Len(s) /\ s[i] = e
  <2>1. \E j \in 1..Len(s) : s[j] = e
    BY Members
  <2> QED
    BY <1>1, <2>1
<1>3. PICK r : r = Unlink(s, i)
  OBVIOUS
<1>4. list_remove(s, e) = r
  BY <1>1, <1>3 DEF list_remove
<1>5. r \in Seq(Q) /\ Removed(r, s, i)
  BY <1>2, <1>3, RemoveElements, Zenon
<1>6. /\ Range(r) = Range(s) \ {s[i]}
      /\ IsInjective(r)
      /\ \A key : Descending(s, key) => Descending(r, key)
  BY <1>2, <1>5, RemoveMembers, Zenon
<1> QED
  BY <1>2, <1>4, <1>5, <1>6, Zenon

\* list_pop_front: the front of a list and the rest.
LEMMA PopFront ==
  ASSUME NEW Q, NEW s \in Seq(Q), s # <<>>, IsInjective(s)
  PROVE  /\ Head(s) \in Range(s)
         /\ Tail(s) \in Seq(Q)
         /\ Range(Tail(s)) = Range(s) \ {Head(s)}
         /\ IsInjective(Tail(s))
         /\ \A key : Descending(s, key) =>
              /\ Descending(Tail(s), key)
              /\ \A x \in Range(Tail(s)) : key[Head(s)] >= key[x]
<1>1. PICK r : r = Tail(s)
  BY Zenon
<1>2. Len(s) \in Nat /\ 1 \in 1..Len(s) /\ Head(s) = s[1]
  OBVIOUS
<1>3. r \in Seq(Q) /\ Len(r) = Len(s) - 1 /\ \A j \in 1..(Len(s)-1) : r[j] = s[j+1]
  BY <1>1
<1>4. Removed(r, s, 1)
  BY <1>2, <1>3 DEF Removed
<1>5. /\ Range(r) = Range(s) \ {s[1]}
      /\ IsInjective(r)
      /\ \A key : Descending(s, key) => Descending(r, key)
  BY <1>2, <1>3, <1>4, RemoveMembers, Zenon
<1>6. ASSUME NEW key, Descending(s, key), NEW x \in Range(r)
      PROVE  key[s[1]] >= key[x]
  <2>1. PICK j \in 1..Len(r) : r[j] = x
    BY <1>3, Members
  <2>2. j + 1 \in 1..Len(s) /\ 1 < j + 1 /\ s[j+1] = x
    BY <2>1, <1>2, <1>3
  <2>3. \A p, q \in 1..Len(s) : p < q => key[s[p]] >= key[s[q]]
    BY <1>6 DEF Descending
  <2> QED
    BY <2>2, <2>3, <1>2
<1>7. s[1] \in Range(s)
  BY <1>2, Members
<1> QED
  BY <1>1, <1>2, <1>3, <1>5, <1>6, <1>7

\* list_max returns a member with the largest key.
LEMMA ListMax ==
  ASSUME NEW Q, NEW s \in Seq(Q), s # <<>>, NEW m \in Nat, NEW key \in [Q -> 0..m]
  PROVE  /\ list_max(s, key) \in Range(s)
         /\ \A x \in Range(s) : key[x] <= key[list_max(s, key)]
<1>1. PICK n : n = Len(s)
  OBVIOUS
<1>2. n \in Nat /\ 1 \in 1..n /\ \A j \in 1..n : s[j] \in Q
  BY <1>1
<1> DEFINE K == {key[s[j]] : j \in 1..n}
<1>3. K \subseteq 0..m /\ K # {}
  BY <1>2
<1>4. PICK k \in K : \A y \in K : k >= y
  <2> HIDE DEF K
  <2> QED
    BY <1>3, LargestExists, Zenon
<1> DEFINE I == {j \in 1..n : key[s[j]] = k}
<1>5. I \subseteq Nat /\ I # {}
  BY <1>2, <1>4
<1>6. PICK i \in I : \A j \in I : i <= j
  <2> HIDE DEF I
  <2> QED
    BY <1>5, LeastExists, Zenon
<1>7. /\ i \in 1..n
      /\ \A j \in 1..n : key[s[j]] <= key[s[i]]
      /\ \A j \in 1..(i-1) : key[s[j]] < key[s[i]]
  <2>1. i \in 1..n /\ key[s[i]] = k /\ k \in 0..m
    BY <1>3, <1>6, Zenon
  <2>2. ASSUME NEW j \in 1..n PROVE key[s[j]] \in K /\ key[s[j]] \in 0..m /\ key[s[j]] <= k
    <3>1. key[s[j]] \in K
      OBVIOUS
    <3>2. key[s[j]] \in 0..m
      BY <1>2
    <3> QED
      BY <3>1, <3>2, <2>1, <1>4, SMTT(20)
  <2>3. ASSUME NEW j \in 1..(i-1) PROVE key[s[j]] < k
    <3>1. j \in 1..n /\ ~(i <= j)
      BY <2>1, <1>2
    <3>2. j \notin I
      BY <3>1, <1>6
    <3>3. key[s[j]] # k
      BY <3>1, <3>2
    <3> QED
      BY <3>1, <3>3, <2>1, <2>2
  <2> QED
    BY <2>1, <2>2, <2>3
<1>8. PICK p : p = CHOOSE q \in 1..n : /\ \A j \in 1..n : key[s[j]] <= key[s[q]]
                                       /\ \A j \in 1..(q-1) : key[s[j]] < key[s[q]]
  OBVIOUS
<1>9. p \in 1..n /\ \A j \in 1..n : key[s[j]] <= key[s[p]]
  BY <1>7, <1>8, Zenon
<1>10. list_max(s, key) = s[p]
  BY <1>1, <1>8 DEF list_max
<1>11. \A x : x \in Range(s) <=> \E j \in 1..n : s[j] = x
  BY <1>1, Members
<1> QED
  BY <1>9, <1>10, <1>11, Zenon

=============================================================================
