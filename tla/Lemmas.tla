------------------------------- MODULE Lemmas -------------------------------
(***************************************************************************)
(* Facts the proofs of several components use: about naturals, doubly      *)
(* linked lists, the functions that walk along them, and sums over finite  *)
(* sets.  Addresses are numbers; 0 ends a list.                            *)
(***************************************************************************)
EXTENDS Integers, FiniteSetsExt, TLAPS, WellFoundedInduction, FiniteSetTheorems,
        SequenceTheorems

(* A non-empty set of naturals has a least element, and Min is it: the set  *)
(* of the intervals 0 .. x has an element that is minimal by inclusion.     *)
LEMMA MinOfNaturals ==
    ASSUME NEW S \in SUBSET Nat, S # {}
    PROVE  Min(S) \in S /\ \A y \in S : Min(S) <= y
<1> DEFINE T == { 0 .. x : x \in S }
<1>1. T \subseteq FiniteSubsetsOf(Nat) /\ T # {}
  <2>1. ASSUME NEW x \in S PROVE 0 .. x \in FiniteSubsetsOf(Nat)
    <3>1. IsFiniteSet(0 .. x)
      BY FS_Interval
    <3>2. 0 .. x \in SUBSET Nat
      OBVIOUS
    <3> QED
      BY <3>1, <3>2 DEF FiniteSubsetsOf
  <2> QED
    BY <2>1
<1>2. PICK t \in T : \A u \in T : <<u, t>> \notin StrictSubsetOrdering(Nat)
  BY <1>1, FS_StrictSubsetOrderingWellFounded, WFMin, Zenon
<1>3. PICK x \in S : t = 0 .. x
  OBVIOUS
<1>4. ASSUME NEW y \in S, y < x PROVE FALSE
  <2>1. 0 .. y \in T /\ 0 .. y \subseteq 0 .. x /\ x \notin 0 .. y /\ x \in 0 .. x
    BY <1>4
  <2>2. <<0 .. y, t>> \in StrictSubsetOrdering(Nat)
    BY <1>1, <1>3, <2>1 DEF StrictSubsetOrdering, FiniteSubsetsOf
  <2> QED
    BY <1>2, <2>1, <2>2
<1>5. \A y \in S : x <= y
  BY <1>4
<1> QED
  BY <1>5 DEF Min

(* Dividing a multiple of d plus a remainder gives the factor back. *)
LEMMA DivExact ==
    ASSUME NEW a \in Nat, NEW d \in Nat \ {0}, NEW r \in 0 .. (d - 1)
    PROVE  (a * d + r) \div d = a /\ (a * d + r) % d = r
  OBVIOUS

(* The remainder of a multiple plus something smaller than the divisor. *)
LEMMA ModExact ==
    ASSUME NEW a \in Int, NEW d \in Nat \ {0}, NEW r \in 0 .. (d - 1)
    PROVE  (a * d + r) % d = r
  OBVIOUS

(* The quotient and the remainder, for any number and for naturals. *)
LEMMA DivModType ==
    ASSUME NEW a \in Int, NEW d \in Nat \ {0}
    PROVE  /\ a \div d \in Int /\ a % d \in 0 .. (d - 1)
           /\ a = (a \div d) * d + (a % d)
           /\ a >= 0 => a \div d \in Nat
  OBVIOUS

(* A natural is its quotient times the divisor, plus its remainder. *)
LEMMA DivModNat ==
    ASSUME NEW a \in Nat, NEW d \in Nat \ {0}
    PROVE  /\ a \div d \in Nat /\ a % d \in 0 .. (d - 1)
           /\ a = (a \div d) * d + (a % d)
  OBVIOUS

(* Multiplying by a natural keeps an order. *)
LEMMA MulMono ==
    ASSUME NEW a \in Int, NEW b \in Int, NEW n \in Nat, a <= b
    PROVE  a * n <= b * n
  OBVIOUS

-----------------------------------------------------------------------------
(* Induction, with a set for the predicate. *)
LEMMA SetInduction ==
    ASSUME NEW N \in SUBSET Nat, 0 \in N, \A n \in N : n + 1 \in N
    PROVE  N = Nat
<1> SUFFICES ASSUME Nat \ N # {} PROVE FALSE
  OBVIOUS
<1>1. PICK m \in Nat \ N : \A y \in Nat \ N : m <= y
  BY MinOfNaturals
<1>2. m # 0 /\ m - 1 \in Nat
  BY <1>1
<1>3. m - 1 \in N
  BY <1>1, <1>2
<1> QED
  BY <1>1, <1>2, <1>3

(* A non-empty finite set of integers has a greatest element. *)
LEMMA MaxOfFinite ==
    ASSUME NEW S \in SUBSET Int, IsFiniteSet(S), S # {}
    PROVE  Max(S) \in S /\ \A y \in S : Max(S) >= y
<1> DEFINE Good(T) == T # {} => \E x \in T : \A y \in T : x >= y
           N == { n \in Nat : \A T \in SUBSET Int :
                     IsFiniteSet(T) /\ Cardinality(T) = n => Good(T) }
<1>1. 0 \in N
  BY FS_EmptySet
<1>2. ASSUME NEW n \in N PROVE n + 1 \in N
  <2> SUFFICES ASSUME NEW T \in SUBSET Int, IsFiniteSet(T), Cardinality(T) = n + 1, T # {}
               PROVE  \E x \in T : \A y \in T : x >= y
    OBVIOUS
  <2>1. PICK a \in T : TRUE
    OBVIOUS
  <2>2. T \ {a} \in SUBSET Int /\ IsFiniteSet(T \ {a}) /\ Cardinality(T \ {a}) = n
    <3>1. n \in Nat
      BY <1>2
    <3>2. IsFiniteSet(T \ {a}) /\ Cardinality(T \ {a}) = Cardinality(T) - 1
      BY FS_RemoveElement
    <3> QED
      BY <3>1, <3>2
  <2>3. CASE T \ {a} = {}
    BY <2>1, <2>3
  <2>4. CASE T \ {a} # {}
    <3>1. PICK b \in T \ {a} : \A y \in T \ {a} : b >= y
      BY <1>2, <2>2, <2>4
    <3>2. CASE a >= b
      <4>1. \A y \in T : a >= y
        BY <3>1, <3>2
      <4> QED
        BY <4>1
    <3>3. CASE b > a
      <4>1. \A y \in T : b >= y
        BY <3>1, <3>3
      <4> QED
        BY <4>1
    <3> QED
      BY <3>1, <3>2, <3>3
  <2> QED
    BY <2>3, <2>4
<1>3. N = Nat
  <2> HIDE DEF N
  <2>1. N \in SUBSET Nat
    BY DEF N
  <2> QED
    BY <1>1, <1>2, <2>1, SetInduction
<1>4. Cardinality(S) \in Nat
  BY FS_CardinalityType
<1>5. \E x \in S : \A y \in S : x >= y
  BY <1>3, <1>4
<1> QED
  BY <1>5 DEF Max

-----------------------------------------------------------------------------
(* Walking along a list *)

(* f is the function that follows nxt from each element of D to the end. *)
Chain(D, nxt, f) ==
    f = [a \in D \cup {0} |-> IF a = 0 THEN <<>> ELSE <<a>> \o f[nxt[a]]]

(* nxt leads upwards in the order pos, which ends at last. *)
Upward(D, nxt, pos, last) ==
    /\ 0 \notin D /\ last \in Nat
    /\ \A a \in D : /\ pos[a] \in 0 .. last
                    /\ nxt[a] \in D \cup {0}
                    /\ nxt[a] # 0 => pos[a] < pos[nxt[a]]

(* Then there is such a function. *)
LEMMA ChainExists ==
    ASSUME NEW D, NEW nxt, NEW pos, NEW last, Upward(D, nxt, pos, last)
    PROVE  \E f : Chain(D, nxt, f)
<1> DEFINE Upper(n) == { a \in D : pos[a] + n > last }
           Solves(f, n) == /\ f = [a \in Upper(n) \cup {0} |-> f[a]]
                           /\ f[0] = <<>>
                           /\ \A a \in Upper(n) : f[a] = <<a>> \o f[nxt[a]]
           N == { n \in Nat : \E f : Solves(f, n) }
<1>1. 0 \in N
  <2>1. Upper(0) = {}
    BY DEF Upward
  <2> DEFINE f == [a \in Upper(0) \cup {0} |-> <<>>]
  <2>2. Solves(f, 0)
    BY <2>1
  <2> QED
    BY <2>2
<1>2. ASSUME NEW n \in N PROVE n + 1 \in N
  <2>1. PICK f : Solves(f, n)
    BY <1>2
  <2>2. n \in Nat
    BY <1>2
  <2> DEFINE g == [a \in Upper(n + 1) \cup {0} |->
                     IF a \in Upper(n) \cup {0} THEN f[a] ELSE <<a>> \o f[nxt[a]]]
  <2>3. Upper(n) \subseteq Upper(n + 1)
    BY <2>2 DEF Upward
  <2>4. \A a \in Upper(n + 1) : a # 0 /\ nxt[a] \in Upper(n) \cup {0}
    BY <2>2 DEF Upward
  <2>5. \A a \in Upper(n) \cup {0} : g[a] = f[a]
    BY <2>3
  <2>6. g[0] = <<>>
    BY <2>1, <2>5
  <2>7. \A a \in Upper(n + 1) : g[a] = <<a>> \o f[nxt[a]]
    BY <2>1, <2>4, <2>5
  <2>8. \A a \in Upper(n + 1) : g[a] = <<a>> \o g[nxt[a]]
    BY <2>4, <2>5, <2>7
  <2>9. g = [a \in Upper(n + 1) \cup {0} |-> g[a]]
    OBVIOUS
  <2>10. Solves(g, n + 1)
    <3> HIDE DEF g
    <3> QED
      BY <2>6, <2>8, <2>9
  <2>11. \E h : Solves(h, n + 1)
    <3> HIDE DEF g, Solves
    <3> QED
      BY <2>10
  <2>12. n + 1 \in Nat
    BY <2>2
  <2> HIDE DEF g, Solves
  <2> QED
    BY <2>11, <2>12
<1>3. N = Nat
  <2> HIDE DEF N
  <2>1. N \in SUBSET Nat
    BY DEF N
  <2> QED
    BY <1>1, <1>2, <2>1, SetInduction
<1>4. last + 1 \in Nat
  BY DEF Upward
<1>5. PICK f : Solves(f, last + 1)
  BY <1>3, <1>4
<1>6. Upper(last + 1) = D
  BY DEF Upward
<1>7. f = [a \in D \cup {0} |-> f[a]]
  BY <1>5, <1>6
<1>8. \A a \in D \cup {0} : f[a] = IF a = 0 THEN <<>> ELSE <<a>> \o f[nxt[a]]
  BY <1>5, <1>6 DEF Upward
<1>9. Chain(D, nxt, f)
  BY <1>7, <1>8 DEF Chain
<1> QED
  BY <1>9

(* The elements of S are linked both ways in the order pos. *)
First(S, pos, a) ==
    IF a = 0 THEN S = {} ELSE a \in S /\ \A b \in S : pos[a] <= pos[b]

After(S, pos, a, n) ==
    IF n = 0 THEN \A b \in S : pos[b] <= pos[a]
    ELSE n \in S /\ pos[a] < pos[n] /\ \A b \in S : pos[b] <= pos[a] \/ pos[n] <= pos[b]

Before(S, pos, a, p) ==
    IF p = 0 THEN \A b \in S : pos[a] <= pos[b]
    ELSE p \in S /\ pos[p] < pos[a] /\ \A b \in S : pos[a] <= pos[b] \/ pos[b] <= pos[p]

Linked(S, pos, nxt, prv, first) ==
    /\ 0 \notin S
    /\ \A a \in S : pos[a] \in Nat
    /\ \A a, b \in S : pos[a] = pos[b] => a = b
    /\ First(S, pos, first)
    /\ \A a \in S : After(S, pos, a, nxt[a]) /\ Before(S, pos, a, prv[a])

(* s holds a and what is behind it in S, in order. *)
Listed(S, pos, nxt, a, s) ==
    /\ s \in Seq(S) /\ Len(s) > 0 /\ s[1] = a
    /\ \A i \in 1 .. Len(s) : pos[a] <= pos[s[i]]
    /\ \A i, j \in 1 .. Len(s) : i < j => pos[s[i]] < pos[s[j]]
    /\ \A i \in 1 .. Len(s) : nxt[s[i]] = IF i = Len(s) THEN 0 ELSE s[i + 1]
    /\ \A b \in S : pos[a] <= pos[b] => \E i \in 1 .. Len(s) : s[i] = b

(* A sequence with an element in front. *)
LEMMA Prefixed1 ==
    ASSUME NEW S, NEW a \in S, NEW t \in Seq(S), NEW s, s = <<a>> \o t
    PROVE  /\ s \in Seq(S) /\ Len(s) = Len(t) + 1 /\ s[1] = a
           /\ \A i \in 1 .. Len(t) : s[i + 1] = t[i]
           /\ \A i \in 2 .. Len(s) : i - 1 \in 1 .. Len(t) /\ s[i] = t[i - 1]
<1> DEFINE p == <<a>>
<1>1. p \in Seq(S) /\ Len(p) = 1 /\ p[1] = a
  OBVIOUS
<1> HIDE DEF p
<1>2. /\ p \o t \in Seq(S)
      /\ Len(p \o t) = Len(p) + Len(t)
      /\ \A i \in 1 .. Len(p) + Len(t) :
            (p \o t)[i] = IF i <= Len(p) THEN p[i] ELSE t[i - Len(p)]
  BY <1>1, ConcatProperties
<1>3. s = p \o t
  BY DEF p
<1>4. PICK n \in Nat : n = Len(t)
  OBVIOUS
<1>5. Len(s) = n + 1 /\ s \in Seq(S)
  BY <1>1, <1>2, <1>3, <1>4
<1>6. s[1] = a
  BY <1>1, <1>2, <1>3, <1>4
<1>7. \A i \in 2 .. (n + 1) : s[i] = t[i - 1]
  <2> TAKE i \in 2 .. (n + 1)
  <2>1. i \in 1 .. Len(p) + Len(t) /\ ~ i <= Len(p) /\ i - Len(p) = i - 1
    BY <1>1, <1>4
  <2> QED
    BY <1>2, <1>3, <2>1
<1>8. \A i \in 1 .. n : s[i + 1] = t[i]
  <2> TAKE i \in 1 .. n
  <2>1. i + 1 \in 2 .. (n + 1) /\ (i + 1) - 1 = i
    OBVIOUS
  <2> QED
    BY <1>7, <2>1
<1> QED
  BY <1>4, <1>5, <1>6, <1>7, <1>8

(* The list from an element is that element and the list from its           *)
(* successor.                                                               *)
LEMMA ListedStep ==
    ASSUME NEW S, NEW pos, NEW nxt, NEW prv, NEW first, Linked(S, pos, nxt, prv, first),
           NEW a \in S, NEW s, NEW t,
           \/ nxt[a] = 0 /\ t = <<>>
           \/ nxt[a] # 0 /\ Listed(S, pos, nxt, nxt[a], t),
           s = <<a>> \o t
    PROVE  Listed(S, pos, nxt, a, s)
<1>1. t \in Seq(S)
  <2>1. <<>> \in Seq(S)
    OBVIOUS
  <2> QED
    BY <2>1 DEF Listed
<1>2. PICK n \in Nat : n = Len(t)
  BY <1>1
<1>3. /\ s \in Seq(S) /\ Len(s) = n + 1 /\ s[1] = a
      /\ \A i \in 1 .. n : s[i + 1] = t[i]
      /\ \A i \in 2 .. (n + 1) : i - 1 \in 1 .. n /\ s[i] = t[i - 1]
  <2>1. /\ s \in Seq(S) /\ Len(s) = Len(t) + 1 /\ s[1] = a
        /\ \A i \in 1 .. Len(t) : s[i + 1] = t[i]
        /\ \A i \in 2 .. Len(s) : i - 1 \in 1 .. Len(t) /\ s[i] = t[i - 1]
    BY <1>1, Prefixed1
  <2> QED
    BY <1>2, <2>1
<1>4. \A i \in 1 .. n : t[i] \in S /\ pos[t[i]] \in Nat /\ pos[a] < pos[t[i]]
  <2> TAKE i \in 1 .. n
  <2>1. nxt[a] # 0 /\ Listed(S, pos, nxt, nxt[a], t)
    BY <1>2
  <2>2. t[i] \in S
    BY <1>1, <1>2
  <2>3. pos[nxt[a]] <= pos[t[i]] /\ pos[a] < pos[nxt[a]] /\ nxt[a] \in S
    BY <1>2, <2>1 DEF Listed, Linked, After
  <2>4. pos[a] \in Nat /\ pos[t[i]] \in Nat /\ pos[nxt[a]] \in Nat
    BY <2>2, <2>3 DEF Linked
  <2> QED
    BY <2>2, <2>3, <2>4
<1>5. \A i \in 1 .. (n + 1) : pos[a] <= pos[s[i]]
  <2> TAKE i \in 1 .. (n + 1)
  <2>1. CASE i = 1
    <3>1. pos[a] \in Nat
      BY DEF Linked
    <3> QED
      BY <1>3, <2>1, <3>1
  <2>2. CASE i # 1
    <3>1. i - 1 \in 1 .. n /\ s[i] = t[i - 1]
      BY <1>3, <2>2
    <3>2. pos[a] \in Nat
      BY DEF Linked
    <3>3. pos[t[i - 1]] \in Nat /\ pos[a] < pos[t[i - 1]]
      BY <1>4, <3>1
    <3>4. pos[a] <= pos[t[i - 1]]
      BY <3>2, <3>3
    <3> QED
      BY <3>1, <3>4
  <2> QED
    BY <2>1, <2>2
<1>6. \A i, j \in 1 .. (n + 1) : i < j => pos[s[i]] < pos[s[j]]
  <2> SUFFICES ASSUME NEW i \in 1 .. (n + 1), NEW j \in 1 .. (n + 1), i < j
               PROVE  pos[s[i]] < pos[s[j]]
    OBVIOUS
  <2>1. j \in 2 .. (n + 1)
    OBVIOUS
  <2>2. j - 1 \in 1 .. n /\ s[j] = t[j - 1]
    BY <1>3, <2>1
  <2>3. CASE i = 1
    BY <1>3, <1>4, <2>2, <2>3
  <2>4. CASE i # 1
    <3>1. i \in 2 .. (n + 1)
      BY <2>4
    <3>2. i - 1 \in 1 .. n /\ s[i] = t[i - 1] /\ i - 1 < j - 1
      BY <1>3, <3>1
    <3>3. Listed(S, pos, nxt, nxt[a], t)
      BY <1>2, <3>2
    <3> QED
      BY <1>2, <2>2, <3>2, <3>3 DEF Listed
  <2> QED
    BY <2>3, <2>4
<1>7. \A i \in 1 .. (n + 1) : nxt[s[i]] = IF i = n + 1 THEN 0 ELSE s[i + 1]
  <2> TAKE i \in 1 .. (n + 1)
  <2>1. CASE i = 1 /\ n = 0
    <3>1. nxt[a] = 0
      BY <1>2, <2>1 DEF Listed
    <3> QED
      BY <1>3, <2>1, <3>1
  <2>2. CASE i = 1 /\ n # 0
    <3>1. Listed(S, pos, nxt, nxt[a], t)
      BY <1>2, <2>2
    <3>2. t[1] = nxt[a]
      BY <3>1 DEF Listed
    <3> QED
      BY <1>3, <2>2, <3>2
  <2>3. CASE i # 1
    <3>1. i \in 2 .. (n + 1)
      BY <2>3
    <3>2. i - 1 \in 1 .. n /\ s[i] = t[i - 1]
      BY <1>3, <3>1
    <3>3. Listed(S, pos, nxt, nxt[a], t)
      BY <1>2, <3>2
    <3>4. nxt[t[i - 1]] = IF i - 1 = n THEN 0 ELSE t[(i - 1) + 1]
      BY <1>2, <3>2, <3>3 DEF Listed
    <3>5. CASE i = n + 1
      <4>1. i - 1 = n
        BY <3>5
      <4>2. nxt[t[i - 1]] = 0
        BY <3>4, <4>1
      <4> QED
        BY <3>2, <3>5, <4>2
    <3>6. CASE i # n + 1
      <4>1. i \in 1 .. n /\ (i - 1) + 1 = i /\ i - 1 # n
        BY <3>6
      <4>2. s[i + 1] = t[i]
        BY <1>3, <4>1
      <4> QED
        BY <3>2, <3>4, <3>6, <4>1, <4>2
    <3> QED
      BY <3>5, <3>6
  <2> QED
    BY <2>1, <2>2, <2>3
<1>8. \A b \in S : pos[a] <= pos[b] => \E i \in 1 .. (n + 1) : s[i] = b
  <2> SUFFICES ASSUME NEW b \in S, pos[a] <= pos[b]
               PROVE  \E i \in 1 .. (n + 1) : s[i] = b
    OBVIOUS
  <2>1. pos[a] \in Nat /\ pos[b] \in Nat /\ (pos[a] = pos[b] => a = b)
    BY DEF Linked
  <2>2. CASE a = b
    BY <1>3, <2>2
  <2>3. CASE a # b
    <3>1. ~ pos[b] <= pos[a]
      BY <2>1, <2>3
    <3>2. nxt[a] # 0 /\ pos[nxt[a]] <= pos[b]
      BY <3>1 DEF Linked, After
    <3>3. PICK i \in 1 .. n : t[i] = b
      BY <1>2, <3>2 DEF Listed
    <3>4. i + 1 \in 1 .. (n + 1) /\ s[i + 1] = b
      BY <1>3, <3>3
    <3> QED
      BY <3>4
  <2> QED
    BY <2>2, <2>3
<1>9. Len(s) > 0
  BY <1>3
<1> QED
  BY <1>3, <1>5, <1>6, <1>7, <1>8, <1>9 DEF Listed

(* Following a linked list, the function lists its elements in order. *)
LEMMA ChainLists ==
    ASSUME NEW D, NEW S \in SUBSET D, NEW pos, NEW nxt, NEW prv, NEW first,
           Linked(S, pos, nxt, prv, first), NEW last, Upward(D, nxt, pos, last),
           NEW f, Chain(D, nxt, f)
    PROVE  /\ f[0] = <<>>
           /\ \A a \in S : Listed(S, pos, nxt, a, f[a])
<1>1. f[0] = <<>> /\ \A a \in S : a # 0 /\ f[a] = <<a>> \o f[nxt[a]]
  BY DEF Chain, Linked
<1> DEFINE N == { n \in Nat : \A a \in S : pos[a] + n > last => Listed(S, pos, nxt, a, f[a]) }
<1>2. 0 \in N
  BY DEF Upward
<1>3. ASSUME NEW n \in N PROVE n + 1 \in N
  <2>1. n \in Nat
    BY <1>3
  <2> SUFFICES ASSUME NEW a \in S, pos[a] + (n + 1) > last
               PROVE  Listed(S, pos, nxt, a, f[a])
    BY <2>1
  <2>2. nxt[a] # 0 => Listed(S, pos, nxt, nxt[a], f[nxt[a]])
    <3> SUFFICES ASSUME nxt[a] # 0 PROVE Listed(S, pos, nxt, nxt[a], f[nxt[a]])
      OBVIOUS
    <3>1. nxt[a] \in S /\ pos[a] < pos[nxt[a]]
      BY DEF Linked, After
    <3>2. pos[nxt[a]] + n > last
      BY <2>1, <3>1 DEF Upward
    <3> QED
      BY <1>3, <3>1, <3>2
  <2>3. f[a] = <<a>> \o f[nxt[a]]
    BY <1>1
  <2> QED
    BY <1>1, <2>2, <2>3, ListedStep
<1>4. N = Nat
  <2> HIDE DEF N
  <2>1. N \in SUBSET Nat
    BY DEF N
  <2> QED
    BY <1>2, <1>3, <2>1, SetInduction
<1>5. last + 1 \in Nat /\ \A a \in S : pos[a] + (last + 1) > last
  BY DEF Upward
<1> QED
  BY <1>1, <1>4, <1>5

(* An element a goes between p and p's successor n, or in front of all      *)
(* others when p is 0.                                                      *)
Inserts(S, pos, nxt, prv, first, p, a, n, pos2, nxt2, prv2) ==
    /\ p \in S \cup {0} /\ a \notin S \cup {0}
    /\ n = IF p = 0 THEN first ELSE nxt[p]
    /\ pos2[a] \in Nat /\ \A b \in S : pos2[b] = pos[b]
    /\ p # 0 => pos[p] < pos2[a]
    /\ n # 0 => pos2[a] < pos[n]
    /\ nxt2[a] = n /\ \A b \in S : nxt2[b] = IF b = p THEN a ELSE nxt[b]
    /\ prv2[a] = p /\ \A b \in S : prv2[b] = IF b = n THEN a ELSE prv[b]

(* A doubly linked list stays one when an element goes in behind p, or at   *)
(* the front.                                                               *)
LEMMA LinkedInsert ==
    ASSUME NEW S, NEW pos, NEW nxt, NEW prv, NEW first, Linked(S, pos, nxt, prv, first),
           NEW p, NEW a, NEW n, NEW pos2, NEW nxt2, NEW prv2,
           Inserts(S, pos, nxt, prv, first, p, a, n, pos2, nxt2, prv2),
           NEW T, T = S \cup {a}, NEW first2, first2 = IF p = 0 THEN a ELSE first
    PROVE  Linked(T, pos2, nxt2, prv2, first2)
<1> SUFFICES ASSUME p \in S \cup {0}, a \notin S \cup {0},
                    n = IF p = 0 THEN first ELSE nxt[p],
                    pos2[a] \in Nat, \A b \in S : pos2[b] = pos[b],
                    p # 0 => pos[p] < pos2[a], n # 0 => pos2[a] < pos[n],
                    nxt2[a] = n, \A b \in S : nxt2[b] = IF b = p THEN a ELSE nxt[b],
                    prv2[a] = p, \A b \in S : prv2[b] = IF b = n THEN a ELSE prv[b]
             PROVE  Linked(S \cup {a}, pos2, nxt2, prv2, IF p = 0 THEN a ELSE first)
  BY DEF Inserts
<1>1. \A b \in S : b # 0 /\ pos[b] \in Nat
  BY DEF Linked
<1>2. n # 0 => n \in S
  BY DEF Linked, First, After
<1>3. \A b \in S : \/ p # 0 /\ pos[b] <= pos[p] /\ pos[b] < pos2[a]
                   \/ n # 0 /\ pos[n] <= pos[b] /\ pos2[a] < pos[b]
  <2> TAKE b \in S
  <2>1. CASE p = 0
    <3>1. n # 0 /\ pos[n] <= pos[b]
      BY <2>1 DEF Linked, First
    <3> QED
      BY <1>1, <1>2, <3>1
  <2>2. CASE p # 0
    <3>1. \/ n = 0 /\ pos[b] <= pos[p]
          \/ n # 0 /\ (pos[b] <= pos[p] \/ pos[n] <= pos[b])
      BY <2>2 DEF Linked, After
    <3> QED
      BY <1>1, <1>2, <2>2, <3>1
  <2> QED
    BY <2>1, <2>2
<1>4. 0 \notin T /\ \A b \in T : pos2[b] \in Nat
  BY <1>1
<1>5. \A b, c \in T : pos2[b] = pos2[c] => b = c
  <2>1. \A b \in S : pos2[b] # pos2[a]
    BY <1>1, <1>3
  <2> QED
    BY <2>1 DEF Linked
<1>6. First(T, pos2, IF p = 0 THEN a ELSE first)
  <2>1. CASE p = 0
    <3>1. \A b \in S : pos2[a] <= pos2[b]
      BY <1>1, <1>3, <2>1
    <3> QED
      BY <1>4, <2>1, <3>1 DEF First
  <2>2. CASE p # 0
    <3>1. first # 0 /\ first \in S /\ \A b \in S : pos[first] <= pos[b]
      BY <2>2 DEF Linked, First
    <3>2. pos[first] <= pos[p] /\ pos[first] \in Nat /\ pos[p] \in Nat
      BY <1>1, <2>2, <3>1
    <3>3. pos2[first] <= pos2[a]
      BY <2>2, <3>1, <3>2
    <3> QED
      BY <2>2, <3>1, <3>3 DEF First
  <2> QED
    BY <2>1, <2>2
<1>7. ASSUME NEW b \in T PROVE After(T, pos2, b, nxt2[b])
  <2>1. CASE b = a
    <3>1. CASE n = 0
      BY <1>1, <1>3, <1>4, <2>1, <3>1 DEF After
    <3>2. CASE n # 0
      <4>1. n \in T /\ pos2[a] < pos2[n]
        BY <1>2, <3>2
      <4>2. ASSUME NEW c \in T PROVE pos2[c] <= pos2[a] \/ pos2[n] <= pos2[c]
        <5>1. CASE c = a
          BY <1>4, <5>1
        <5>2. CASE c # a
          BY <1>1, <1>2, <1>3, <3>2, <5>2
        <5> QED
          BY <5>1, <5>2
      <4> QED
        BY <2>1, <3>2, <4>1, <4>2 DEF After
    <3> QED
      BY <3>1, <3>2
  <2>2. CASE b # a /\ b = p
    <3>1. nxt2[b] = a /\ a # 0 /\ pos2[b] < pos2[a]
      BY <1>1, <2>2
    <3>2. ASSUME NEW c \in T PROVE pos2[c] <= pos2[b] \/ pos2[a] <= pos2[c]
      <4>1. CASE c = a
        BY <1>4, <4>1
      <4>2. CASE c # a
        BY <1>1, <1>3, <2>2, <4>2
      <4> QED
        BY <4>1, <4>2
    <3> QED
      BY <3>1, <3>2 DEF After
  <2>3. CASE b # a /\ b # p
    <3>1. b \in S /\ nxt2[b] = nxt[b] /\ After(S, pos, b, nxt[b])
      BY <2>3 DEF Linked
    <3>2. CASE nxt[b] = 0
      <4>1. \A c \in S : pos[c] <= pos[b]
        BY <3>1, <3>2 DEF After
      <4>2. pos2[a] < pos[b]
        <5>1. CASE p # 0 /\ pos[b] <= pos[p]
          <6>1. p \in S /\ pos[p] <= pos[b] /\ pos[p] \in Nat /\ pos[b] \in Nat
            BY <1>1, <3>1, <4>1, <5>1
          <6>2. pos[p] = pos[b]
            BY <5>1, <6>1
          <6> QED
            BY <2>3, <3>1, <6>1, <6>2 DEF Linked
        <5> QED
          BY <1>3, <3>1, <5>1
      <4>3. pos2[a] <= pos2[b]
        BY <1>4, <3>1, <4>2
      <4> QED
        BY <3>1, <3>2, <4>1, <4>3 DEF After
    <3>3. CASE nxt[b] # 0
      <4>1. /\ nxt[b] \in S /\ pos[b] < pos[nxt[b]]
            /\ \A c \in S : pos[c] <= pos[b] \/ pos[nxt[b]] <= pos[c]
        BY <3>1, <3>3 DEF After
      <4>2. pos2[a] <= pos2[b] \/ pos2[nxt[b]] <= pos2[a]
        <5>1. CASE n # 0 /\ pos[n] <= pos[b] /\ pos2[a] < pos[b]
          BY <1>4, <3>1, <5>1
        <5>2. CASE p # 0 /\ pos[b] <= pos[p] /\ pos[b] < pos2[a]
          <6>1. p \in S /\ pos[p] \in Nat /\ pos[b] \in Nat /\ pos[p] # pos[b]
            BY <1>1, <2>3, <3>1, <5>2 DEF Linked
          <6>2. pos[nxt[b]] <= pos[p] /\ pos[nxt[b]] \in Nat
            BY <1>1, <4>1, <5>2, <6>1
          <6>3. pos[nxt[b]] <= pos2[a]
            BY <1>4, <5>2, <6>1, <6>2
          <6> QED
            BY <4>1, <6>3
        <5> QED
          BY <1>3, <3>1, <5>1, <5>2
      <4> QED
        BY <3>1, <3>3, <4>1, <4>2 DEF After
    <3> QED
      BY <3>2, <3>3
  <2> QED
    BY <2>1, <2>2, <2>3
<1>8. ASSUME NEW b \in T PROVE Before(T, pos2, b, prv2[b])
  <2>1. CASE b = a
    <3>1. CASE p = 0
      BY <1>1, <1>3, <1>4, <2>1, <3>1 DEF Before
    <3>2. CASE p # 0
      <4>1. p \in T /\ pos2[p] < pos2[a]
        BY <3>2
      <4>2. ASSUME NEW c \in T PROVE pos2[a] <= pos2[c] \/ pos2[c] <= pos2[p]
        <5>1. CASE c = a
          BY <1>4, <5>1
        <5>2. CASE c # a
          BY <1>1, <1>3, <3>2, <5>2
        <5> QED
          BY <5>1, <5>2
      <4> QED
        BY <2>1, <3>2, <4>1, <4>2 DEF Before
    <3> QED
      BY <3>1, <3>2
  <2>2. CASE b # a /\ b = n
    <3>1. prv2[b] = a /\ a # 0 /\ pos2[a] < pos2[b]
      BY <1>1, <2>2
    <3>2. ASSUME NEW c \in T PROVE pos2[b] <= pos2[c] \/ pos2[c] <= pos2[a]
      <4>1. CASE c = a
        BY <1>4, <4>1
      <4>2. CASE c # a
        BY <1>1, <1>3, <2>2, <4>2
      <4> QED
        BY <4>1, <4>2
    <3> QED
      BY <3>1, <3>2 DEF Before
  <2>3. CASE b # a /\ b # n
    <3>1. b \in S /\ prv2[b] = prv[b] /\ Before(S, pos, b, prv[b])
      BY <2>3 DEF Linked
    <3>2. CASE prv[b] = 0
      <4>1. \A c \in S : pos[b] <= pos[c]
        BY <3>1, <3>2 DEF Before
      <4>2. pos[b] < pos2[a]
        <5>1. CASE n # 0 /\ pos[n] <= pos[b]
          <6>1. n \in S /\ pos[b] <= pos[n] /\ pos[n] \in Nat /\ pos[b] \in Nat
            BY <1>1, <1>2, <3>1, <4>1, <5>1
          <6>2. pos[n] = pos[b]
            BY <5>1, <6>1
          <6> QED
            BY <2>3, <3>1, <6>1, <6>2 DEF Linked
        <5> QED
          BY <1>3, <3>1, <5>1
      <4>3. pos2[b] <= pos2[a]
        BY <1>4, <3>1, <4>2
      <4> QED
        BY <3>1, <3>2, <4>1, <4>3 DEF Before
    <3>3. CASE prv[b] # 0
      <4>1. /\ prv[b] \in S /\ pos[prv[b]] < pos[b]
            /\ \A c \in S : pos[b] <= pos[c] \/ pos[c] <= pos[prv[b]]
        BY <3>1, <3>3 DEF Before
      <4>2. pos2[b] <= pos2[a] \/ pos2[a] <= pos2[prv[b]]
        <5>1. CASE p # 0 /\ pos[b] <= pos[p] /\ pos[b] < pos2[a]
          BY <1>4, <3>1, <5>1
        <5>2. CASE n # 0 /\ pos[n] <= pos[b] /\ pos2[a] < pos[b]
          <6>1. n \in S /\ pos[n] \in Nat /\ pos[b] \in Nat /\ pos[n] # pos[b]
            BY <1>1, <1>2, <2>3, <3>1, <5>2 DEF Linked
          <6>2. pos[n] <= pos[prv[b]] /\ pos[prv[b]] \in Nat
            BY <1>1, <4>1, <5>2, <6>1
          <6>3. pos2[a] <= pos[prv[b]]
            BY <1>4, <5>2, <6>1, <6>2
          <6> QED
            BY <4>1, <6>3
        <5> QED
          BY <1>3, <3>1, <5>1, <5>2
      <4> QED
        BY <3>1, <3>3, <4>1, <4>2 DEF Before
    <3> QED
      BY <3>2, <3>3
  <2> QED
    BY <2>1, <2>2, <2>3
<1> QED
  BY <1>4, <1>5, <1>6, <1>7, <1>8 DEF Linked

(* An element a goes; its neighbours are linked to each other. *)
Removes(S, nxt, prv, a, nxt2, prv2) ==
    /\ a \in S
    /\ \A b \in S \ {a} : nxt2[b] = IF b = prv[a] THEN nxt[a] ELSE nxt[b]
    /\ \A b \in S \ {a} : prv2[b] = IF b = nxt[a] THEN prv[a] ELSE prv[b]

(* A doubly linked list stays one when an element is taken out. *)
LEMMA LinkedRemove ==
    ASSUME NEW S, NEW pos, NEW nxt, NEW prv, NEW first, Linked(S, pos, nxt, prv, first),
           NEW a, NEW nxt2, NEW prv2, Removes(S, nxt, prv, a, nxt2, prv2),
           NEW T, T = S \ {a}, NEW first2, first2 = IF prv[a] = 0 THEN nxt[a] ELSE first
    PROVE  /\ Linked(T, pos, nxt2, prv2, first2)
           /\ prv[a] = 0 <=> first = a
<1> SUFFICES ASSUME a \in S,
                    \A b \in S \ {a} : nxt2[b] = IF b = prv[a] THEN nxt[a] ELSE nxt[b],
                    \A b \in S \ {a} : prv2[b] = IF b = nxt[a] THEN prv[a] ELSE prv[b]
             PROVE  /\ Linked(S \ {a}, pos, nxt2, prv2, IF prv[a] = 0 THEN nxt[a] ELSE first)
                    /\ prv[a] = 0 <=> first = a
  BY DEF Removes
<1>1. \A b \in S : b # 0 /\ pos[b] \in Nat
  BY DEF Linked
<1>2. After(S, pos, a, nxt[a]) /\ Before(S, pos, a, prv[a])
  BY DEF Linked
<1>3. \A b \in S \ {a} : pos[b] # pos[a]
  BY DEF Linked
<1>4. \A b \in S \ {a} : pos[b] > pos[a] => nxt[a] # 0 /\ nxt[a] \in S /\ pos[nxt[a]] <= pos[b]
  BY <1>1, <1>2 DEF After
<1>5. \A b \in S \ {a} : pos[b] < pos[a] => prv[a] # 0 /\ prv[a] \in S /\ pos[b] <= pos[prv[a]]
  BY <1>1, <1>2 DEF Before
<1>6. nxt[a] # 0 => nxt[a] \in S \ {a} /\ pos[a] < pos[nxt[a]]
  BY <1>1, <1>2 DEF After
<1>7. prv[a] # 0 => prv[a] \in S \ {a} /\ pos[prv[a]] < pos[a]
  BY <1>1, <1>2 DEF Before
<1>8. first # 0 /\ first \in S /\ \A b \in S : pos[first] <= pos[b]
  BY DEF Linked, First
<1>9. prv[a] = 0 <=> first = a
  <2>1. ASSUME prv[a] = 0, first # a PROVE FALSE
    <3>1. pos[first] < pos[a]
      BY <1>1, <1>3, <1>8, <2>1
    <3> QED
      BY <1>5, <1>8, <2>1, <3>1
  <2>2. ASSUME prv[a] # 0, first = a PROVE FALSE
    BY <1>1, <1>7, <1>8, <2>2
  <2> QED
    BY <2>1, <2>2
<1>10. First(S \ {a}, pos, IF prv[a] = 0 THEN nxt[a] ELSE first)
  <2>1. CASE prv[a] # 0
    BY <1>8, <1>9, <2>1 DEF First
  <2>2. CASE prv[a] = 0
    <3>1. \A b \in S \ {a} : pos[b] > pos[a]
      BY <1>1, <1>3, <1>8, <1>9, <2>2
    <3> QED
      BY <1>4, <1>6, <2>2, <3>1 DEF First
  <2> QED
    BY <2>1, <2>2
<1>11. ASSUME NEW b \in S \ {a} PROVE After(S \ {a}, pos, b, nxt2[b])
  <2>1. CASE b = prv[a]
    <3>1. nxt2[b] = nxt[a]
      BY <2>1
    <3>2. CASE nxt[a] = 0
      <4>1. \A c \in S \ {a} : pos[c] < pos[a]
        BY <1>1, <1>3, <1>4, <3>2
      <4> QED
        BY <1>5, <2>1, <3>1, <3>2, <4>1 DEF After
    <3>3. CASE nxt[a] # 0
      <4>1. \A c \in S \ {a} : pos[c] <= pos[b] \/ pos[nxt[a]] <= pos[c]
        BY <1>1, <1>3, <1>4, <1>5, <2>1
      <4>2. pos[b] < pos[nxt[a]]
        BY <1>1, <1>6, <1>7, <2>1, <3>3
      <4> QED
        BY <1>6, <3>1, <3>3, <4>1, <4>2 DEF After
    <3> QED
      BY <3>2, <3>3
  <2>2. CASE b # prv[a]
    <3>1. nxt2[b] = nxt[b] /\ After(S, pos, b, nxt[b])
      BY <2>2 DEF Linked
    <3>2. nxt[b] # a
      <4> SUFFICES ASSUME nxt[b] = a PROVE FALSE
        OBVIOUS
      <4>1. a # 0 /\ pos[b] < pos[a] /\ \A c \in S : pos[c] <= pos[b] \/ pos[a] <= pos[c]
        BY <1>1, <3>1 DEF After
      <4>2. prv[a] \in S \ {a} /\ pos[b] <= pos[prv[a]] /\ pos[prv[a]] < pos[a]
        BY <1>5, <1>7, <4>1
      <4>3. pos[prv[a]] <= pos[b]
        BY <1>1, <4>1, <4>2
      <4>4. pos[prv[a]] = pos[b]
        BY <1>1, <4>2, <4>3
      <4> QED
        BY <2>2, <4>2, <4>4 DEF Linked
    <3> QED
      BY <3>1, <3>2 DEF After
  <2> QED
    BY <2>1, <2>2
<1>12. ASSUME NEW b \in S \ {a} PROVE Before(S \ {a}, pos, b, prv2[b])
  <2>1. CASE b = nxt[a]
    <3>1. prv2[b] = prv[a]
      BY <2>1
    <3>2. CASE prv[a] = 0
      <4>1. \A c \in S \ {a} : pos[a] < pos[c]
        BY <1>1, <1>3, <1>5, <3>2
      <4> QED
        BY <1>4, <2>1, <3>1, <3>2, <4>1 DEF Before
    <3>3. CASE prv[a] # 0
      <4>1. \A c \in S \ {a} : pos[b] <= pos[c] \/ pos[c] <= pos[prv[a]]
        BY <1>1, <1>3, <1>4, <1>5, <2>1
      <4>2. pos[prv[a]] < pos[b]
        BY <1>1, <1>6, <1>7, <2>1, <3>3
      <4> QED
        BY <1>7, <3>1, <3>3, <4>1, <4>2 DEF Before
    <3> QED
      BY <3>2, <3>3
  <2>2. CASE b # nxt[a]
    <3>1. prv2[b] = prv[b] /\ Before(S, pos, b, prv[b])
      BY <2>2 DEF Linked
    <3>2. prv[b] # a
      <4> SUFFICES ASSUME prv[b] = a PROVE FALSE
        OBVIOUS
      <4>1. a # 0 /\ pos[a] < pos[b] /\ \A c \in S : pos[b] <= pos[c] \/ pos[c] <= pos[a]
        BY <1>1, <3>1 DEF Before
      <4>2. nxt[a] \in S \ {a} /\ pos[nxt[a]] <= pos[b] /\ pos[a] < pos[nxt[a]]
        BY <1>1, <1>4, <1>6, <4>1
      <4>3. pos[b] <= pos[nxt[a]]
        BY <1>1, <4>1, <4>2
      <4>4. pos[nxt[a]] = pos[b]
        BY <1>1, <4>2, <4>3
      <4> QED
        BY <2>2, <4>2, <4>4 DEF Linked
    <3> QED
      BY <3>1, <3>2 DEF Before
  <2> QED
    BY <2>1, <2>2
<1> QED
  BY <1>1, <1>9, <1>10, <1>11, <1>12 DEF Linked


(* What the walk from the head of a list returns: every element once, each  *)
(* behind the one its back link names.                                      *)
LEMMA ListedWhole ==
    ASSUME NEW S, NEW pos, NEW nxt, NEW prv, NEW first, Linked(S, pos, nxt, prv, first),
           first # 0, NEW s, Listed(S, pos, nxt, first, s)
    PROVE  /\ S = { s[i] : i \in 1 .. Len(s) }
           /\ IsFiniteSet(S) /\ Len(s) = Cardinality(S)
           /\ \A i \in 1 .. Len(s) : prv[s[i]] = IF i = 1 THEN 0 ELSE s[i - 1]
<1>1. PICK n \in Nat : n = Len(s) /\ n > 0 /\ 1 .. n = DOMAIN s
  BY DEF Listed
<1>2. \A i \in 1 .. n : s[i] \in S /\ pos[s[i]] \in Nat
  BY <1>1 DEF Listed, Linked
<1>3. \A i, j \in 1 .. n : i < j => pos[s[i]] < pos[s[j]]
  BY <1>1 DEF Listed
<1>4. \A b \in S : \E i \in 1 .. n : s[i] = b
  <2>1. \A b \in S : pos[first] <= pos[b]
    BY DEF Linked, First
  <2> QED
    BY <1>1, <2>1 DEF Listed
<1>5. S = { s[i] : i \in 1 .. n }
  BY <1>2, <1>4
<1>6. IsFiniteSet(S) /\ n = Cardinality(S)
  <2>1. s \in [1 .. n -> S]
    BY <1>1 DEF Listed
  <2>2. ASSUME NEW i \in 1 .. n, NEW j \in 1 .. n, i # j PROVE s[i] # s[j]
    <3>1. CASE i < j
      BY <1>2, <1>3, <3>1
    <3>2. CASE j < i
      BY <1>2, <1>3, <3>2
    <3> QED
      BY <2>2, <3>1, <3>2
  <2>3. s \in Bijection(1 .. n, S)
    BY <1>4, <2>1, <2>2 DEF Bijection, Injection, Surjection, IsInjective
  <2>4. ExistsBijection(1 .. n, S)
    BY <2>3 DEF ExistsBijection
  <2> QED
    BY <1>1, <2>4, FS_CountingElements, FS_NatBijection
<1>7. ASSUME NEW i \in 1 .. n PROVE prv[s[i]] = IF i = 1 THEN 0 ELSE s[i - 1]
  <2>1. Before(S, pos, s[i], prv[s[i]])
    BY <1>2 DEF Linked
  <2>2. CASE i = 1
    <3>1. \A b \in S : ~ pos[b] < pos[s[1]]
      BY <1>1, <1>2 DEF Linked, First, Listed
    <3> QED
      BY <2>1, <2>2, <3>1 DEF Before
  <2>3. CASE i # 1
    <3>1. i - 1 \in 1 .. n /\ i - 1 < i
      BY <1>1, <2>3
    <3>2. pos[s[i - 1]] < pos[s[i]] /\ s[i - 1] \in S
      BY <1>2, <1>3, <3>1
    <3>3. prv[s[i]] # 0 /\ prv[s[i]] \in S /\ pos[prv[s[i]]] < pos[s[i]]
          /\ pos[s[i - 1]] <= pos[prv[s[i]]]
      BY <1>2, <2>1, <3>1, <3>2 DEF Before
    <3>4. PICK j \in 1 .. n : s[j] = prv[s[i]]
      BY <1>4, <3>3
    <3>5. ~ i <= j
      BY <1>2, <1>3, <3>3, <3>4
    <3>6. ~ i - 1 < j => j = i - 1
      <4> SUFFICES ASSUME j < i - 1 PROVE FALSE
        BY <3>1, <3>5
      <4>1. pos[s[j]] < pos[s[i - 1]]
        BY <1>3, <3>1
      <4> QED
        BY <1>2, <3>1, <3>3, <3>4, <4>1
    <3>7. j = i - 1
      BY <3>5, <3>6
    <3> QED
      BY <2>3, <3>4, <3>7
  <2> QED
    BY <2>2, <2>3
<1> QED
  BY <1>1, <1>5, <1>6, <1>7

(* Only the links of the elements count. *)
LEMMA LinkedSame ==
    ASSUME NEW S, NEW pos, NEW nxt, NEW prv, NEW first, Linked(S, pos, nxt, prv, first),
           NEW pos2, \A b \in S : pos2[b] = pos[b],
           NEW nxt2, \A b \in S : nxt2[b] = nxt[b], NEW prv2, \A b \in S : prv2[b] = prv[b]
    PROVE  Linked(S, pos2, nxt2, prv2, first)
<1>1. First(S, pos2, first)
  BY DEF Linked, First
<1>2. ASSUME NEW a \in S PROVE After(S, pos2, a, nxt2[a])
  BY DEF Linked, After
<1>3. ASSUME NEW a \in S PROVE Before(S, pos2, a, prv2[a])
  BY DEF Linked, Before
<1> QED
  BY <1>1, <1>2, <1>3 DEF Linked

-----------------------------------------------------------------------------
(* Sums over finite sets *)

SumOf(g, S) == MapThenSumSet(LAMBDA a : g[a], S)

(* it is the function by which MapThenSumSet adds up the values of g. *)
SumIter(g, S, it) ==
    it = [s \in SUBSET S |->
            IF s = {} THEN 0
            ELSE g[CHOOSE x \in s : TRUE] + it[s \ {CHOOSE x \in s : TRUE}]]

(* There is such a function. *)
LEMMA SumIterExists ==
    ASSUME NEW g, NEW S, IsFiniteSet(S)
    PROVE  \E it : SumIter(g, S, it)
<1> DEFINE c(s) == CHOOSE x \in s : TRUE
           Small(n) == { s \in SUBSET S : Cardinality(s) <= n }
           Solves(it, n) == \A s \in Small(n) :
                               it[s] = IF s = {} THEN 0 ELSE g[c(s)] + it[s \ {c(s)}]
           N == { n \in Nat : \E it : Solves(it, n) }
<1>1. \A s \in SUBSET S : IsFiniteSet(s) /\ Cardinality(s) \in Nat
  BY FS_Subset, FS_CardinalityType
<1>2. ASSUME NEW n \in Nat, NEW s \in Small(n + 1), s # {} PROVE s \ {c(s)} \in Small(n)
  <2>1. c(s) \in s
    BY <1>2
  <2>2. Cardinality(s \ {c(s)}) = Cardinality(s) - 1
    BY <1>1, <2>1, FS_RemoveElement
  <2> QED
    BY <1>1, <1>2, <2>2
<1>3. 0 \in N
  <2> DEFINE it == [s \in SUBSET S |-> 0]
  <2>1. \A s \in Small(0) : s = {}
    BY <1>1, FS_EmptySet
  <2>2. {} \in SUBSET S /\ it[{}] = 0
    OBVIOUS
  <2>3. Solves(it, 0)
    BY <2>1, <2>2
  <2>4. \E jt : Solves(jt, 0)
    <3> HIDE DEF it, Solves
    <3> QED
      BY <2>3
  <2> HIDE DEF it, Solves
  <2> QED
    BY <2>4
<1>4. ASSUME NEW n \in N PROVE n + 1 \in N
  <2>1. n \in Nat
    BY <1>4
  <2>2. PICK it : Solves(it, n)
    BY <1>4
  <2> DEFINE jt == [s \in SUBSET S |->
                      IF s \in Small(n) THEN it[s] ELSE g[c(s)] + it[s \ {c(s)}]]
  <2>3. \A s \in Small(n) : jt[s] = it[s] /\ s \in Small(n + 1)
    <3> HIDE DEF c
    <3> QED
      BY <1>1, <2>1
  <2>4. ASSUME NEW s \in Small(n + 1) PROVE jt[s] = IF s = {} THEN 0 ELSE g[c(s)] + jt[s \ {c(s)}]
    <3>1. CASE s = {}
      <4>1. s \in Small(n)
        BY <2>1, <3>1, FS_EmptySet
      <4> QED
        BY <2>2, <2>3, <3>1, <4>1
    <3>2. CASE s # {} /\ s \in Small(n)
      <4>1. jt[s] = g[c(s)] + it[s \ {c(s)}]
        <5> HIDE DEF jt, c, Small
        <5> QED
          BY <2>2, <2>3, <3>2
      <4>2. s \ {c(s)} \in Small(n)
        BY <1>2, <2>1, <3>2, <2>3
      <4>3. jt[s \ {c(s)}] = it[s \ {c(s)}]
        <5> HIDE DEF jt, c, Small
        <5> QED
          BY <2>3, <4>2
      <4> HIDE DEF jt, c, Small
      <4> QED
        BY <3>2, <4>1, <4>3
    <3>3. CASE s # {} /\ s \notin Small(n)
      <4>1. jt[s] = g[c(s)] + it[s \ {c(s)}]
        <5> HIDE DEF c
        <5> QED
          BY <3>3
      <4>2. s \ {c(s)} \in Small(n)
        BY <1>2, <2>1, <3>3
      <4>3. jt[s \ {c(s)}] = it[s \ {c(s)}]
        <5> HIDE DEF jt, c, Small
        <5> QED
          BY <2>3, <4>2
      <4> HIDE DEF jt, c, Small
      <4> QED
        BY <3>3, <4>1, <4>3
    <3> QED
      BY <3>1, <3>2, <3>3
  <2>5. Solves(jt, n + 1)
    <3> HIDE DEF jt, c, Small
    <3> QED
      BY <2>4
  <2>6. \E h : Solves(h, n + 1)
    <3> HIDE DEF jt, Solves
    <3> QED
      BY <2>5
  <2> HIDE DEF jt, Solves
  <2> QED
    BY <2>1, <2>6
<1>5. N = Nat
  <2> HIDE DEF N
  <2>1. N \in SUBSET Nat
    BY DEF N
  <2> QED
    BY <1>3, <1>4, <2>1, SetInduction
<1>6. PICK k \in Nat : k = Cardinality(S)
  BY <1>1
<1>7. PICK it : Solves(it, k)
  <2> HIDE DEF Solves
  <2> QED
    BY <1>5
<1>8. \A s \in SUBSET S : s \in Small(k)
  BY <1>6, FS_Subset
<1> DEFINE jt == [s \in SUBSET S |-> it[s]]
<1>9. \A s \in SUBSET S : jt[s] = IF s = {} THEN 0 ELSE g[c(s)] + jt[s \ {c(s)}]
  <2> TAKE s \in SUBSET S
  <2>1. it[s] = IF s = {} THEN 0 ELSE g[c(s)] + it[s \ {c(s)}]
    <3> HIDE DEF c, Small
    <3> QED
      BY <1>7, <1>8
  <2>2. jt[s] = it[s] /\ jt[s \ {c(s)}] = it[s \ {c(s)}]
    <3> HIDE DEF c
    <3> QED
      OBVIOUS
  <2> QED
    BY <2>1, <2>2
<1>10. jt = [s \in SUBSET S |-> IF s = {} THEN 0 ELSE g[c(s)] + jt[s \ {c(s)}]]
  <2>1. jt = [s \in SUBSET S |-> jt[s]]
    OBVIOUS
  <2> HIDE DEF jt, c
  <2> QED
    BY <1>9, <2>1
<1>11. SumIter(g, S, jt)
  <2> HIDE DEF jt
  <2> QED
    BY <1>10 DEF SumIter
<1> QED
  BY <1>11

(* So that is what MapThenSumSet is. *)
LEMMA SumIsIter ==
    ASSUME NEW g, NEW S, IsFiniteSet(S)
    PROVE  \E it : SumIter(g, S, it) /\ SumOf(g, S) = it[S]
<1> DEFINE f == CHOOSE f : SumIter(g, S, f)
<1>1. SumIter(g, S, f)
  BY SumIterExists, Zenon
<1>2. MapThenSumSet(LAMBDA a : g[a], S) = f[S]
  BY Zenon DEF MapThenSumSet, MapThenFoldSet, SumIter
<1> HIDE DEF f
<1> QED
  BY <1>1, <1>2 DEF SumOf


(* The elements can be added up in any order. *)
LEMMA SumIterAnyOrder ==
    ASSUME NEW g, NEW S, IsFiniteSet(S), \A x \in S : g[x] \in Int,
           NEW it, SumIter(g, S, it)
    PROVE  \A T \in SUBSET S : /\ it[T] \in Int
                               /\ \A x \in T : it[T] = g[x] + it[T \ {x}]
<1> DEFINE c(s) == CHOOSE x \in s : TRUE
           Good(T) == it[T] \in Int /\ \A x \in T : it[T] = g[x] + it[T \ {x}]
           N == { n \in Nat : \A T \in SUBSET S : Cardinality(T) <= n => Good(T) }
<1>1. it[{}] = 0 /\ \A T \in SUBSET S : T # {} => c(T) \in T /\ it[T] = g[c(T)] + it[T \ {c(T)}]
  BY DEF SumIter
<1>2. \A T \in SUBSET S : /\ IsFiniteSet(T) /\ Cardinality(T) \in Nat
                          /\ \A x \in T : Cardinality(T \ {x}) = Cardinality(T) - 1
  BY FS_Subset, FS_CardinalityType, FS_RemoveElement
<1> HIDE DEF c
<1>3. 0 \in N
  <2>1. \A T \in SUBSET S : Cardinality(T) <= 0 => T = {}
    BY <1>2, FS_EmptySet
  <2>2. Good({})
    BY <1>1
  <2> HIDE DEF Good
  <2> QED
    BY <2>1, <2>2
<1>4. ASSUME NEW n \in N PROVE n + 1 \in N
  <2>1. n \in Nat
    BY <1>4
  <2> SUFFICES ASSUME NEW T \in SUBSET S, Cardinality(T) <= n + 1
               PROVE  Good(T)
    BY <2>1
  <2>2. CASE T = {}
    BY <1>1, <2>2
  <2>3. CASE T # {}
    <3>1. \A x \in T : T \ {x} \in SUBSET S /\ Good(T \ {x})
      <4> TAKE x \in T
      <4>1. T \ {x} \in SUBSET S /\ Cardinality(T \ {x}) <= n
        BY <1>2, <2>1
      <4> QED
        BY <1>4, <4>1
    <3>2. PICK d \in T : d = c(T)
      BY <1>1, <2>3
    <3>3. it[T] = g[d] + it[T \ {d}] /\ g[d] \in Int
      BY <1>1, <2>3, <3>2
    <3>4. it[T] \in Int
      BY <3>1, <3>3
    <3>5. ASSUME NEW x \in T PROVE it[T] = g[x] + it[T \ {x}]
      <4>1. CASE x = d
        BY <3>3, <4>1
      <4>2. CASE x # d
        <5>1. it[T \ {d}] = g[x] + it[(T \ {d}) \ {x}]
          BY <3>1, <4>2
        <5>2. it[T \ {x}] = g[d] + it[(T \ {x}) \ {d}]
          BY <3>1, <4>2
        <5>3. (T \ {d}) \ {x} = (T \ {x}) \ {d}
          OBVIOUS
        <5>4. g[x] \in Int /\ it[T \ {x}] \in Int /\ it[T \ {d}] \in Int
          BY <3>1
        <5>5. it[(T \ {x}) \ {d}] \in Int
          <6>1. T \ {x} \in SUBSET S /\ (T \ {x}) \ {d} \in SUBSET S /\ d \in T \ {x}
            BY <4>2
          <6>2. Cardinality(T \ {x}) = Cardinality(T) - 1 /\ Cardinality(T) \in Nat
            BY <1>2
          <6>3. Cardinality((T \ {x}) \ {d}) = Cardinality(T \ {x}) - 1
            BY <1>2, <6>1
          <6>4. Cardinality((T \ {x}) \ {d}) <= n
            BY <2>1, <6>2, <6>3
          <6> QED
            BY <1>4, <6>1, <6>4
        <5>6. PICK r \in Int : r = it[(T \ {x}) \ {d}]
          BY <5>5
        <5>7. it[T \ {d}] = g[x] + r /\ it[T \ {x}] = g[d] + r
          BY <5>1, <5>2, <5>3, <5>6
        <5>8. it[T] = g[d] + (g[x] + r)
          BY <3>3, <5>7
        <5>9. g[d] + (g[x] + r) = g[x] + (g[d] + r)
          BY <3>3, <5>4
        <5> QED
          BY <5>7, <5>8, <5>9
      <4> QED
        BY <4>1, <4>2
    <3> QED
      BY <3>4, <3>5
  <2> QED
    BY <2>2, <2>3
<1>5. N = Nat
  <2> HIDE DEF N
  <2>1. N \in SUBSET Nat
    BY DEF N
  <2> QED
    BY <1>3, <1>4, <2>1, SetInduction
<1> QED
  BY <1>2, <1>5

(* The sum depends only on the values at the elements. *)
LEMMA SumIterSame ==
    ASSUME NEW g, NEW h, NEW S, NEW U, IsFiniteSet(S),
           NEW it, SumIter(g, S, it), NEW jt, SumIter(h, U, jt)
    PROVE  \A T \in SUBSET S : T \subseteq U /\ (\A x \in T : g[x] = h[x]) => it[T] = jt[T]
<1> DEFINE c(s) == CHOOSE x \in s : TRUE
           Good(T) == T \subseteq U /\ (\A x \in T : g[x] = h[x]) => it[T] = jt[T]
           N == { n \in Nat : \A T \in SUBSET S : Cardinality(T) <= n => Good(T) }
<1>1. it[{}] = 0 /\ \A T \in SUBSET S : T # {} => c(T) \in T /\ it[T] = g[c(T)] + it[T \ {c(T)}]
  BY DEF SumIter
<1>2. jt[{}] = 0 /\ \A T \in SUBSET U : T # {} => c(T) \in T /\ jt[T] = h[c(T)] + jt[T \ {c(T)}]
  BY DEF SumIter
<1>3. \A T \in SUBSET S : /\ IsFiniteSet(T) /\ Cardinality(T) \in Nat
                          /\ \A x \in T : Cardinality(T \ {x}) = Cardinality(T) - 1
  BY FS_Subset, FS_CardinalityType, FS_RemoveElement
<1> HIDE DEF c
<1>4. 0 \in N
  <2>1. \A T \in SUBSET S : Cardinality(T) <= 0 => T = {}
    BY <1>3, FS_EmptySet
  <2> QED
    BY <1>1, <1>2, <2>1
<1>5. ASSUME NEW n \in N PROVE n + 1 \in N
  <2>1. n \in Nat
    BY <1>5
  <2> SUFFICES ASSUME NEW T \in SUBSET S, Cardinality(T) <= n + 1,
                      T \subseteq U, \A x \in T : g[x] = h[x]
               PROVE  it[T] = jt[T]
    BY <2>1
  <2>2. CASE T = {}
    BY <1>1, <1>2, <2>2
  <2>3. CASE T # {}
    <3>1. PICK d \in T : d = c(T)
      BY <1>1, <2>3
    <3>2. it[T] = g[d] + it[T \ {d}] /\ jt[T] = g[d] + jt[T \ {d}]
      BY <1>1, <1>2, <2>3, <3>1
    <3>3. T \ {d} \in SUBSET S /\ Cardinality(T \ {d}) <= n
      BY <1>3, <2>1
    <3>4. it[T \ {d}] = jt[T \ {d}]
      BY <1>5, <3>3
    <3> QED
      BY <3>2, <3>4
  <2> QED
    BY <2>2, <2>3
<1>6. N = Nat
  <2> HIDE DEF N
  <2>1. N \in SUBSET Nat
    BY DEF N
  <2> QED
    BY <1>4, <1>5, <2>1, SetInduction
<1> QED
  BY <1>3, <1>6

(* The sum of nothing, of equal values, with one more element, of naturals. *)
LEMMA SumEmpty ==
    ASSUME NEW g
    PROVE  SumOf(g, {}) = 0
<1>1. IsFiniteSet({})
  BY FS_EmptySet
<1>2. PICK it : SumIter(g, {}, it) /\ SumOf(g, {}) = it[{}]
  BY <1>1, SumIsIter
<1>3. it[{}] = 0
  BY <1>2 DEF SumIter
<1> QED
  BY <1>2, <1>3

(* Equal summands, equal sums. *)
LEMMA SumSame ==
    ASSUME NEW g, NEW h, NEW S, IsFiniteSet(S), \A x \in S : g[x] = h[x]
    PROVE  SumOf(g, S) = SumOf(h, S)
<1>1. PICK it : SumIter(g, S, it) /\ SumOf(g, S) = it[S]
  BY SumIsIter
<1>2. PICK jt : SumIter(h, S, jt) /\ SumOf(h, S) = jt[S]
  BY SumIsIter
<1>3. \A T \in SUBSET S : T \subseteq S /\ (\A x \in T : g[x] = h[x]) => it[T] = jt[T]
  BY <1>1, <1>2, SumIterSame
<1>4. it[S] = jt[S]
  BY <1>3
<1> QED
  BY <1>1, <1>2, <1>4

(* A sum over one more element, the other summands unchanged. *)
LEMMA SumAdd ==
    ASSUME NEW g, NEW S, IsFiniteSet(S), \A x \in S : g[x] \in Int,
           NEW h, NEW a, a \notin S, h[a] \in Int, \A x \in S : h[x] = g[x]
    PROVE  SumOf(h, S \cup {a}) = SumOf(g, S) + h[a] /\ SumOf(g, S) \in Int
<1>1. IsFiniteSet(S \cup {a})
  BY FS_AddElement
<1>2. PICK it : SumIter(g, S, it) /\ SumOf(g, S) = it[S]
  BY SumIsIter
<1>3. PICK jt : SumIter(h, S \cup {a}, jt) /\ SumOf(h, S \cup {a}) = jt[S \cup {a}]
  BY <1>1, SumIsIter
<1>4. it[S] = jt[S]
  BY <1>2, <1>3, SumIterSame
<1>5. it[S] \in Int
  BY <1>2, SumIterAnyOrder
<1>6. jt[S \cup {a}] = h[a] + jt[(S \cup {a}) \ {a}]
  <2>1. \A x \in S \cup {a} : h[x] \in Int
    OBVIOUS
  <2>2. \A x \in S \cup {a} : jt[S \cup {a}] = h[x] + jt[(S \cup {a}) \ {x}]
    BY <1>1, <1>3, <2>1, SumIterAnyOrder
  <2> QED
    BY <2>2
<1>7. (S \cup {a}) \ {a} = S
  OBVIOUS
<1>8. PICK w \in Int : w = it[S]
  BY <1>5
<1>9. SumOf(h, S \cup {a}) = h[a] + w /\ SumOf(g, S) = w
  BY <1>2, <1>3, <1>4, <1>6, <1>7, <1>8
<1> QED
  BY <1>8, <1>9

(* A sum over one more element. *)
LEMMA SumPlus ==
    ASSUME NEW g, NEW S, IsFiniteSet(S), NEW a, a \notin S,
           \A x \in S \cup {a} : g[x] \in Int
    PROVE  SumOf(g, S \cup {a}) = SumOf(g, S) + g[a]
<1> SUFFICES ASSUME NEW h, h = g
             PROVE  SumOf(h, S \cup {a}) = SumOf(g, S) + h[a]
  OBVIOUS
<1>1. (\A x \in S : g[x] \in Int) /\ h[a] \in Int /\ \A x \in S : h[x] = g[x]
  OBVIOUS
<1> QED
  BY <1>1, SumAdd

(* A sum of naturals is a natural. *)
LEMMA SumType ==
    ASSUME NEW g, NEW S, IsFiniteSet(S), \A x \in S : g[x] \in Nat
    PROVE  SumOf(g, S) \in Nat
<1> DEFINE N == { n \in Nat : \A T \in SUBSET S : Cardinality(T) = n => SumOf(g, T) \in Nat }
<1>1. \A T \in SUBSET S : IsFiniteSet(T) /\ Cardinality(T) \in Nat
  BY FS_Subset, FS_CardinalityType
<1>2. 0 \in N
  BY <1>1, FS_EmptySet, SumEmpty
<1>3. ASSUME NEW n \in N PROVE n + 1 \in N
  <2>1. n \in Nat
    BY <1>3
  <2> SUFFICES ASSUME NEW T \in SUBSET S, Cardinality(T) = n + 1
               PROVE  SumOf(g, T) \in Nat
    BY <2>1
  <2>2. PICK a \in T : TRUE
    BY <2>1, FS_EmptySet
  <2>3. T \ {a} \in SUBSET S /\ IsFiniteSet(T \ {a}) /\ Cardinality(T \ {a}) = n
    BY <1>1, <2>1, FS_RemoveElement
  <2>4. SumOf(g, T \ {a}) \in Nat
    BY <1>3, <2>3
  <2>5. SumOf(g, (T \ {a}) \cup {a}) = SumOf(g, T \ {a}) + g[a]
    <3>1. \A x \in T : g[x] \in Int
      OBVIOUS
    <3> QED
      BY <2>3, <3>1, SumPlus
  <2>6. (T \ {a}) \cup {a} = T
    OBVIOUS
  <2> QED
    BY <2>4, <2>5, <2>6
<1>4. N = Nat
  <2> HIDE DEF N
  <2>1. N \in SUBSET Nat
    BY DEF N
  <2> QED
    BY <1>2, <1>3, <2>1, SetInduction
<1> QED
  BY <1>1, <1>4

(* A sum over one element less. *)
LEMMA SumMinus ==
    ASSUME NEW g, NEW S, IsFiniteSet(S), \A x \in S : g[x] \in Int, NEW a \in S
    PROVE  SumOf(g, S \ {a}) = SumOf(g, S) - g[a] /\ SumOf(g, S \ {a}) \in Int
<1> PICK T : T = S \ {a}
  OBVIOUS
<1>1. IsFiniteSet(T) /\ a \notin T /\ T \cup {a} = S
  BY FS_RemoveElement
<1>2. SumOf(g, T \cup {a}) = SumOf(g, T) + g[a] /\ SumOf(g, T) \in Int
  <2> SUFFICES ASSUME NEW h, h = g
               PROVE  SumOf(h, T \cup {a}) = SumOf(g, T) + h[a] /\ SumOf(g, T) \in Int
    OBVIOUS
  <2>1. (\A x \in T : g[x] \in Int) /\ h[a] \in Int /\ \A x \in T : h[x] = g[x]
    OBVIOUS
  <2> QED
    BY <1>1, <2>1, SumAdd
<1>3. PICK w \in Int : w = SumOf(g, T)
  BY <1>2
<1>4. SumOf(g, S) = w + g[a] /\ g[a] \in Int
  BY <1>1, <1>2, <1>3
<1> QED
  BY <1>3, <1>4

(* The lengths of intervals that do not overlap add up to no more than the  *)
(* span they lie in.                                                        *)
LEMMA SumSpan ==
    ASSUME NEW S \in SUBSET Int, IsFiniteSet(S), NEW g, \A x \in S : g[x] \in Nat,
           NEW lo \in Int, NEW hi \in Int, lo <= hi,
           \A x \in S : lo <= x /\ x + g[x] <= hi,
           \A x, y \in S : x < y => x + g[x] <= y
    PROVE  SumOf(g, S) <= hi - lo
<1> DEFINE Within(T, h) == lo <= h /\ \A x \in T : x + g[x] <= h
           Good(T) == \A h \in Int : Within(T, h) => SumOf(g, T) <= h - lo
           N == { n \in Nat : \A T \in SUBSET S : Cardinality(T) = n => Good(T) }
<1>1. \A T \in SUBSET S : IsFiniteSet(T) /\ Cardinality(T) \in Nat
  BY FS_Subset, FS_CardinalityType
<1>2. 0 \in N
  <2>1. \A T \in SUBSET S : Cardinality(T) = 0 => T = {}
    BY <1>1, FS_EmptySet
  <2>2. Good({})
    BY SumEmpty
  <2> HIDE DEF Good
  <2> QED
    BY <2>1, <2>2
<1>3. ASSUME NEW n \in N PROVE n + 1 \in N
  <2>1. n \in Nat
    BY <1>3
  <2> SUFFICES ASSUME NEW T \in SUBSET S, Cardinality(T) = n + 1, NEW h \in Int, Within(T, h)
               PROVE  SumOf(g, T) <= h - lo
    BY <2>1
  <2>2. PICK a \in T : \A y \in T : a >= y
    <3>1. T # {} /\ T \in SUBSET Int
      BY <2>1, FS_EmptySet
    <3> QED
      BY <1>1, <3>1, MaxOfFinite
  <2>3. T \ {a} \in SUBSET S /\ Cardinality(T \ {a}) = n
    <3>1. IsFiniteSet(T) /\ a \in T
      BY <1>1
    <3>2. Cardinality(T \ {a}) = Cardinality(T) - 1
      BY <3>1, FS_RemoveElement
    <3> QED
      BY <2>1, <3>2
  <2>4. Within(T \ {a}, a)
    BY <2>2
  <2>5. SumOf(g, T \ {a}) <= a - lo
    <3>1. Good(T \ {a})
      <4> HIDE DEF Good
      <4> QED
        BY <1>3, <2>3
    <3>2. a \in Int
      OBVIOUS
    <3> HIDE DEF Within
    <3> QED
      BY <2>4, <3>1, <3>2
  <2>6. SumOf(g, T \ {a}) = SumOf(g, T) - g[a] /\ SumOf(g, T \ {a}) \in Int
    <3>1. \A x \in T : g[x] \in Int
      OBVIOUS
    <3> QED
      BY <1>1, <3>1, SumMinus
  <2>7. SumOf(g, T) \in Int
    <3>1. \A x \in T : g[x] \in Nat
      OBVIOUS
    <3>2. SumOf(g, T) \in Nat
      BY <1>1, <3>1, SumType
    <3> QED
      BY <3>2
  <2>8. a + g[a] <= h /\ g[a] \in Nat /\ a \in Int
    OBVIOUS
  <2>9. PICK w \in Int : w = SumOf(g, T)
    BY <2>7
  <2>10. w - g[a] <= a - lo
    BY <2>5, <2>6, <2>9
  <2>11. w <= h - lo
    BY <2>8, <2>10
  <2> QED
    BY <2>9, <2>11
<1>4. N = Nat
  <2> HIDE DEF N
  <2>1. N \in SUBSET Nat
    BY DEF N
  <2> QED
    BY <1>2, <1>3, <2>1, SetInduction
<1>5. Good(S)
  <2> HIDE DEF Good
  <2> QED
    BY <1>1, <1>4
<1> QED
  BY <1>5

-----------------------------------------------------------------------------
(* Loops *)

(* A loop of n turns over values of T, g being one turn, and the values it  *)
(* goes through.                                                            *)
LoopBody(T, base, n, g) == base \in T /\ n \in Nat /\ g \in [T \X (1 .. n) -> T]
Loop(h, T, base, n, g) ==
    /\ h \in [0 .. n -> T] /\ h[0] = base
    /\ \A i \in 1 .. n : h[i] = g[<<h[i - 1], i>>]

(* Every loop has its values. *)
LEMMA LoopExists ==
    ASSUME NEW T, NEW base, NEW n, NEW g, LoopBody(T, base, n, g)
    PROVE  \E h : Loop(h, T, base, n, g)
<1>0. base \in T /\ n \in Nat /\ g \in [T \X (1 .. n) -> T]
  BY DEF LoopBody
<1> DEFINE Solves(h, k) == /\ h \in [0 .. k -> T] /\ h[0] = base
                           /\ \A i \in 1 .. k : h[i] = g[<<h[i - 1], i>>]
           N == { k \in Nat : k <= n => \E h : Solves(h, k) }
<1>1. 0 \in N
  <2>1. Solves([i \in 0 .. 0 |-> base], 0)
    BY <1>0
  <2> HIDE DEF Solves
  <2> QED
    BY <2>1
<1>2. ASSUME NEW k \in N PROVE k + 1 \in N
  <2>1. k \in Nat
    BY <1>2
  <2> SUFFICES ASSUME k + 1 <= n PROVE \E h : Solves(h, k + 1)
    BY <2>1
  <2>2. PICK h : Solves(h, k)
    <3> HIDE DEF Solves
    <3> QED
      BY <1>0, <1>2, <2>1
  <2> DEFINE f == [i \in 0 .. (k + 1) |-> IF i = k + 1 THEN g[<<h[k], k + 1>>] ELSE h[i]]
  <2>3. g[<<h[k], k + 1>>] \in T
    BY <1>0, <2>1, <2>2
  <2>4. f \in [0 .. (k + 1) -> T] /\ f[0] = base
    BY <2>1, <2>2, <2>3
  <2>5. ASSUME NEW i \in 1 .. (k + 1) PROVE f[i] = g[<<f[i - 1], i>>]
    <3>1. f[i - 1] = h[i - 1]
      BY <2>1
    <3>2. CASE i = k + 1
      <4>1. f[i] = g[<<h[k], k + 1>>] /\ i - 1 = k
        BY <2>1, <3>2
      <4> HIDE DEF f
      <4> QED
        BY <3>1, <3>2, <4>1
    <3>3. CASE i # k + 1
      <4>1. i \in 1 .. k /\ f[i] = h[i]
        BY <2>1, <3>3
      <4> QED
        BY <2>2, <3>1, <4>1
    <3> QED
      BY <3>2, <3>3
  <2>6. Solves(f, k + 1)
    <3> HIDE DEF f
    <3> QED
      BY <2>4, <2>5
  <2> HIDE DEF Solves, f
  <2> QED
    BY <2>6
<1>3. N = Nat
  <2> HIDE DEF N
  <2>1. N \in SUBSET Nat
    BY DEF N
  <2> QED
    BY <1>1, <1>2, <2>1, SetInduction
<1>4. PICK h : Solves(h, n)
  <2> HIDE DEF Solves
  <2> QED
    BY <1>0, <1>3
<1> QED
  BY <1>4 DEF Loop

(* What every turn keeps holds after each, S[i] being the values that meet  *)
(* the condition after turn i.                                              *)
LEMMA LoopKeeps ==
    ASSUME NEW n \in Nat, NEW h, NEW S, h[0] \in S[0],
           \A i \in 1 .. n : h[i - 1] \in S[i - 1] => h[i] \in S[i]
    PROVE  \A i \in 0 .. n : h[i] \in S[i]
<1> DEFINE N == { k \in Nat : k <= n => h[k] \in S[k] }
<1>1. 0 \in N
  OBVIOUS
<1>2. ASSUME NEW k \in N PROVE k + 1 \in N
  <2>1. k \in Nat
    BY <1>2
  <2> SUFFICES ASSUME k + 1 <= n PROVE h[k + 1] \in S[k + 1]
    BY <2>1
  <2>2. h[k] \in S[k]
    BY <1>2, <2>1
  <2>3. k + 1 \in 1 .. n /\ (k + 1) - 1 = k
    BY <2>1
  <2> QED
    BY <2>2, <2>3
<1>3. N = Nat
  <2> HIDE DEF N
  <2>1. N \in SUBSET Nat
    BY DEF N
  <2> QED
    BY <1>1, <1>2, <2>1, SetInduction
<1> QED
  BY <1>3
=============================================================================
