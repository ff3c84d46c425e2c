---------------------------- MODULE TaskListProofs ----------------------------
(***************************************************************************)
(* Theorems about TaskList, for any number of addresses, requests and      *)
(* tasks.                                                                  *)
(*                                                                         *)
(* The list behind a pointer is what one finds by following next.  The     *)
(* invariant names it, as a function from positions to nodes, and says     *)
(* what each pointer is in terms of it.  That following next finds this    *)
(* list is proved once (ChainAlong), by the least position where it would  *)
(* not.  The last part proves that the list implements TaskQueue: during a *)
(* walk the invariant remembers where each node that is left was when the  *)
(* walk began.                                                             *)
(***************************************************************************)
EXTENDS TaskList, FiniteSetTheorems, FunctionTheorems, WellFoundedInduction, TLAPS

-----------------------------------------------------------------------------
(* The least of some numbers.                                              *)

Less == {p \in Nat \X Nat : p[1] < p[2]}

\* The order of the natural numbers has no endless descent.
LEMMA LessWellFounded == IsWellFoundedOn(Less, Nat)
PROOF
  <1>1. OpToRel(<, Nat) = Less
    BY DEF OpToRel, Less
  <1> QED BY <1>1, NatLessThanWellFounded

\* So some numbers have a least one.
LEMMA LeastNat ==
  ASSUME NEW T, T \subseteq Nat, T # {}
  PROVE  \E x \in T : \A y \in T : x <= y
PROOF
  <1>1. PICK x \in T : \A y \in T : ~(<<y, x>> \in Less)
    BY LessWellFounded, WFMin
  <1>2. \A a, b \in Nat : <<a, b>> \in Less <=> a < b
    BY DEF Less
  <1>3. \A y \in T : ~(y < x)
    BY <1>1, <1>2
  <1> QED BY <1>1, <1>3

-----------------------------------------------------------------------------
(* Chains.                                                                 *)

\* From pointer p the links lead through the n nodes of f, in order, to the end.
Chain(links, p, n, f) ==
    /\ n \in Nat /\ f \in [1 .. n -> Nodes]
    /\ \A i, j \in 1 .. n : f[i] = f[j] => i = j
    /\ p = IF n = 0 THEN Null ELSE f[1]
    /\ \A i \in 1 .. n : links[f[i]] = IF i = n THEN Null ELSE f[i + 1]

Members(n, f) == {f[i] : i \in 1 .. n}
LastOf(n, f)  == IF n = 0 THEN Null ELSE f[n]

\* Where following the links leads.
Hops(links, p) == CHOOSE at : at = [k \in 0 .. Cardinality(Nodes) |->
                    IF k = 0 THEN p ELSE IF at[k - 1] = Null THEN Null ELSE links[at[k - 1]]]

\* From, for given links.
Along(links, p) ==
    LET size == Cardinality({k \in DOMAIN Hops(links, p) : Hops(links, p)[k] # Null})
    IN  [k \in 1 .. size |-> Hops(links, p)[k - 1]]

\* Following the links from the start of a chain leads through the chain.
LEMMA HopsOfChain ==
  ASSUME NEW links, NEW p, NEW n, NEW f, Chain(links, p, n, f)
  PROVE  Hops(links, p) = [k \in 0 .. Cardinality(Nodes) |-> IF k < n THEN f[k + 1] ELSE Null]
PROOF
  <1> DEFINE N == Cardinality(Nodes)
             h == [k \in 0 .. N |-> IF k < n THEN f[k + 1] ELSE Null]
             Body(g) == [k \in 0 .. N |-> IF k = 0 THEN p
                           ELSE IF g[k - 1] = Null THEN Null ELSE links[g[k - 1]]]
  <1>0. N \in Nat
    BY FiniteNodes, FS_CardinalityType
  <1>1. \A k \in 1 .. n : f[k] \in Nodes /\ f[k] # Null
    BY NullIsNone DEF Chain
  <1>2. h = Body(h)
    <2>1. ASSUME NEW k \in 0 .. N
          PROVE  h[k] = IF k = 0 THEN p ELSE IF h[k - 1] = Null THEN Null ELSE links[h[k - 1]]
      <3>1. CASE k = 0
        BY <1>0, <3>1 DEF Chain
      <3>2. CASE k # 0
        <4>1. k - 1 \in 0 .. N /\ k \in Nat /\ k >= 1
          BY <1>0, <3>2
        <4>2. h[k - 1] = IF k - 1 < n THEN f[(k - 1) + 1] ELSE Null
          BY <4>1
        <4>3. (k - 1) + 1 = k
          BY <4>1
        <4>4. CASE k - 1 < n
          <5>1. h[k - 1] = f[k] /\ k \in 1 .. n
            BY <4>1, <4>2, <4>3, <4>4 DEF Chain
          <5>2. links[f[k]] = IF k = n THEN Null ELSE f[k + 1]
            BY <5>1 DEF Chain
          <5>3. k < n <=> k # n
            BY <5>1 DEF Chain
          <5> QED BY <1>1, <3>2, <5>1, <5>2, <5>3
        <4>5. CASE ~(k - 1 < n)
          <5>1. ~(k < n)
            BY <4>1, <4>5 DEF Chain
          <5> QED BY <3>2, <4>2, <4>5, <5>1
        <4> QED BY <4>4, <4>5
      <3> QED BY <3>1, <3>2
    <2> QED BY <2>1
  <1>3. ASSUME NEW g, g = Body(g) PROVE g = h
    <2>1. \A k \in 0 .. N : g[k] = h[k]
      <3> SUFFICES ASSUME {k \in 0 .. N : g[k] # h[k]} # {} PROVE FALSE
        OBVIOUS
      <3>0. {k \in 0 .. N : g[k] # h[k]} \subseteq Nat
        BY <1>0
      <3>1. PICK x \in {k \in 0 .. N : g[k] # h[k]} :
              \A y \in {k \in 0 .. N : g[k] # h[k]} : x <= y
        <4> HIDE DEF h, N
        <4> QED BY <3>0, LeastNat
      <3>2. g[x] = Body(g)[x] /\ h[x] = Body(h)[x]
        BY <1>2, <1>3
      <3>3. CASE x = 0
        BY <1>0, <3>1, <3>2, <3>3
      <3>4. CASE x # 0
        <4>1. x - 1 \in 0 .. N /\ ~(x <= x - 1)
          BY <1>0, <3>1, <3>4
        <4>2. g[x - 1] = h[x - 1]
          BY <3>1, <4>1
        <4>3. Body(g)[x] = Body(h)[x]
          BY <3>1, <3>4, <4>2
        <4> QED BY <3>1, <3>2, <4>3
      <3> QED BY <3>3, <3>4
    <2> QED BY <1>3, <2>1
  <1>4. Hops(links, p) = Body(Hops(links, p))
    BY <1>2 DEF Hops
  <1> QED BY <1>3, <1>4

\* The nodes from the start of a chain on are the chain.
LEMMA ChainAlong ==
  ASSUME NEW links, NEW p, NEW n, NEW f, Chain(links, p, n, f)
  PROVE  Along(links, p) = f
PROOF
  <1> DEFINE N == Cardinality(Nodes)
             at == Hops(links, p)
             size == Cardinality({k \in DOMAIN at : at[k] # Null})
  <1>0. N \in Nat /\ n \in Nat
    BY FiniteNodes, FS_CardinalityType DEF Chain
  <1>1. at = [k \in 0 .. N |-> IF k < n THEN f[k + 1] ELSE Null]
    BY HopsOfChain
  <1>2. IsFiniteSet(1 .. n) /\ Cardinality(1 .. n) = n
    BY <1>0, FS_Interval
  <1>3. n <= N
    <2>1. f \in Injection(1 .. n, Nodes)
      BY DEF Chain, Injection, IsInjective
    <2> QED BY <1>2, <2>1, FiniteNodes, FS_Injection
  <1>4. {k \in DOMAIN at : at[k] # Null} = 0 .. n - 1
    <2>1. \A k \in 1 .. n : f[k] # Null
      BY NullIsNone DEF Chain
    <2> QED BY <1>0, <1>1, <1>3, <2>1
  <1>5. size = n
    <2>1. Cardinality(0 .. n - 1) = n
      <3>1. n - 1 \in Int /\ 0 \in Int
        BY <1>0
      <3>2. Cardinality(0 .. n - 1) = IF 0 > n - 1 THEN 0 ELSE (n - 1) - 0 + 1
        BY <3>1, FS_Interval
      <3> QED BY <1>0, <3>2
    <2> QED BY <1>4, <2>1
  <1>6. Along(links, p) = [k \in 1 .. size |-> at[k - 1]]
    BY DEF Along
  <1>7. Along(links, p) = f
    <2>1. \A k \in 1 .. n : at[k - 1] = f[k]
      <3> TAKE k \in 1 .. n
      <3>1. k - 1 \in 0 .. N /\ k - 1 < n /\ (k - 1) + 1 = k
        BY <1>0, <1>3
      <3> QED BY <1>1, <3>1
    <2>2. Along(links, p) = [k \in 1 .. n |-> at[k - 1]]
      BY <1>5, <1>6
    <2>3. f = [k \in 1 .. n |-> f[k]]
      BY DEF Chain
    <2> HIDE DEF at
    <2> QED BY <2>1, <2>2, <2>3
  <1> QED BY <1>7

\* From and NodesFrom, before and after a step.
LEMMA FromAlong ==
  ASSUME NEW p, NEW n, NEW f
  PROVE  /\ From(p) = Along(next, p)
         /\ Chain(next, p, n, f) => From(p) = f /\ NodesFrom(p) = Members(n, f)
PROOF
  <1>1. From(p) = Along(next, p)
    BY DEF From, Along, Hops
  <1>2. Chain(next, p, n, f) => DOMAIN f = 1 .. n
    BY DEF Chain
  <1> QED BY <1>1, <1>2, ChainAlong DEF NodesFrom, Members

\* The nodes behind a pointer are a sequence, of the length of the chain.
LEMMA ChainLength ==
  ASSUME NEW links, NEW p, NEW n, NEW f, Chain(links, p, n, f)
  PROVE  f \in Seq(Nodes) /\ Len(f) = n /\ (f = <<>> <=> n = 0)
PROOF
  <1>1. n \in Nat /\ f \in [1 .. n -> Nodes]
    BY DEF Chain
  <1>2. f \in Seq(Nodes)
    BY <1>1
  <1>3. Len(f) = n
    BY <1>1, <1>2
  <1> QED BY <1>2, <1>3

\* Links outside a chain do not matter to it.
LEMMA ChainKept ==
  ASSUME NEW links, NEW new, NEW p, NEW n, NEW f, Chain(links, p, n, f),
         \A x \in Members(n, f) : new[x] = links[x]
  PROVE  Chain(new, p, n, f)
PROOF
  <1>1. \A i \in 1 .. n : new[f[i]] = links[f[i]]
    BY DEF Members
  <1> QED BY <1>1 DEF Chain

Joined(n, f, m, g) == [i \in 1 .. n + m |-> IF i <= n THEN f[i] ELSE g[i - n]]

\* The links when q comes behind the last node.
Linked(links, n, f, q) == IF n = 0 THEN links ELSE [links EXCEPT ![f[n]] = q]

\* A chain linked behind the last node of another.
LEMMA ChainJoin ==
  ASSUME NEW links \in [Nodes -> Pointer], NEW p, NEW n, NEW f, NEW q, NEW m, NEW g,
         Chain(links, p, n, f), Chain(links, q, m, g), m >= 1,
         Members(n, f) \cap Members(m, g) = {}
  PROVE  /\ Chain(Linked(links, n, f, q),
                  IF n = 0 THEN q ELSE p, n + m, Joined(n, f, m, g))
         /\ Members(n + m, Joined(n, f, m, g)) = Members(n, f) \cup Members(m, g)
         /\ LastOf(n + m, Joined(n, f, m, g)) = g[m]
PROOF
  <1> DEFINE h == Joined(n, f, m, g)
             new == Linked(links, n, f, q)
  <1>0. n \in Nat /\ m \in Nat /\ n + m \in Nat
    BY DEF Chain
  <1>1. /\ \A i \in 1 .. n : i \in 1 .. n + m /\ i <= n
        /\ \A i \in 1 .. m : n + i \in 1 .. n + m /\ ~(n + i <= n) /\ (n + i) - n = i
        /\ \A i \in 1 .. n + m : i \in 1 .. n \/ (i - n \in 1 .. m /\ n + (i - n) = i)
    BY <1>0
  <1>2. /\ \A i \in 1 .. n : h[i] = f[i]
        /\ \A i \in 1 .. m : h[n + i] = g[i]
    BY <1>1 DEF Joined
  <1>3. /\ \A i \in 1 .. n : f[i] \in Nodes /\ f[i] \in Members(n, f)
        /\ \A i \in 1 .. m : g[i] \in Nodes /\ g[i] \in Members(m, g)
    BY DEF Chain, Members
  <1>4. h \in [1 .. n + m -> Nodes]
    <2>1. \A i \in 1 .. n + m : h[i] \in Nodes
      BY <1>1, <1>2, <1>3
    <2> HIDE DEF h
    <2>2. h = [i \in 1 .. n + m |-> h[i]]
      BY DEF h, Joined
    <2> QED BY <2>1, <2>2
  <1>5. \A i, j \in 1 .. n + m : h[i] = h[j] => i = j
    <2> SUFFICES ASSUME NEW i \in 1 .. n + m, NEW j \in 1 .. n + m, h[i] = h[j]
                 PROVE  i = j
      OBVIOUS
    <2>1. CASE i \in 1 .. n /\ j \in 1 .. n
      BY <1>2, <2>1 DEF Chain
    <2>2. CASE i - n \in 1 .. m /\ n + (i - n) = i /\ j - n \in 1 .. m /\ n + (j - n) = j
      <3>1. g[i - n] = g[j - n]
        BY <1>2, <2>2
      <3>2. i - n = j - n
        BY <2>2, <3>1 DEF Chain
      <3> QED BY <2>2, <3>2
    <2>3. CASE i \in 1 .. n /\ j - n \in 1 .. m /\ n + (j - n) = j
      BY <1>2, <1>3, <2>3
    <2>4. CASE j \in 1 .. n /\ i - n \in 1 .. m /\ n + (i - n) = i
      BY <1>2, <1>3, <2>4
    <2> QED BY <1>1, <2>1, <2>2, <2>3, <2>4
  <1>6. (IF n = 0 THEN q ELSE p) = IF n + m = 0 THEN Null ELSE h[1]
    <2>1. CASE n = 0
      <3>1. n + 1 = 1 /\ 1 \in 1 .. m /\ n + m # 0
        BY <1>0, <2>1
      <3> QED BY <1>2, <2>1, <3>1 DEF Chain
    <2>2. CASE n # 0
      <3>1. 1 \in 1 .. n /\ n + m # 0
        BY <1>0, <2>2
      <3> QED BY <1>2, <2>2, <3>1 DEF Chain
    <2> QED BY <2>1, <2>2
  <1>7. \A i \in 1 .. n + m : new[h[i]] = IF i = n + m THEN Null ELSE h[i + 1]
    <2>0. /\ \A i \in 1 .. n : i # n => links[f[i]] = f[i + 1] /\ f[i] # f[n]
          /\ \A i \in 1 .. m : links[g[i]] = IF i = m THEN Null ELSE g[i + 1]
      <3>1. \A i \in 1 .. n : n \in 1 .. n
        BY <1>0
      <3> QED BY <3>1 DEF Chain
    <2> TAKE i \in 1 .. n + m
    <2>1. CASE i \in 1 .. n /\ i # n
      <3>1. i + 1 \in 1 .. n /\ i # n + m /\ n # 0
        BY <1>0, <2>1
      <3>2. new[f[i]] = links[f[i]]
        BY <1>3, <2>0, <2>1, <3>1 DEF Linked
      <3> QED BY <1>2, <2>0, <2>1, <3>1, <3>2
    <2>2. CASE i \in 1 .. n /\ i = n
      <3>1. n # 0 /\ i # n + m /\ i + 1 = n + 1 /\ 1 \in 1 .. m
        BY <1>0, <2>2
      <3>2. new[f[n]] = q
        BY <1>3, <2>2, <3>1 DEF Linked
      <3>3. q = g[1]
        BY <3>1 DEF Chain
      <3> QED BY <1>2, <2>2, <3>1, <3>2, <3>3
    <2>3. CASE i - n \in 1 .. m /\ n + (i - n) = i
      <3>1. h[i] = g[i - n]
        BY <1>2, <2>3
      <3>2. n # 0 => n \in 1 .. n
        BY <1>0
      <3>3. new[g[i - n]] = links[g[i - n]]
        BY <1>3, <2>3, <3>2 DEF Linked
      <3>4. CASE i = n + m
        <4>1. i - n = m
          BY <1>0, <3>4
        <4> QED BY <2>0, <2>3, <3>1, <3>3, <3>4, <4>1
      <3>5. CASE i # n + m
        <4>1. i - n # m /\ (i - n) + 1 \in 1 .. m /\ n + ((i - n) + 1) = i + 1
          BY <1>0, <2>3, <3>5
        <4>2. h[i + 1] = g[(i - n) + 1]
          BY <1>2, <4>1
        <4> QED BY <2>0, <2>3, <3>1, <3>3, <3>5, <4>1, <4>2
      <3> QED BY <3>4, <3>5
    <2> QED BY <1>1, <2>1, <2>2, <2>3
  <1>8. Chain(new, IF n = 0 THEN q ELSE p, n + m, h)
    <2> HIDE DEF h, new
    <2> QED BY <1>0, <1>4, <1>5, <1>6, <1>7 DEF Chain
  <1>9. Members(n + m, h) = Members(n, f) \cup Members(m, g)
    <2> HIDE DEF h
    <2>1. ASSUME NEW x \in Members(n + m, h) PROVE x \in Members(n, f) \cup Members(m, g)
      <3>1. PICK i \in 1 .. n + m : x = h[i]
        BY DEF Members
      <3> QED BY <1>1, <1>2, <1>3, <3>1
    <2>2. ASSUME NEW x \in Members(n, f) \cup Members(m, g) PROVE x \in Members(n + m, h)
      BY <1>1, <1>2 DEF Members
    <2> QED BY <2>1, <2>2
  <1>10. LastOf(n + m, h) = g[m]
    <2>1. n + m # 0 /\ m \in 1 .. m
      BY <1>0
    <2> QED BY <1>2, <2>1 DEF LastOf
  <1> QED BY <1>8, <1>9, <1>10

Alone(x) == [i \in 1 .. 1 |-> x]

\* The links with a new node behind the last one.
Appended(links, n, f, x) == IF n = 0 THEN [links EXCEPT ![x] = Null]
                            ELSE [links EXCEPT ![x] = Null, ![f[n]] = x]

\* A new node linked behind the last one.
LEMMA ChainAppend ==
  ASSUME NEW links \in [Nodes -> Pointer], NEW p, NEW n, NEW f, NEW x \in Nodes,
         Chain(links, p, n, f), x \notin Members(n, f)
  PROVE  /\ Chain(Appended(links, n, f, x), IF n = 0 THEN x ELSE p, n + 1, Joined(n, f, 1, Alone(x)))
         /\ Members(n + 1, Joined(n, f, 1, Alone(x))) = Members(n, f) \cup {x}
         /\ LastOf(n + 1, Joined(n, f, 1, Alone(x))) = x
PROOF
  <1> DEFINE cut == [links EXCEPT ![x] = Null]
  <1>1. cut \in [Nodes -> Pointer] /\ cut[x] = Null
    BY DEF Pointer
  <1>2. Chain(cut, p, n, f)
    <2>1. \A y \in Members(n, f) : y \in Nodes /\ y # x
      BY DEF Chain, Members
    <2>2. \A y \in Members(n, f) : cut[y] = links[y]
      BY <2>1
    <2> QED BY <2>2, ChainKept
  <1>3. /\ Chain(cut, x, 1, Alone(x)) /\ Members(1, Alone(x)) = {x}
        /\ Alone(x)[1] = x
    <2>1. 1 .. 1 = {1}
      OBVIOUS
    <2>2. Alone(x) \in [1 .. 1 -> Nodes] /\ Alone(x)[1] = x
      BY DEF Alone
    <2> HIDE DEF cut
    <2> QED BY <1>1, <2>1, <2>2 DEF Chain, Members
  <1>4. n \in Nat /\ (n # 0 => f[n] \in Nodes)
    <2>1. n \in Nat
      BY DEF Chain
    <2>2. n # 0 => n \in 1 .. n
      BY <2>1
    <2> QED BY <2>1, <2>2 DEF Chain
  <1>5. Linked(cut, n, f, x) = Appended(links, n, f, x)
    BY <1>4 DEF Linked, Appended
  <1>6. Members(n, f) \cap Members(1, Alone(x)) = {}
    BY <1>3
  <1> HIDE DEF cut
  <1>7. /\ Chain(Linked(cut, n, f, x),
                 IF n = 0 THEN x ELSE p, n + 1, Joined(n, f, 1, Alone(x)))
        /\ Members(n + 1, Joined(n, f, 1, Alone(x))) = Members(n, f) \cup Members(1, Alone(x))
        /\ LastOf(n + 1, Joined(n, f, 1, Alone(x))) = Alone(x)[1]
    BY <1>1, <1>2, <1>3, <1>6, ChainJoin
  <1> QED BY <1>3, <1>5, <1>7

Dropped(n, f, i) == [k \in 1 .. n - 1 |-> IF k < i THEN f[k] ELSE f[k + 1]]

\* The links without the node at i.
Removed(links, f, i) == IF i = 1 THEN [links EXCEPT ![f[i]] = Null]
                        ELSE [links EXCEPT ![f[i - 1]] = links[f[i]], ![f[i]] = Null]

\* The node before position i, and the one at it.
Before(f, i) == IF i = 1 THEN Null ELSE f[i - 1]
At(n, f, i)  == IF i = n + 1 THEN Null ELSE f[i]

\* A node taken out: the one before it leads to the one behind it.
LEMMA ChainDrop ==
  ASSUME NEW links \in [Nodes -> Pointer], NEW p, NEW n, NEW f, NEW i \in 1 .. n,
         Chain(links, p, n, f)
  PROVE  /\ Chain(Removed(links, f, i), IF i = 1 THEN links[f[i]] ELSE p, n - 1, Dropped(n, f, i))
         /\ Members(n - 1, Dropped(n, f, i)) = Members(n, f) \ {f[i]}
         /\ LastOf(n - 1, Dropped(n, f, i))
              = IF f[i] = LastOf(n, f) THEN Before(f, i) ELSE LastOf(n, f)
         /\ At(n - 1, Dropped(n, f, i), i) = links[f[i]]
         /\ Before(Dropped(n, f, i), i) = Before(f, i)
PROOF
  <1> DEFINE h == Dropped(n, f, i)
             new == Removed(links, f, i)
  <1>0. n \in Nat /\ n >= 1 /\ n - 1 \in Nat
    BY DEF Chain
  <1>1. \A k \in 1 .. n : f[k] \in Nodes /\ \A l \in 1 .. n : f[k] = f[l] => k = l
    BY DEF Chain
  <1>2. \A k \in 1 .. n : links[f[k]] = IF k = n THEN Null ELSE f[k + 1]
    BY DEF Chain
  <1>3. \A k \in 1 .. n - 1 : k \in 1 .. n /\ k + 1 \in 1 .. n
    BY <1>0
  <1>4. \A k \in 1 .. n - 1 : h[k] = IF k < i THEN f[k] ELSE f[k + 1]
    BY DEF Dropped
  <1>5. h \in [1 .. n - 1 -> Nodes]
    <2>1. \A k \in 1 .. n - 1 : h[k] \in Nodes
      BY <1>1, <1>3, <1>4
    <2>2. h = [k \in 1 .. n - 1 |-> h[k]]
      BY DEF Dropped
    <2> HIDE DEF h
    <2> QED BY <2>1, <2>2
  <1>6. \A k, l \in 1 .. n - 1 : h[k] = h[l] => k = l
    <2> SUFFICES ASSUME NEW k \in 1 .. n - 1, NEW l \in 1 .. n - 1, h[k] = h[l]
                 PROVE  k = l
      OBVIOUS
    <2>1. CASE k < i /\ l < i
      BY <1>1, <1>3, <1>4, <2>1
    <2>2. CASE k < i /\ ~(l < i)
      BY <1>1, <1>3, <1>4, <2>2
    <2>3. CASE ~(k < i) /\ l < i
      BY <1>1, <1>3, <1>4, <2>3
    <2>4. CASE ~(k < i) /\ ~(l < i)
      BY <1>1, <1>3, <1>4, <2>4
    <2> QED BY <2>1, <2>2, <2>3, <2>4
  <1>7. (IF i = 1 THEN links[f[i]] ELSE p) = IF n - 1 = 0 THEN Null ELSE h[1]
    <2>1. CASE i = 1
      <3>1. CASE n = 1
        BY <1>2, <2>1, <3>1
      <3>2. CASE n # 1
        <4>1. 1 \in 1 .. n - 1 /\ ~(1 < i) /\ n - 1 # 0 /\ 1 # n
          BY <1>0, <2>1, <3>2
        <4> QED BY <1>2, <1>4, <2>1, <4>1
      <3> QED BY <3>1, <3>2
    <2>2. CASE i # 1
      <3>1. 1 \in 1 .. n - 1 /\ 1 < i /\ n - 1 # 0 /\ n # 0
        BY <1>0, <2>2
      <3>2. p = f[1]
        BY <3>1 DEF Chain
      <3> QED BY <1>4, <2>2, <3>1, <3>2
    <2> QED BY <2>1, <2>2
  <1>8. \A k \in 1 .. n - 1 : new[h[k]] = IF k = n - 1 THEN Null ELSE h[k + 1]
    <2>1. \A k \in 1 .. n : k # i => new[f[k]] = IF k + 1 = i THEN links[f[i]] ELSE links[f[k]]
      <3> TAKE k \in 1 .. n
      <3> HAVE k # i
      <3>1. f[k] # f[i]
        BY <1>1
      <3>2. CASE i = 1
        <4>1. k + 1 # i
          BY <3>2
        <4> QED BY <1>1, <3>1, <3>2, <4>1 DEF Removed
      <3>3. CASE i # 1
        <4>1. i - 1 \in 1 .. n /\ (k + 1 = i <=> k = i - 1)
          BY <1>0, <3>3
        <4>2. f[k] = f[i - 1] <=> k = i - 1
          BY <1>1, <4>1
        <4>3. f[i - 1] \in Nodes /\ f[k] \in Nodes /\ f[i] \in Nodes
          BY <1>1, <4>1
        <4> QED BY <3>1, <3>3, <4>1, <4>2, <4>3 DEF Removed
      <3> QED BY <3>2, <3>3
    <2> HIDE DEF new, h
    <2> TAKE k \in 1 .. n - 1
    <2>2. CASE k < i /\ k + 1 = i
      <3>1. k # i /\ ~(k + 1 < i) /\ (i = n <=> k = n - 1)
        BY <1>0, <2>2
      <3>2. new[h[k]] = links[f[i]]
        BY <1>3, <1>4, <2>1, <2>2, <3>1
      <3>3. CASE k = n - 1
        BY <1>2, <3>1, <3>2, <3>3
      <3>4. CASE k # n - 1
        <4>1. k + 1 \in 1 .. n - 1 /\ (k + 1) + 1 = i + 1
          BY <1>0, <2>2, <3>4
        <4> QED BY <1>2, <1>4, <3>1, <3>2, <3>4, <4>1
      <3> QED BY <3>3, <3>4
    <2>3. CASE k < i /\ k + 1 # i
      <3>1. k # i /\ k + 1 < i /\ k # n - 1 /\ k # n /\ k + 1 \in 1 .. n - 1
        BY <1>0, <2>3
      <3>2. new[h[k]] = links[f[k]]
        BY <1>3, <1>4, <2>1, <2>3, <3>1
      <3> QED BY <1>2, <1>3, <1>4, <3>1, <3>2
    <2>4. CASE ~(k < i)
      <3>1. k + 1 # i /\ (k + 1) + 1 # i /\ ~(k + 1 < i) /\ (k + 1 = n <=> k = n - 1)
        BY <1>0, <2>4
      <3>2. new[h[k]] = links[f[k + 1]]
        BY <1>3, <1>4, <2>1, <2>4, <3>1
      <3>3. k # n - 1 => k + 1 \in 1 .. n - 1
        BY <1>0
      <3> QED BY <1>2, <1>3, <1>4, <3>1, <3>2, <3>3
    <2> QED BY <2>2, <2>3, <2>4
  <1>9. Chain(new, IF i = 1 THEN links[f[i]] ELSE p, n - 1, h)
    <2> HIDE DEF h, new
    <2> QED BY <1>0, <1>5, <1>6, <1>7, <1>8 DEF Chain
  <1>10. Members(n - 1, h) = Members(n, f) \ {f[i]}
    <2> HIDE DEF h
    <2>1. ASSUME NEW x \in Members(n - 1, h) PROVE x \in Members(n, f) \ {f[i]}
      <3>1. PICK k \in 1 .. n - 1 : x = h[k]
        BY <2>1 DEF Members
      <3>2. CASE k < i
        BY <1>1, <1>3, <1>4, <3>1, <3>2 DEF Members
      <3>3. CASE ~(k < i)
        <4>1. k + 1 # i /\ k + 1 \in 1 .. n
          BY <1>3, <3>3
        <4> QED BY <1>1, <1>4, <3>1, <3>3, <4>1 DEF Members
      <3> QED BY <3>2, <3>3
    <2>2. ASSUME NEW x \in Members(n, f) \ {f[i]} PROVE x \in Members(n - 1, h)
      <3>1. PICK k \in 1 .. n : x = f[k]
        BY <2>2 DEF Members
      <3>2. k # i
        BY <2>2, <3>1
      <3>3. CASE k < i
        <4>1. k \in 1 .. n - 1
          BY <1>0, <3>3
        <4> QED BY <1>4, <3>1, <3>3, <4>1 DEF Members
      <3>4. CASE ~(k < i)
        <4>1. k - 1 \in 1 .. n - 1 /\ ~(k - 1 < i) /\ (k - 1) + 1 = k
          BY <1>0, <3>2, <3>4
        <4> QED BY <1>4, <3>1, <4>1 DEF Members
      <3> QED BY <3>3, <3>4
    <2> QED BY <2>1, <2>2
  <1>11. LastOf(n - 1, h) = IF f[i] = LastOf(n, f) THEN Before(f, i) ELSE LastOf(n, f)
    <2>1. LastOf(n, f) = f[n] /\ (f[i] = f[n] <=> i = n)
      BY <1>0, <1>1 DEF LastOf
    <2>2. CASE i = n
      <3>1. n - 1 # 0 => n - 1 \in 1 .. n - 1 /\ n - 1 < i
        BY <1>0, <2>2
      <3>2. n - 1 = 0 <=> i = 1
        BY <1>0, <2>2
      <3> QED BY <1>4, <2>1, <2>2, <3>1, <3>2 DEF LastOf, Before
    <2>3. CASE i # n
      <3>1. n - 1 # 0 /\ n - 1 \in 1 .. n - 1 /\ ~(n - 1 < i) /\ (n - 1) + 1 = n
        BY <1>0, <2>3
      <3> QED BY <1>4, <2>1, <2>3, <3>1 DEF LastOf
    <2> QED BY <2>2, <2>3
  <1>12. At(n - 1, h, i) = links[f[i]]
    <2>1. i = (n - 1) + 1 <=> i = n
      BY <1>0
    <2>2. i # n => i \in 1 .. n - 1 /\ ~(i < i)
      BY <1>0
    <2> QED BY <1>2, <1>4, <2>1, <2>2 DEF At
  <1>13. Before(h, i) = Before(f, i)
    <2>1. i # 1 => i - 1 \in 1 .. n - 1 /\ i - 1 < i
      BY <1>0
    <2> QED BY <1>4, <2>1 DEF Before
  <1> QED BY <1>9, <1>10, <1>11, <1>12, <1>13

-----------------------------------------------------------------------------
(* The invariant.                                                          *)

\* What is left of the list: destroy frees it from the head.
Start == IF op.pc = "destroy" THEN op.curr
         ELSE IF op.pc = "gone" THEN Null ELSE queue_head

\* The list is f, the private chain of the batch is g, and nothing else is allocated.
Heap(n, f, m, g) ==
    /\ Chain(next, Start, n, f) /\ Chain(next, batch.head, m, g)
    /\ Members(n, f) \cap Members(m, g) = {}
    /\ live = Members(n, f) \cup Members(m, g)

\* What a cancel has removed is still counted in queue_size.
Ends(n, f) == op.pc \notin {"destroy", "gone"} =>
    queue_tail = LastOf(n, f) /\ queue_size = n + op.removed

\* A walk stands at a position of the list, with the node before it in prev.
WalkAt(n, f, i) == op.pc \in {"pop", "cancel"} =>
    i \in 1 .. n + 1 /\ op.curr = At(n, f, i) /\ op.prev = Before(f, i)

Building(m, g) ==
    /\ batch.pc = "none" => m = 0
    /\ batch.pc = "build" => /\ batch.tail = LastOf(m, g) /\ batch.created = m
                             /\ batch.left + m >= 1 /\ batch.req \in Reqs

Shape(n, f, m, g, i) ==
    /\ Heap(n, f, m, g) /\ Ends(n, f) /\ WalkAt(n, f, i) /\ Building(m, g)
    /\ op.pc # "cancel" => op.removed = 0
    /\ op.pc \in {"pop", "cancel"} => op.req \in Reqs

ListInv == \E n, f, m, g, i : Shape(n, f, m, g, i)

\* The node a walk stands at.
LEMMA WalkNode ==
  ASSUME NEW links, NEW p, NEW n, NEW f, Chain(links, p, n, f), NEW i \in 1 .. n + 1
  PROVE  /\ At(n, f, i) # Null => i \in 1 .. n /\ At(n, f, i) = f[i]
         /\ i \in 1 .. n => /\ f[i] \in Nodes /\ f[i] \in Members(n, f)
                            /\ links[f[i]] = At(n, f, i + 1) /\ f[i] = Before(f, i + 1)
         /\ Before(f, i) = Null <=> i = 1
         /\ i # 1 => f[i - 1] \in Members(n, f)
         /\ At(n, f, 1) = p
PROOF
  <1>0. n \in Nat
    BY DEF Chain
  <1>1. \A k \in 1 .. n : f[k] \in Nodes /\ f[k] # Null
    BY NullIsNone DEF Chain
  <1>2. i # n + 1 => i \in 1 .. n
    BY <1>0
  <1>3. i # 1 => i - 1 \in 1 .. n
    BY <1>0
  <1>4. i \in 1 .. n => links[f[i]] = At(n, f, i + 1) /\ f[i] = Before(f, i + 1)
    <2> HAVE i \in 1 .. n
    <2>1. (i + 1 = n + 1 <=> i = n) /\ i + 1 # 1 /\ (i + 1) - 1 = i
      BY <1>0
    <2>2. links[f[i]] = IF i = n THEN Null ELSE f[i + 1]
      BY DEF Chain
    <2> QED BY <2>1, <2>2 DEF At, Before
  <1>5. At(n, f, 1) = p
    <2>1. 1 = n + 1 <=> n = 0
      BY <1>0
    <2> QED BY <2>1 DEF At, Chain
  <1>6. At(n, f, i) # Null => i \in 1 .. n /\ At(n, f, i) = f[i]
    BY <1>2 DEF At
  <1>7. Before(f, i) = Null <=> i = 1
    BY <1>1, <1>3 DEF Before
  <1>8. i \in 1 .. n => f[i] \in Nodes /\ f[i] \in Members(n, f)
    BY <1>1 DEF Members
  <1>9. i # 1 => f[i - 1] \in Members(n, f)
    BY <1>3 DEF Members
  <1> QED BY <1>4, <1>5, <1>6, <1>7, <1>8, <1>9

\* The list without nodes.
Nobody == [k \in 1 .. 0 |-> Null]

LEMMA NobodyChain ==
  ASSUME NEW links
  PROVE  Chain(links, Null, 0, Nobody) /\ Members(0, Nobody) = {}
PROOF
  <1>1. 1 .. 0 = {}
    OBVIOUS
  <1>2. Nobody \in [1 .. 0 -> Nodes]
    BY <1>1 DEF Nobody
  <1> QED BY <1>1, <1>2 DEF Chain, Members

\* At the start there is no node.
LEMMA InitShape == Init => ListInv
PROOF
  <1> SUFFICES ASSUME Init PROVE ListInv
    OBVIOUS
  <1>1. Chain(next, Null, 0, Nobody) /\ Members(0, Nobody) = {} /\ LastOf(0, Nobody) = Null
    BY NobodyChain DEF LastOf
  <1>2. Shape(0, Nobody, 0, Nobody, 1)
    BY <1>1 DEF Init, NoOp, NoBatch, Shape, Heap, Start, Ends, WalkAt, Building
  <1> QED BY <1>2 DEF ListInv

\* A step that leaves the nodes and the list alone keeps the list.
LEMMA ChainsSame ==
  ASSUME NEW n, NEW f, NEW m, NEW g, Heap(n, f, m, g), next' = next, live' = live,
         Start' = Start, batch'.head = batch.head
  PROVE  Heap(n, f, m, g)'
  BY DEF Heap

\* Starting a batch, giving it up, and the ends of walks change no node.
LEMMA QuietShape ==
  ASSUME TypeOK, NEW n, NEW f, NEW m, NEW g, NEW i, Shape(n, f, m, g, i), NEW r, NEW k,
         \/ r \in Reqs /\ k \in 1 .. MaxBatch /\ StartBatch(r, k)
         \/ BuildFails \/ WalkEnds \/ StartDestroy \/ DestroyEnds \/ Gone \/ UNCHANGED vars
  PROVE  Shape(n, f, m, g, i)'
PROOF
  <1> USE DEF heap, list
  <1>0. Chain(next, Start, n, f) /\ Chain(next, batch.head, m, g) /\ n \in Nat /\ m \in Nat
    BY DEF Shape, Heap, Chain
  <1>1. CASE r \in Reqs /\ k \in 1 .. MaxBatch /\ StartBatch(r, k)
    <2>1. batch' = [pc |-> "build", req |-> r, left |-> k, head |-> Null, tail |-> Null,
                    created |-> 0]
      BY <1>1 DEF StartBatch, NoBatch
    <2>2. m = 0 /\ batch.head = Null
      BY <1>0, <1>1 DEF StartBatch, Shape, Building, Chain
    <2>3. k >= 1 /\ k + m >= 1
      BY <1>0, <1>1, ListBounds
    <2>4. Heap(n, f, m, g)'
      <3>1. UNCHANGED <<next, live, op, queue_head>>
        BY <1>1 DEF StartBatch
      <3>2. Start' = Start
        BY <3>1 DEF Start
      <3>3. batch'.head = batch.head
        BY <2>1, <2>2
      <3> QED BY <3>1, <3>2, <3>3, ChainsSame DEF Shape
    <2>5. Building(m, g)'
      BY <1>1, <2>1, <2>2, <2>3 DEF Building, LastOf
    <2> QED BY <1>1, <2>4, <2>5 DEF StartBatch, Shape, Ends, WalkAt
  <1>2. CASE BuildFails
    <2>1. batch'.pc = "undo" /\ batch'.head = batch.head
      BY <1>2 DEF BuildFails, TypeOK
    <2>2. Heap(n, f, m, g)'
      BY <1>2, <2>1, ChainsSame DEF BuildFails, Shape, Start
    <2> QED BY <1>2, <2>1, <2>2 DEF BuildFails, Shape, Ends, WalkAt, Building
  <1>3. CASE WalkEnds
    <2>1. op' = NoOp /\ op.pc \in {"pop", "cancel"} /\ queue_size' = queue_size - op.removed
      BY <1>3 DEF WalkEnds, Unlock, SizeAfter
    <2>2. UNCHANGED <<next, live, queue_head, queue_tail, batch>>
      BY <1>3 DEF WalkEnds
    <2>3. Heap(n, f, m, g)'
      BY <2>1, <2>2, ChainsSame DEF Shape, Start, NoOp
    <2>4. Ends(n, f)'
      <3>1. queue_tail = LastOf(n, f) /\ queue_size = n + op.removed /\ op.removed \in Nat
        BY <2>1 DEF Shape, Ends, TypeOK
      <3>2. queue_size' = n + 0
        BY <1>0, <2>1, <3>1
      <3> QED BY <2>1, <2>2, <3>1, <3>2 DEF Ends, NoOp
    <2> QED BY <2>1, <2>2, <2>3, <2>4 DEF Shape, WalkAt, Building, NoOp
  <1>4. CASE StartDestroy
    <2>1. op' = [pc |-> "destroy", req |-> 0, prev |-> Null, curr |-> queue_head, removed |-> 0]
      BY <1>4 DEF StartDestroy, NoOp
    <2>2. Start = queue_head
      BY <1>4 DEF StartDestroy, Unlocked, Start
    <2>3. UNCHANGED <<next, live, batch>>
      BY <1>4 DEF StartDestroy
    <2>4. Heap(n, f, m, g)'
      BY <2>1, <2>2, <2>3, ChainsSame DEF Shape, Start
    <2> QED BY <2>1, <2>3, <2>4 DEF Shape, Ends, WalkAt, Building
  <1>5. CASE DestroyEnds
    <2>1. op'.pc = "gone" /\ op'.removed = 0
      BY <1>5 DEF DestroyEnds, NoOp
    <2>2. Start = Null
      BY <1>5 DEF DestroyEnds, Start
    <2>3. UNCHANGED <<next, live, batch>>
      BY <1>5 DEF DestroyEnds
    <2>4. Heap(n, f, m, g)'
      BY <2>1, <2>2, <2>3, ChainsSame DEF Shape, Start
    <2> QED BY <2>1, <2>3, <2>4 DEF Shape, Ends, WalkAt, Building
  <1>6. CASE Gone \/ UNCHANGED vars
    <2>1. UNCHANGED vars
      BY <1>6 DEF Gone
    <2> QED BY <2>1 DEF vars, Shape, Heap, Start, Ends, WalkAt, Building
  <1> QED BY <1>1, <1>2, <1>3, <1>4, <1>5, <1>6

\* A walk starts at the head.
LEMMA StartWalkShape ==
  ASSUME TypeOK, NEW n, NEW f, NEW m, NEW g, NEW i, Shape(n, f, m, g, i), NEW r \in Reqs,
         NEW pc \in {"pop", "cancel"}, StartWalk(pc, r)
  PROVE  /\ Shape(n, f, m, g, 1)' /\ Chain(next, queue_head, n, f) /\ op.removed = 0
         /\ op' = [pc |-> pc, req |-> r, prev |-> Null, curr |-> queue_head, removed |-> 0]
PROOF
  <1> USE DEF heap, list
  <1>0. Chain(next, Start, n, f) /\ Chain(next, batch.head, m, g) /\ n \in Nat /\ m \in Nat
    BY DEF Shape, Heap, Chain
  <1>1. op' = [pc |-> pc, req |-> r, prev |-> Null, curr |-> queue_head, removed |-> 0]
    BY DEF StartWalk, NoOp
  <1>2. Start = queue_head /\ op.removed = 0 /\ op.pc = "none"
    BY DEF StartWalk, Unlocked, Start, Shape
  <1>3. UNCHANGED <<next, live, queue_head, queue_tail, queue_size, batch>>
    BY DEF StartWalk
  <1>4. Heap(n, f, m, g)'
    BY <1>1, <1>2, <1>3, ChainsSame DEF Shape, Start
  <1>5. WalkAt(n, f, 1)'
    <2>1. 1 \in 1 .. n + 1
      BY <1>0
    <2>2. op'.curr = At(n, f, 1) /\ op'.prev = Before(f, 1)
      BY <1>0, <1>1, <1>2, <2>1, WalkNode DEF Before
    <2> QED BY <2>1, <2>2 DEF WalkAt
  <1>6. Ends(n, f)'
    BY <1>1, <1>2, <1>3 DEF Shape, Ends
  <1>7. Shape(n, f, m, g, 1)'
    BY <1>1, <1>3, <1>4, <1>5, <1>6 DEF Shape, Building
  <1> QED BY <1>0, <1>1, <1>2, <1>7

\* A walk moves on by one node.
LEMMA SkipShape ==
  ASSUME TypeOK, NEW n, NEW f, NEW m, NEW g, NEW i, Shape(n, f, m, g, i), Skip
  PROVE  Shape(n, f, m, g, i + 1)' /\ i \in 1 .. n /\ op.curr = f[i]
PROOF
  <1> USE DEF heap, list
  <1>0. Chain(next, Start, n, f) /\ Chain(next, batch.head, m, g) /\ n \in Nat /\ m \in Nat
    BY DEF Shape, Heap, Chain
  <1>1. op.pc \in {"pop", "cancel"} /\ op.curr # Null
    BY DEF Skip, AtNode
  <1>2. /\ op'.pc = op.pc /\ op'.prev = op.curr /\ op'.curr = next[op.curr]
        /\ op'.removed = op.removed /\ op'.req = op.req
    BY DEF Skip, TypeOK
  <1>3. UNCHANGED <<next, live, queue_head, queue_tail, queue_size, batch>>
    BY DEF Skip
  <1>4. Heap(n, f, m, g)'
    BY <1>1, <1>2, <1>3, ChainsSame DEF Shape, Start
  <1>5. i \in 1 .. n /\ op.curr = f[i]
    <2>1. i \in 1 .. n + 1 /\ op.curr = At(n, f, i)
      BY <1>1 DEF Shape, WalkAt
    <2> QED BY <1>0, <1>1, <2>1, WalkNode
  <1>6. WalkAt(n, f, i + 1)'
    <2>1. i + 1 \in 1 .. n + 1 /\ i \in 1 .. n + 1
      BY <1>0, <1>5
    <2>2. next[f[i]] = At(n, f, i + 1) /\ f[i] = Before(f, i + 1)
      BY <1>0, <1>5, <2>1, WalkNode
    <2> QED BY <1>2, <1>5, <2>1, <2>2 DEF WalkAt
  <1>7. Ends(n, f)'
    BY <1>1, <1>2, <1>3 DEF Shape, Ends
  <1>8. Shape(n, f, m, g, i + 1)'
    BY <1>1, <1>2, <1>3, <1>4, <1>6, <1>7 DEF Shape, Building
  <1> QED BY <1>5, <1>8

\* One of two chains gets a node more; the other does not notice.
LEMMA AppendBeside ==
  ASSUME next \in [Nodes -> Pointer], NEW p, NEW n, NEW f, NEW q, NEW m, NEW g,
         Chain(next, p, n, f), Chain(next, q, m, g), NEW x \in Nodes,
         Members(n, f) \cap Members(m, g) = {}, x \notin Members(n, f) \cup Members(m, g)
  PROVE  /\ Chain(LinkAfter(LastOf(n, f), x), IF n = 0 THEN x ELSE p, n + 1,
                  Joined(n, f, 1, Alone(x)))
         /\ Chain(LinkAfter(LastOf(n, f), x), q, m, g)
         /\ Members(n + 1, Joined(n, f, 1, Alone(x))) = Members(n, f) \cup {x}
         /\ LastOf(n + 1, Joined(n, f, 1, Alone(x))) = x
PROOF
  <1>1. n \in Nat /\ (n # 0 => f[n] \in Nodes /\ f[n] \in Members(n, f))
    <2>1. n \in Nat
      BY DEF Chain
    <2>2. n # 0 => n \in 1 .. n
      BY <2>1
    <2> QED BY <2>1, <2>2 DEF Chain, Members
  <1>2. LinkAfter(LastOf(n, f), x) = Appended(next, n, f, x)
    BY <1>1, NullIsNone DEF LinkAfter, LastOf, Appended
  <1>3. /\ Chain(LinkAfter(LastOf(n, f), x), IF n = 0 THEN x ELSE p, n + 1,
                 Joined(n, f, 1, Alone(x)))
        /\ Members(n + 1, Joined(n, f, 1, Alone(x))) = Members(n, f) \cup {x}
        /\ LastOf(n + 1, Joined(n, f, 1, Alone(x))) = x
    <2>1. x \notin Members(n, f)
      OBVIOUS
    <2> QED BY <1>2, <2>1, ChainAppend
  <1>4. \A y \in Members(m, g) : LinkAfter(LastOf(n, f), x)[y] = next[y]
    <2> TAKE y \in Members(m, g)
    <2>1. y \in Nodes
      BY DEF Chain, Members
    <2>2. y # x /\ (n # 0 => y # f[n])
      BY <1>1
    <2> QED BY <1>1, <1>2, <2>1, <2>2 DEF Appended
  <1>5. Chain(LinkAfter(LastOf(n, f), x), q, m, g)
    BY <1>4, ChainKept
  <1> QED BY <1>3, <1>5

\* One of two chains loses a node; the other does not notice.
LEMMA DropBeside ==
  ASSUME next \in [Nodes -> Pointer], NEW p, NEW n, NEW f, NEW q, NEW m, NEW g,
         Chain(next, p, n, f), Chain(next, q, m, g), NEW i \in 1 .. n,
         Members(n, f) \cap Members(m, g) = {}
  PROVE  /\ Chain(Removed(next, f, i), IF i = 1 THEN next[f[i]] ELSE p, n - 1, Dropped(n, f, i))
         /\ Chain(Removed(next, f, i), q, m, g)
         /\ Members(n - 1, Dropped(n, f, i)) = Members(n, f) \ {f[i]}
         /\ LastOf(n - 1, Dropped(n, f, i))
              = IF f[i] = LastOf(n, f) THEN Before(f, i) ELSE LastOf(n, f)
         /\ At(n - 1, Dropped(n, f, i), i) = next[f[i]]
         /\ Before(Dropped(n, f, i), i) = Before(f, i)
PROOF
  <1> DEFINE new == Removed(next, f, i)
  <1>1. /\ Chain(new, IF i = 1 THEN next[f[i]] ELSE p, n - 1, Dropped(n, f, i))
        /\ Members(n - 1, Dropped(n, f, i)) = Members(n, f) \ {f[i]}
        /\ LastOf(n - 1, Dropped(n, f, i))
             = IF f[i] = LastOf(n, f) THEN Before(f, i) ELSE LastOf(n, f)
        /\ At(n - 1, Dropped(n, f, i), i) = next[f[i]]
        /\ Before(Dropped(n, f, i), i) = Before(f, i)
    BY ChainDrop
  <1>2. \A y \in Members(m, g) : new[y] = next[y]
    <2> TAKE y \in Members(m, g)
    <2>0. n \in Nat
      BY DEF Chain
    <2>1. i # 1 => i - 1 \in 1 .. n
      BY <2>0
    <2>2. f[i] \in Members(n, f) /\ (i # 1 => f[i - 1] \in Members(n, f))
      BY <2>1 DEF Members
    <2>3. y # f[i] /\ (i # 1 => y # f[i - 1])
      BY <2>2
    <2>5. y \in Nodes
      BY DEF Chain, Members
    <2>4. f[i] \in Nodes /\ (i # 1 => f[i - 1] \in Nodes)
      BY <2>1 DEF Chain
    <2> QED BY <2>3, <2>4, <2>5 DEF Removed
  <1>3. Chain(new, q, m, g)
    BY <1>2, ChainKept
  <1> QED BY <1>1, <1>3

\* worker_queue_push.
LEMMA PushShape ==
  ASSUME TypeOK, NEW n, NEW f, NEW m, NEW g, NEW i, Shape(n, f, m, g, i), NEW r \in Reqs, Push(r)
  PROVE  \E x \in Nodes : /\ Shape(n + 1, Joined(n, f, 1, Alone(x)), m, g, i)'
                          /\ NewNode(x, r) /\ x \notin Members(n, f) \cup Members(m, g)
PROOF
  <1> USE DEF heap, list
  <1>0. /\ Chain(next, queue_head, n, f) /\ Chain(next, batch.head, m, g) /\ n \in Nat
        /\ next \in [Nodes -> Pointer] /\ op.pc = "none" /\ op.removed = 0
        /\ Members(n, f) \cap Members(m, g) = {} /\ live = Members(n, f) \cup Members(m, g)
        /\ queue_tail = LastOf(n, f) /\ queue_size = n + op.removed
    BY DEF Shape, Heap, Ends, Start, Push, Unlocked, Chain, TypeOK
  <1>1. PICK x \in Nodes : /\ NewNode(x, r) /\ x \notin live /\ live' = live \cup {x}
                           /\ next' = LinkAfter(queue_tail, x)
                           /\ queue_head' = IF queue_tail = Null THEN x ELSE queue_head
                           /\ queue_tail' = x
    BY DEF Push, NewNode
  <1>2. queue_size' = n + 1 /\ UNCHANGED <<op, batch>>
    BY <1>0 DEF Push
  <1> DEFINE h == Joined(n, f, 1, Alone(x))
  <1>3. /\ Chain(LinkAfter(LastOf(n, f), x), IF n = 0 THEN x ELSE queue_head, n + 1, h)
        /\ Chain(LinkAfter(LastOf(n, f), x), batch.head, m, g)
        /\ Members(n + 1, h) = Members(n, f) \cup {x} /\ LastOf(n + 1, h) = x
    BY <1>0, <1>1, AppendBeside
  <1> HIDE DEF h
  <1>4. queue_tail = Null <=> n = 0
    <2>1. n # 0 => n \in 1 .. n
      BY <1>0
    <2>2. n # 0 => f[n] \in Nodes
      BY <1>0, <2>1 DEF Chain
    <2> QED BY <1>0, <2>2, NullIsNone DEF LastOf
  <1>5. Heap(n + 1, h, m, g)'
    <2>1. Start' = IF n = 0 THEN x ELSE queue_head
      BY <1>0, <1>1, <1>2, <1>4 DEF Start
    <2>2. next' = LinkAfter(LastOf(n, f), x)
      BY <1>0, <1>1
    <2>3. /\ Members(n + 1, h) \cap Members(m, g) = {}
          /\ live' = Members(n + 1, h) \cup Members(m, g)
      BY <1>0, <1>1, <1>3
    <2> QED BY <1>2, <1>3, <2>1, <2>2, <2>3 DEF Heap
  <1>6. Ends(n + 1, h)'
    <2>1. n + 1 = (n + 1) + 0
      BY <1>0
    <2> QED BY <1>0, <1>1, <1>2, <1>3, <2>1 DEF Ends
  <1>7. Shape(n + 1, h, m, g, i)'
    BY <1>0, <1>2, <1>5, <1>6 DEF Shape, WalkAt, Building
  <1> QED BY <1>0, <1>1, <1>7 DEF h

\* A node of the batch: create_batch_node, and its link.
LEMMA BuildShape ==
  ASSUME TypeOK, NEW n, NEW f, NEW m, NEW g, NEW i, Shape(n, f, m, g, i), BuildNode
  PROVE  \E x \in Nodes : /\ Shape(n, f, m + 1, Joined(m, g, 1, Alone(x)), i)'
                          /\ NewNode(x, batch.req) /\ x \notin Members(n, f) \cup Members(m, g)
                          /\ batch'.req = batch.req
PROOF
  <1> USE DEF heap, list
  <1>0. /\ Chain(next, Start, n, f) /\ Chain(next, batch.head, m, g) /\ n \in Nat /\ m \in Nat
        /\ next \in [Nodes -> Pointer]
        /\ Members(n, f) \cap Members(m, g) = {} /\ live = Members(n, f) \cup Members(m, g)
    BY DEF Shape, Heap, Chain, TypeOK
  <1>1. /\ batch.tail = LastOf(m, g) /\ batch.created = m /\ batch.left + m >= 1
        /\ batch.req \in Reqs /\ batch.left > 0 /\ batch.left \in Nat /\ batch.pc = "build"
    BY DEF Shape, Building, BuildNode, TypeOK
  <1>2. PICK x \in Nodes : /\ NewNode(x, batch.req) /\ x \notin live /\ live' = live \cup {x}
                           /\ next' = LinkAfter(batch.tail, x)
                           /\ batch' = [batch EXCEPT
                                 !.head = IF batch.tail = Null THEN x ELSE @,
                                 !.tail = x, !.left = @ - 1, !.created = @ + 1]
    BY DEF BuildNode, NewNode
  <1>3. /\ batch'.head = IF batch.tail = Null THEN x ELSE batch.head
        /\ batch'.tail = x /\ batch'.left = batch.left - 1 /\ batch'.created = m + 1
        /\ batch'.pc = "build" /\ batch'.req = batch.req
    BY <1>1, <1>2 DEF TypeOK
  <1> DEFINE h == Joined(m, g, 1, Alone(x))
  <1>4. /\ Chain(LinkAfter(LastOf(m, g), x), IF m = 0 THEN x ELSE batch.head, m + 1, h)
        /\ Chain(LinkAfter(LastOf(m, g), x), Start, n, f)
        /\ Members(m + 1, h) = Members(m, g) \cup {x} /\ LastOf(m + 1, h) = x
    <2>1. Members(m, g) \cap Members(n, f) = {} /\ x \notin Members(m, g) \cup Members(n, f)
      BY <1>0, <1>2
    <2> QED BY <1>0, <2>1, AppendBeside
  <1> HIDE DEF h
  <1>5. batch.tail = Null <=> m = 0
    <2>1. m # 0 => m \in 1 .. m
      BY <1>0
    <2>2. m # 0 => g[m] \in Nodes
      BY <1>0, <2>1 DEF Chain
    <2> QED BY <1>1, <2>2, NullIsNone DEF LastOf
  <1>6. UNCHANGED <<op, queue_head, queue_tail, queue_size>>
    BY DEF BuildNode
  <1>7. Heap(n, f, m + 1, h)'
    <2>1. Start' = Start /\ batch'.head = IF m = 0 THEN x ELSE batch.head
      BY <1>3, <1>5, <1>6 DEF Start
    <2>2. next' = LinkAfter(LastOf(m, g), x)
      BY <1>1, <1>2
    <2>3. /\ Members(n, f) \cap Members(m + 1, h) = {}
          /\ live' = Members(n, f) \cup Members(m + 1, h)
      BY <1>0, <1>2, <1>4
    <2> QED BY <1>4, <2>1, <2>2, <2>3 DEF Heap
  <1>8. Building(m + 1, h)'
    <2>1. batch'.left + (m + 1) >= 1
      BY <1>0, <1>1, <1>3
    <2> QED BY <1>1, <1>3, <1>4, <2>1 DEF Building
  <1>9. Shape(n, f, m + 1, h, i)'
    BY <1>6, <1>7, <1>8 DEF Shape, Ends, WalkAt
  <1> QED BY <1>0, <1>2, <1>3, <1>9 DEF h

\* attach_nodes_to_worker: the chain of the batch becomes the end of the list.
LEMMA AttachShape ==
  ASSUME TypeOK, NEW n, NEW f, NEW m, NEW g, NEW i, Shape(n, f, m, g, i), Attach
  PROVE  Shape(n + m, Joined(n, f, m, g), 0, Nobody, i)' /\ m >= 1
PROOF
  <1> USE DEF heap, list
  <1>0. /\ Chain(next, queue_head, n, f) /\ Chain(next, batch.head, m, g)
        /\ n \in Nat /\ m \in Nat /\ next \in [Nodes -> Pointer]
        /\ op.pc = "none" /\ op.removed = 0
        /\ Members(n, f) \cap Members(m, g) = {} /\ live = Members(n, f) \cup Members(m, g)
        /\ queue_tail = LastOf(n, f) /\ queue_size = n + op.removed
    BY DEF Shape, Heap, Ends, Start, Attach, Unlocked, Chain, TypeOK
  <1>1. batch.created = m /\ m >= 1
    <2>1. batch.created = m /\ batch.left = 0 /\ batch.left + m >= 1
      BY DEF Shape, Building, Attach
    <2> QED BY <1>0, <2>1
  <1>2. queue_tail = Null <=> n = 0
    <2>1. n # 0 => n \in 1 .. n
      BY <1>0
    <2>2. n # 0 => f[n] \in Nodes
      BY <1>0, <2>1 DEF Chain
    <2> QED BY <1>0, <2>2, NullIsNone DEF LastOf
  <1>3. NewTail = g[m]
    <2>1. From(batch.head) = g /\ Len(g) = m
      BY <1>0, FromAlong, ChainLength
    <2> QED BY <2>1 DEF NewTail
  <1>4. /\ next' = Linked(next, n, f, batch.head)
        /\ queue_head' = IF n = 0 THEN batch.head ELSE queue_head
        /\ queue_tail' = g[m]
        /\ live' = live /\ op' = op /\ batch' = NoBatch
    BY <1>0, <1>2, <1>3 DEF Attach, Linked, LastOf
  <1>5. queue_size' = n + m
    <2>1. queue_size' = queue_size + batch.created /\ queue_size = n + 0
      BY <1>0 DEF Attach
    <2> QED BY <1>0, <1>1, <2>1
  <1> DEFINE h == Joined(n, f, m, g)
  <1>6. /\ Chain(next', IF n = 0 THEN batch.head ELSE queue_head, n + m, h)
        /\ Members(n + m, h) = Members(n, f) \cup Members(m, g)
        /\ LastOf(n + m, h) = g[m]
    BY <1>0, <1>1, <1>4, ChainJoin
  <1>7. Chain(next', Null, 0, Nobody) /\ Members(0, Nobody) = {}
    BY NobodyChain
  <1> HIDE DEF h
  <1>8. Heap(n + m, h, 0, Nobody)'
    <2>1. Start' = IF n = 0 THEN batch.head ELSE queue_head
      BY <1>0, <1>4 DEF Start
    <2>2. batch'.head = Null
      BY <1>4 DEF NoBatch
    <2>3. Chain(next', Start', n + m, h) /\ Chain(next', batch'.head, 0, Nobody)
      BY <1>6, <1>7, <2>1, <2>2
    <2>4. /\ Members(n + m, h) \cap Members(0, Nobody) = {}
          /\ live' = Members(n + m, h) \cup Members(0, Nobody)
      BY <1>0, <1>4, <1>6, <1>7
    <2> QED BY <2>3, <2>4 DEF Heap
  <1>9. Ends(n + m, h)'
    <2>1. n + m = (n + m) + 0
      BY <1>0
    <2> QED BY <1>0, <1>4, <1>5, <1>6, <2>1 DEF Ends
  <1>10. Building(0, Nobody)'
    BY <1>4 DEF Building, NoBatch
  <1>11. Shape(n + m, h, 0, Nobody, i)'
    BY <1>0, <1>4, <1>8, <1>9, <1>10 DEF Shape, WalkAt
  <1> QED BY <1>1, <1>11 DEF h

\* A walk takes its node out of the list: what PopHit and CancelHit share.
LEMMA UnlinkList ==
  ASSUME TypeOK, NEW n, NEW f, NEW m, NEW g, NEW i, Shape(n, f, m, g, i), Unlink,
         op.pc \in {"pop", "cancel"}, op.curr # Null
  PROVE  /\ i \in 1 .. n /\ op.curr = f[i]
         /\ Chain(next', queue_head', n - 1, Dropped(n, f, i)) /\ Chain(next', batch.head, m, g)
         /\ Members(n - 1, Dropped(n, f, i)) \cap Members(m, g) = {}
         /\ live' = Members(n - 1, Dropped(n, f, i)) \cup Members(m, g)
         /\ queue_tail' = LastOf(n - 1, Dropped(n, f, i))
         /\ next[op.curr] = At(n - 1, Dropped(n, f, i), i)
         /\ op.prev = Before(Dropped(n, f, i), i)
PROOF
  <1>0. /\ Chain(next, queue_head, n, f) /\ Chain(next, batch.head, m, g)
        /\ n \in Nat /\ next \in [Nodes -> Pointer]
        /\ Members(n, f) \cap Members(m, g) = {} /\ live = Members(n, f) \cup Members(m, g)
        /\ queue_tail = LastOf(n, f)
    BY DEF Shape, Heap, Ends, Start, Chain, TypeOK
  <1>1. i \in 1 .. n + 1 /\ op.curr = At(n, f, i) /\ op.prev = Before(f, i)
    BY DEF Shape, WalkAt
  <1>2. /\ i \in 1 .. n /\ op.curr = f[i] /\ f[i] \in Members(n, f)
        /\ op.prev = Null <=> i = 1
    BY <1>0, <1>1, WalkNode
  <1>3. next' = Removed(next, f, i)
    BY <1>1, <1>2 DEF Unlink, Removed, Before
  <1>4. /\ queue_head' = IF i = 1 THEN next[f[i]] ELSE queue_head
        /\ queue_tail' = IF f[i] = LastOf(n, f) THEN Before(f, i) ELSE LastOf(n, f)
        /\ live' = live \ {f[i]}
    BY <1>0, <1>1, <1>2 DEF Unlink, HeadAfter, TailAfter, FreeNode
  <1> DEFINE h == Dropped(n, f, i)
  <1>5. /\ Chain(Removed(next, f, i), IF i = 1 THEN next[f[i]] ELSE queue_head, n - 1, h)
        /\ Chain(Removed(next, f, i), batch.head, m, g)
        /\ Members(n - 1, h) = Members(n, f) \ {f[i]}
        /\ LastOf(n - 1, h) = IF f[i] = LastOf(n, f) THEN Before(f, i) ELSE LastOf(n, f)
        /\ At(n - 1, h, i) = next[f[i]] /\ Before(h, i) = Before(f, i)
    BY <1>0, <1>2, DropBeside
  <1> HIDE DEF h
  <1>6. /\ Members(n - 1, h) \cap Members(m, g) = {}
        /\ live' = Members(n - 1, h) \cup Members(m, g)
    BY <1>0, <1>2, <1>4, <1>5
  <1>7. /\ Chain(next', queue_head', n - 1, h) /\ Chain(next', batch.head, m, g)
        /\ queue_tail' = LastOf(n - 1, h)
        /\ next[op.curr] = At(n - 1, h, i) /\ op.prev = Before(h, i)
    BY <1>1, <1>2, <1>3, <1>4, <1>5
  <1> QED BY <1>2, <1>6, <1>7 DEF h

\* A pop or a cancel removes the node it stands at.
LEMMA HitShape ==
  ASSUME TypeOK, NEW n, NEW f, NEW m, NEW g, NEW i, Shape(n, f, m, g, i), PopHit \/ CancelHit
  PROVE  Shape(n - 1, Dropped(n, f, i), m, g, i)' /\ i \in 1 .. n /\ op.curr = f[i]
PROOF
  <1> USE DEF heap, list
  <1>0. op.pc \in {"pop", "cancel"} /\ op.curr # Null /\ Unlink /\ batch' = batch
    BY DEF PopHit, CancelHit, AtNode
  <1> DEFINE h == Dropped(n, f, i)
  <1>1. /\ i \in 1 .. n /\ op.curr = f[i]
        /\ Chain(next', queue_head', n - 1, h) /\ Chain(next', batch.head, m, g)
        /\ Members(n - 1, h) \cap Members(m, g) = {}
        /\ live' = Members(n - 1, h) \cup Members(m, g)
        /\ queue_tail' = LastOf(n - 1, h)
        /\ next[op.curr] = At(n - 1, h, i) /\ op.prev = Before(h, i)
    BY <1>0, UnlinkList
  <1> HIDE DEF h
  <1>2. n \in Nat /\ queue_size = n + op.removed /\ op.removed \in Nat
    BY <1>0 DEF Shape, Heap, Chain, Ends, TypeOK
  <1>3. CASE PopHit
    <2>1. op' = NoOp /\ queue_size' = queue_size - 1 /\ op.removed = 0
      BY <1>3 DEF PopHit, Unlock, AtNode, Shape
    <2>2. queue_size' = (n - 1) + 0
      BY <1>2, <2>1
    <2>3. op'.pc = "none" /\ op'.removed = 0
      BY <2>1 DEF NoOp
    <2>4. Heap(n - 1, h, m, g)'
      <3>1. Start' = queue_head'
        BY <2>3 DEF Start
      <3> QED BY <1>0, <1>1, <3>1 DEF Heap
    <2>5. Ends(n - 1, h)'
      BY <1>1, <2>2, <2>3 DEF Ends
    <2>6. Shape(n - 1, h, m, g, i)'
      BY <1>0, <2>3, <2>4, <2>5 DEF Shape, WalkAt, Building
    <2> QED BY <1>1, <2>6 DEF h
  <1>4. CASE CancelHit
    <2>1. /\ op'.pc = "cancel" /\ op'.prev = op.prev /\ op'.curr = next[op.curr]
          /\ op'.removed = op.removed + 1 /\ op'.req = op.req
      BY <1>4 DEF CancelHit, AtNode, TypeOK
    <2>2. queue_size' = queue_size /\ queue_size = (n - 1) + (op.removed + 1)
      BY <1>2, <1>4 DEF CancelHit
    <2>3. Heap(n - 1, h, m, g)'
      <3>1. Start' = queue_head'
        BY <2>1 DEF Start
      <3> QED BY <1>0, <1>1, <3>1 DEF Heap
    <2>4. Ends(n - 1, h)'
      BY <1>1, <2>1, <2>2 DEF Ends
    <2>5. WalkAt(n - 1, h, i)'
      <3>1. i \in 1 .. (n - 1) + 1
        BY <1>1, <1>2
      <3> QED BY <1>1, <2>1, <3>1 DEF WalkAt
    <2>6. Shape(n - 1, h, m, g, i)'
      BY <1>0, <2>1, <2>3, <2>4, <2>5 DEF Shape, Building
    <2> QED BY <1>1, <2>6 DEF h
  <1> QED BY <1>3, <1>4

\* destroy_worker and the undoing of a batch free a chain from its head.
LEMMA FirstOfChain ==
  ASSUME TypeOK, NEW p, NEW n, NEW f, NEW q, NEW m, NEW g,
         Chain(next, p, n, f), Chain(next, q, m, g), p # Null,
         Members(n, f) \cap Members(m, g) = {}
  PROVE  /\ Chain([next EXCEPT ![p] = Null], next[p], n - 1, Dropped(n, f, 1))
         /\ Chain([next EXCEPT ![p] = Null], q, m, g)
         /\ Members(n - 1, Dropped(n, f, 1)) = Members(n, f) \ {p} /\ p \in Members(n, f)
PROOF
  <1>1. n \in Nat /\ n # 0 /\ p = f[1]
    BY DEF Chain
  <1>2. 1 \in 1 .. n /\ next \in [Nodes -> Pointer]
    BY <1>1 DEF TypeOK
  <1>3. Removed(next, f, 1) = [next EXCEPT ![p] = Null]
    BY <1>1 DEF Removed
  <1>4. /\ Chain(Removed(next, f, 1), IF 1 = 1 THEN next[f[1]] ELSE p, n - 1, Dropped(n, f, 1))
        /\ Chain(Removed(next, f, 1), q, m, g)
        /\ Members(n - 1, Dropped(n, f, 1)) = Members(n, f) \ {f[1]}
    BY <1>2, DropBeside
  <1>5. p \in Members(n, f)
    BY <1>1, <1>2 DEF Members
  <1> QED BY <1>1, <1>3, <1>4, <1>5

LEMMA UndoShape ==
  ASSUME TypeOK, NEW n, NEW f, NEW m, NEW g, NEW i, Shape(n, f, m, g, i), UndoNode
  PROVE  \/ Shape(n, f, m, g, i)' /\ UNCHANGED task
         \/ /\ Shape(n, f, m - 1, Dropped(m, g, 1), i)'
            /\ FreeNode(batch.head) /\ batch.head \notin Members(n, f)
PROOF
  <1> USE DEF heap, list
  <1>0. /\ Chain(next, Start, n, f) /\ Chain(next, batch.head, m, g) /\ batch.pc = "undo"
        /\ Members(n, f) \cap Members(m, g) = {} /\ live = Members(n, f) \cup Members(m, g)
    BY DEF Shape, Heap, UndoNode
  <1>1. UNCHANGED <<op, queue_head, queue_tail, queue_size>> /\ Start' = Start
    BY DEF UndoNode, Start
  <1>2. CASE batch.head = Null
    <2>1. batch' = NoBatch /\ UNCHANGED <<live, next>> /\ m = 0
      <3>1. m # 0 => batch.head \in Nodes
        <4>1. m # 0 => 1 \in 1 .. m
          BY <1>0 DEF Chain
        <4> QED BY <1>0, <4>1 DEF Chain
      <3> QED BY <1>2, <3>1, NullIsNone DEF UndoNode
    <2>2. batch'.head = batch.head /\ batch'.pc = "none"
      BY <1>2, <2>1 DEF NoBatch
    <2>3. Heap(n, f, m, g)'
      BY <1>1, <2>1, <2>2, ChainsSame DEF Shape
    <2>4. Shape(n, f, m, g, i)'
      BY <1>1, <2>1, <2>2, <2>3 DEF Shape, Ends, WalkAt, Building
    <2> QED BY <1>2, <2>4 DEF UndoNode
  <1>3. CASE batch.head # Null
    <2>1. /\ batch' = [batch EXCEPT !.head = next[batch.head]]
          /\ live' = live \ {batch.head} /\ next' = [next EXCEPT ![batch.head] = Null]
      BY <1>3 DEF UndoNode, FreeNode
    <2>2. batch'.head = next[batch.head] /\ batch'.pc = "undo"
      BY <1>0, <2>1 DEF TypeOK
    <2> DEFINE h == Dropped(m, g, 1)
    <2>3. /\ Chain([next EXCEPT ![batch.head] = Null], next[batch.head], m - 1, h)
          /\ Chain([next EXCEPT ![batch.head] = Null], Start, n, f)
          /\ Members(m - 1, h) = Members(m, g) \ {batch.head}
          /\ batch.head \in Members(m, g)
      <3>1. Members(m, g) \cap Members(n, f) = {}
        BY <1>0
      <3> QED BY <1>0, <1>3, <3>1, FirstOfChain
    <2> HIDE DEF h
    <2>4. Heap(n, f, m - 1, h)'
      <3>1. /\ Members(n, f) \cap Members(m - 1, h) = {}
            /\ live' = Members(n, f) \cup Members(m - 1, h)
        BY <1>0, <2>1, <2>3
      <3>2. Chain(next', Start', n, f) /\ Chain(next', batch'.head, m - 1, h)
        BY <1>1, <2>1, <2>2, <2>3
      <3> QED BY <3>1, <3>2 DEF Heap
    <2>5. Shape(n, f, m - 1, h, i)'
      BY <1>1, <2>2, <2>4 DEF Shape, Ends, WalkAt, Building
    <2>6. FreeNode(batch.head) /\ batch.head \notin Members(n, f)
      BY <1>0, <1>3, <2>3 DEF UndoNode
    <2> QED BY <2>5, <2>6 DEF h
  <1> QED BY <1>2, <1>3

LEMMA DestroyShape ==
  ASSUME TypeOK, NEW n, NEW f, NEW m, NEW g, NEW i, Shape(n, f, m, g, i), DestroyNode
  PROVE  /\ Shape(n - 1, Dropped(n, f, 1), m, g, i)'
         /\ op.pc = "destroy" /\ FreeNode(op.curr) /\ op.curr \notin Members(m, g)
PROOF
  <1> USE DEF heap, list
  <1>0. /\ Chain(next, op.curr, n, f) /\ Chain(next, batch.head, m, g)
        /\ op.pc = "destroy" /\ op.curr # Null
        /\ Members(n, f) \cap Members(m, g) = {} /\ live = Members(n, f) \cup Members(m, g)
    BY DEF Shape, Heap, Start, DestroyNode, AtNode
  <1>1. /\ op'.pc = "destroy" /\ op'.curr = next[op.curr] /\ op'.removed = op.removed
        /\ batch' = batch
        /\ live' = live \ {op.curr} /\ next' = [next EXCEPT ![op.curr] = Null]
    BY <1>0 DEF DestroyNode, FreeNode, TypeOK
  <1> DEFINE h == Dropped(n, f, 1)
  <1>2. /\ Chain([next EXCEPT ![op.curr] = Null], next[op.curr], n - 1, h)
        /\ Chain([next EXCEPT ![op.curr] = Null], batch.head, m, g)
        /\ Members(n - 1, h) = Members(n, f) \ {op.curr}
        /\ op.curr \in Members(n, f)
    BY <1>0, FirstOfChain
  <1> HIDE DEF h
  <1>3. Heap(n - 1, h, m, g)'
    <2>1. Start' = next[op.curr]
      BY <1>1 DEF Start
    <2>2. /\ Members(n - 1, h) \cap Members(m, g) = {}
          /\ live' = Members(n - 1, h) \cup Members(m, g)
      BY <1>0, <1>1, <1>2
    <2>3. Chain(next', Start', n - 1, h) /\ Chain(next', batch'.head, m, g)
      BY <1>1, <1>2, <2>1
    <2> QED BY <2>2, <2>3 DEF Heap
  <1>4. Shape(n - 1, h, m, g, i)'
    BY <1>0, <1>1, <1>3 DEF Shape, Ends, WalkAt, Building
  <1>5. FreeNode(op.curr) /\ op.curr \notin Members(m, g)
    BY <1>0, <1>2 DEF DestroyNode
  <1> QED BY <1>0, <1>4, <1>5 DEF h

\* Every step keeps the list a chain.
LEMMA ListStep ==
  ASSUME TypeOK, ListInv, [Next]_vars
  PROVE  ListInv'
PROOF
  <1>1. PICK n, f, m, g, i : Shape(n, f, m, g, i)
    BY DEF ListInv
  <1>2. ASSUME NEW r, NEW k,
               \/ r \in Reqs /\ k \in 1 .. MaxBatch /\ StartBatch(r, k)
               \/ BuildFails \/ WalkEnds \/ StartDestroy \/ DestroyEnds \/ Gone \/ UNCHANGED vars
        PROVE  ListInv'
    <2>1. Shape(n, f, m, g, i)'
      BY <1>1, <1>2, QuietShape
    <2> QED BY <2>1 DEF ListInv
  <1>3. ASSUME NEW r \in Reqs, Push(r) \/ StartWalk("pop", r) \/ StartWalk("cancel", r)
        PROVE  ListInv'
    <2>1. CASE Push(r)
      <3>1. \E x \in Nodes : Shape(n + 1, Joined(n, f, 1, Alone(x)), m, g, i)'
        BY <1>1, <2>1, PushShape
      <3> QED BY <3>1 DEF ListInv
    <2>2. CASE StartWalk("pop", r) \/ StartWalk("cancel", r)
      <3>1. Shape(n, f, m, g, 1)'
        BY <1>1, <2>2, StartWalkShape
      <3> QED BY <3>1 DEF ListInv
    <2> QED BY <1>3, <2>1, <2>2
  <1>4. ASSUME BuildNode PROVE ListInv'
    <2>1. \E x \in Nodes : Shape(n, f, m + 1, Joined(m, g, 1, Alone(x)), i)'
      BY <1>1, <1>4, BuildShape
    <2> QED BY <2>1 DEF ListInv
  <1>5. ASSUME Attach PROVE ListInv'
    <2>1. Shape(n + m, Joined(n, f, m, g), 0, Nobody, i)'
      BY <1>1, <1>5, AttachShape
    <2> QED BY <2>1 DEF ListInv
  <1>6. ASSUME Skip PROVE ListInv'
    <2>1. Shape(n, f, m, g, i + 1)'
      BY <1>1, <1>6, SkipShape
    <2> QED BY <2>1 DEF ListInv
  <1>7. ASSUME PopHit \/ CancelHit PROVE ListInv'
    <2>1. Shape(n - 1, Dropped(n, f, i), m, g, i)'
      BY <1>1, <1>7, HitShape
    <2> QED BY <2>1 DEF ListInv
  <1>8. ASSUME UndoNode PROVE ListInv'
    <2>1. Shape(n, f, m, g, i)' \/ Shape(n, f, m - 1, Dropped(m, g, 1), i)'
      BY <1>1, <1>8, UndoShape
    <2> QED BY <2>1 DEF ListInv
  <1>9. ASSUME DestroyNode PROVE ListInv'
    <2>1. Shape(n - 1, Dropped(n, f, 1), m, g, i)'
      BY <1>1, <1>9, DestroyShape
    <2> QED BY <2>1 DEF ListInv
  <1> QED BY <1>2, <1>3, <1>4, <1>5, <1>6, <1>7, <1>8, <1>9 DEF Next

-----------------------------------------------------------------------------
(* The type of a step.                                                     *)

\* A node and its task.
LEMMA NewNodeType ==
  ASSUME TypeOK, NEW x \in Nodes, NEW r \in Reqs, NewNode(x, r)
  PROVE  /\ live' \subseteq Nodes /\ task' \in [Nodes -> Task \cup {NoTask}]
         /\ task_id' \in 0 .. MaxTaskId
PROOF
  <1>1. task_id + 1 \in 1 .. MaxTaskId
    BY ListBounds DEF TypeOK, NewNode
  <1>2. [id |-> task_id + 1, req |-> r] \in Task
    BY <1>1 DEF Task
  <1>3. task' \in [Nodes -> Task \cup {NoTask}]
    BY <1>2 DEF TypeOK, NewNode
  <1> QED BY <1>1, <1>3 DEF TypeOK, NewNode

LEMMA FreeNodeType ==
  ASSUME TypeOK, NEW x, FreeNode(x)
  PROVE  live' \subseteq Nodes /\ task' \in [Nodes -> Task \cup {NoTask}]
  BY DEF TypeOK, FreeNode

\* Following and cutting links stays among the nodes.
LEMMA LinkTypes ==
  ASSUME TypeOK
  PROVE  /\ \A x \in Nodes : next[x] \in Pointer /\ x \in Pointer
         /\ Null \in Pointer /\ \A p \in Pointer : p # Null => p \in Nodes
         /\ \A p, x : p \in Pointer => [next EXCEPT ![x] = p] \in [Nodes -> Pointer]
         /\ \A t, x \in Nodes : LinkAfter(t, x) \in [Nodes -> Pointer]
         /\ \A x \in Nodes : LinkAfter(Null, x) \in [Nodes -> Pointer]
  BY DEF TypeOK, Pointer, LinkAfter

LEMMA TypeStep ==
  ASSUME TypeOK, ListInv, [Next]_vars
  PROVE  TypeOK'
PROOF
  <1> USE DEF heap, list
  <1>0. PICK n, f, m, g, i : Shape(n, f, m, g, i)
    BY DEF ListInv
  <1>t. /\ live \subseteq Nodes
        /\ task \in [Nodes -> Task \cup {NoTask}] /\ next \in [Nodes -> Pointer]
        /\ queue_head \in Pointer /\ queue_tail \in Pointer /\ queue_size \in Nat
        /\ task_id \in 0 .. MaxTaskId
        /\ op.req \in Reqs \cup {0} /\ op.prev \in Pointer /\ op.curr \in Pointer
        /\ op.removed \in Nat /\ batch.left \in Nat /\ batch.head \in Pointer
        /\ batch.tail \in Pointer /\ batch.created \in Nat
        /\ batch.req \in Reqs \cup {0}
    BY DEF TypeOK
  <1>o. /\ op \in [pc : {"none", "pop", "cancel", "destroy", "gone"}, req : Reqs \cup {0},
                   prev : Pointer, curr : Pointer, removed : Nat]
        /\ batch \in [pc : {"none", "build", "undo"}, req : Reqs \cup {0}, left : Nat,
                      head : Pointer, tail : Pointer, created : Nat]
        /\ NoOp \in [pc : {"none", "pop", "cancel", "destroy", "gone"}, req : Reqs \cup {0},
                     prev : Pointer, curr : Pointer, removed : Nat]
        /\ NoBatch \in [pc : {"none", "build", "undo"}, req : Reqs \cup {0}, left : Nat,
                        head : Pointer, tail : Pointer, created : Nat]
    BY DEF TypeOK, NoOp, NoBatch, Pointer
  <1>n. n \in Nat /\ m \in Nat /\ (op.pc \in {"pop", "cancel"} => queue_size = n + op.removed)
    BY <1>0 DEF Shape, Heap, Chain, Ends
  <1>1. ASSUME NEW r \in Reqs, Push(r) PROVE TypeOK'
    <2>1. PICK x \in Nodes : /\ NewNode(x, r) /\ next' = LinkAfter(queue_tail, x)
                             /\ queue_head' = IF queue_tail = Null THEN x ELSE queue_head
                             /\ queue_tail' = x
      BY <1>1 DEF Push
    <2>2. /\ live' \subseteq Nodes /\ task' \in [Nodes -> Task \cup {NoTask}]
          /\ task_id' \in 0 .. MaxTaskId
      BY <2>1, NewNodeType
    <2>3. next' \in [Nodes -> Pointer] /\ queue_head' \in Pointer /\ queue_tail' \in Pointer
      BY <1>t, <2>1, LinkTypes
    <2>4. queue_size' \in Nat /\ UNCHANGED <<op, batch>>
      BY <1>1, <1>t DEF Push
    <2> QED BY <1>o, <2>2, <2>3, <2>4 DEF TypeOK
  <1>2. ASSUME NEW r \in Reqs, NEW k \in 1 .. MaxBatch, StartBatch(r, k) PROVE TypeOK'
    <2>1. k \in Nat
      BY ListBounds
    <2>2. batch' \in [pc : {"none", "build", "undo"}, req : Reqs \cup {0}, left : Nat,
                      head : Pointer, tail : Pointer, created : Nat]
      BY <1>2, <1>o, <2>1 DEF StartBatch
    <2> QED BY <1>2, <2>2 DEF StartBatch, TypeOK
  <1>3. ASSUME BuildNode PROVE TypeOK'
    <2>1. batch.pc = "build" /\ batch.req \in Reqs /\ batch.left > 0
      BY <1>0, <1>3 DEF Shape, Building, BuildNode
    <2>2. PICK x \in Nodes : /\ NewNode(x, batch.req) /\ next' = LinkAfter(batch.tail, x)
                             /\ batch' = [batch EXCEPT
                                   !.head = IF batch.tail = Null THEN x ELSE @,
                                   !.tail = x, !.left = @ - 1, !.created = @ + 1]
      BY <1>3 DEF BuildNode
    <2>3. /\ live' \subseteq Nodes /\ task' \in [Nodes -> Task \cup {NoTask}]
          /\ task_id' \in 0 .. MaxTaskId
      BY <2>1, <2>2, NewNodeType
    <2>4. next' \in [Nodes -> Pointer] /\ x \in Pointer
      BY <1>t, <2>2, LinkTypes
    <2>5. batch.left - 1 \in Nat /\ batch.created + 1 \in Nat
      BY <1>t, <2>1
    <2>6. batch' \in [pc : {"none", "build", "undo"}, req : Reqs \cup {0}, left : Nat,
                      head : Pointer, tail : Pointer, created : Nat]
      BY <1>o, <2>2, <2>4, <2>5
    <2>7. UNCHANGED <<queue_head, queue_tail, queue_size, op>>
      BY <1>3 DEF BuildNode
    <2> QED BY <1>o, <1>t, <2>3, <2>4, <2>6, <2>7 DEF TypeOK
  <1>4. ASSUME BuildFails PROVE TypeOK'
    BY <1>4, <1>o DEF BuildFails, TypeOK
  <1>5. ASSUME UndoNode PROVE TypeOK'
    <2>1. UNCHANGED <<queue_head, queue_tail, queue_size, op, task_id>>
      BY <1>5 DEF UndoNode
    <2>2. CASE batch.head = Null
      BY <1>5, <1>o, <1>t, <2>1, <2>2 DEF UndoNode, TypeOK
    <2>3. CASE batch.head # Null
      <3>1. /\ batch' = [batch EXCEPT !.head = next[batch.head]]
            /\ FreeNode(batch.head) /\ next' = [next EXCEPT ![batch.head] = Null]
        BY <1>5, <2>3 DEF UndoNode
      <3>2. next[batch.head] \in Pointer
        BY <1>t, <2>3, LinkTypes
      <3>3. batch' \in [pc : {"none", "build", "undo"}, req : Reqs \cup {0}, left : Nat,
                        head : Pointer, tail : Pointer, created : Nat]
        BY <1>o, <3>1, <3>2
      <3>4. next' \in [Nodes -> Pointer]
        BY <3>1, LinkTypes
      <3>5. live' \subseteq Nodes /\ task' \in [Nodes -> Task \cup {NoTask}]
        BY <3>1, FreeNodeType
      <3> QED BY <1>o, <1>t, <2>1, <3>3, <3>4, <3>5 DEF TypeOK
    <2> QED BY <2>2, <2>3
  <1>6. ASSUME Attach PROVE TypeOK'
    <2>1. Chain(next, batch.head, m, g) /\ m >= 1
      <3>1. batch.left = 0 /\ batch.left + m >= 1
        BY <1>0, <1>6 DEF Shape, Building, Attach
      <3> QED BY <1>0, <1>n, <3>1 DEF Shape, Heap
    <2>2. NewTail \in Pointer
      <3>1. From(batch.head) = g /\ Len(g) = m /\ m \in 1 .. m
        BY <1>n, <2>1, FromAlong, ChainLength
      <3>2. g[m] \in Nodes
        BY <2>1, <3>1 DEF Chain
      <3> QED BY <3>1, <3>2 DEF NewTail, Pointer
    <2>3. next' \in [Nodes -> Pointer]
      BY <1>6, <1>t, LinkTypes DEF Attach
    <2>4. queue_size' \in Nat
      BY <1>6, <1>t DEF Attach
    <2>5. /\ queue_tail' \in Pointer /\ queue_head' \in Pointer /\ batch' = NoBatch
          /\ UNCHANGED <<live, task, op, task_id>>
      BY <1>6, <1>t, <2>2 DEF Attach
    <2> QED BY <1>o, <1>t, <2>3, <2>4, <2>5 DEF TypeOK
  <1>7. ASSUME NEW r \in Reqs, NEW pc \in {"pop", "cancel"}, StartWalk(pc, r) PROVE TypeOK'
    <2>1. op' = [pc |-> pc, req |-> r, prev |-> Null, curr |-> queue_head, removed |-> 0]
      BY <1>7 DEF StartWalk, NoOp
    <2>2. op' \in [pc : {"none", "pop", "cancel", "destroy", "gone"}, req : Reqs \cup {0},
                   prev : Pointer, curr : Pointer, removed : Nat]
      BY <1>t, <2>1, LinkTypes
    <2> QED BY <1>7, <1>o, <1>t, <2>2 DEF StartWalk, TypeOK
  <1>8. ASSUME Skip PROVE TypeOK'
    <2>1. next[op.curr] \in Pointer
      BY <1>8, <1>t, LinkTypes DEF Skip, AtNode
    <2>2. op' \in [pc : {"none", "pop", "cancel", "destroy", "gone"}, req : Reqs \cup {0},
                   prev : Pointer, curr : Pointer, removed : Nat]
      BY <1>8, <1>o, <1>t, <2>1 DEF Skip
    <2> QED BY <1>8, <1>o, <1>t, <2>2 DEF Skip, TypeOK
  <1>9. ASSUME Unlink, op.pc \in {"pop", "cancel"}, op.curr # Null
        PROVE  /\ live' \subseteq Nodes /\ task' \in [Nodes -> Task \cup {NoTask}]
               /\ next' \in [Nodes -> Pointer] /\ next[op.curr] \in Pointer
               /\ queue_head' \in Pointer /\ queue_tail' \in Pointer
               /\ queue_size > 0
    <2>1. next[op.curr] \in Pointer
      BY <1>9, <1>t, LinkTypes
    <2>2. live' \subseteq Nodes /\ task' \in [Nodes -> Task \cup {NoTask}]
      BY <1>9, FreeNodeType DEF Unlink
    <2>3. queue_head' \in Pointer /\ queue_tail' \in Pointer
      BY <1>9, <1>t, <2>1 DEF Unlink, HeadAfter, TailAfter
    <2>4. next' \in [Nodes -> Pointer]
      BY <1>9, <1>t, <2>1, LinkTypes DEF Unlink
    <2>5. queue_size > 0
      <3>1. i \in 1 .. n
        BY <1>0, <1>9, UnlinkList
      <3> QED BY <1>9, <1>n, <1>t, <3>1
    <2> QED BY <2>1, <2>2, <2>3, <2>4, <2>5
  <1>10. ASSUME PopHit PROVE TypeOK'
    <2>1. /\ Unlink /\ op.pc \in {"pop", "cancel"} /\ op.curr # Null
          /\ op' = NoOp /\ queue_size' = queue_size - 1 /\ UNCHANGED <<batch, task_id>>
      BY <1>10 DEF PopHit, AtNode, Unlock
    <2>2. queue_size' \in Nat
      BY <1>9, <1>t, <2>1
    <2> QED BY <1>9, <1>o, <1>t, <2>1, <2>2 DEF TypeOK
  <1>11. ASSUME CancelHit PROVE TypeOK'
    <2>1. /\ Unlink /\ op.pc \in {"pop", "cancel"} /\ op.curr # Null
          /\ op' = [op EXCEPT !.curr = next[op.curr], !.removed = @ + 1]
          /\ UNCHANGED <<queue_size, batch, task_id>>
      BY <1>11 DEF CancelHit, AtNode
    <2>3. next[op.curr] \in Pointer /\ op.removed + 1 \in Nat
      BY <1>9, <1>t, <2>1
    <2>2. op' \in [pc : {"none", "pop", "cancel", "destroy", "gone"}, req : Reqs \cup {0},
                   prev : Pointer, curr : Pointer, removed : Nat]
      BY <1>o, <2>1, <2>3
    <2> QED BY <1>9, <1>o, <1>t, <2>1, <2>2 DEF TypeOK
  <1>12. ASSUME WalkEnds PROVE TypeOK'
    <2>1. queue_size' = queue_size - op.removed /\ op.pc \in {"pop", "cancel"}
      BY <1>12 DEF WalkEnds, SizeAfter
    <2>2. queue_size' \in Nat
      BY <1>n, <1>t, <2>1
    <2> QED BY <1>12, <1>o, <1>t, <2>2 DEF WalkEnds, Unlock, TypeOK
  <1>13. ASSUME StartDestroy PROVE TypeOK'
    <2>0. op' = [pc |-> "destroy", req |-> 0, prev |-> Null, curr |-> queue_head,
                 removed |-> 0]
      BY <1>13 DEF StartDestroy, NoOp
    <2>1. op' \in [pc : {"none", "pop", "cancel", "destroy", "gone"}, req : Reqs \cup {0},
                   prev : Pointer, curr : Pointer, removed : Nat]
      BY <1>t, <2>0, LinkTypes
    <2> QED BY <1>13, <1>o, <1>t, <2>1 DEF StartDestroy, TypeOK
  <1>14. ASSUME DestroyNode PROVE TypeOK'
    <2>1. /\ op.curr # Null /\ op' = [op EXCEPT !.curr = next[op.curr]]
          /\ FreeNode(op.curr) /\ next' = [next EXCEPT ![op.curr] = Null]
          /\ UNCHANGED <<queue_head, queue_tail, queue_size, batch, task_id>>
      BY <1>14 DEF DestroyNode, AtNode
    <2>2. next[op.curr] \in Pointer /\ next' \in [Nodes -> Pointer]
      BY <1>t, <2>1, LinkTypes
    <2>3. op' \in [pc : {"none", "pop", "cancel", "destroy", "gone"}, req : Reqs \cup {0},
                   prev : Pointer, curr : Pointer, removed : Nat]
      BY <1>o, <2>1, <2>2
    <2>4. live' \subseteq Nodes /\ task' \in [Nodes -> Task \cup {NoTask}]
      BY <2>1, FreeNodeType
    <2> QED BY <1>o, <1>t, <2>1, <2>2, <2>3, <2>4 DEF TypeOK
  <1>15. ASSUME DestroyEnds PROVE TypeOK'
    <2>1. op' \in [pc : {"none", "pop", "cancel", "destroy", "gone"}, req : Reqs \cup {0},
                   prev : Pointer, curr : Pointer, removed : Nat]
      BY <1>15, <1>o DEF DestroyEnds
    <2> QED BY <1>15, <1>o, <1>t, <2>1 DEF DestroyEnds, TypeOK
  <1>16. ASSUME Gone \/ UNCHANGED vars PROVE TypeOK'
    BY <1>16 DEF Gone, vars, TypeOK
  <1> QED
    BY <1>1, <1>2, <1>3, <1>4, <1>5, <1>6, <1>7, <1>8, <1>10, <1>11, <1>12, <1>13, <1>14,
       <1>15, <1>16 DEF Next

-----------------------------------------------------------------------------
(* The theorems.                                                           *)

LEMMA InitType == Init => TypeOK
  BY ListBounds DEF Init, TypeOK, NoOp, NoBatch, Pointer

\* What the runs check follows from the shape of the list.
LEMMA ShapeShows ==
  ASSUME TypeOK, ListInv
  PROVE  EndsAgree /\ NodesOwned
PROOF
  <1>1. PICK n, f, m, g, i : Shape(n, f, m, g, i)
    BY DEF ListInv
  <1>2. /\ Chain(next, Start, n, f) /\ Chain(next, batch.head, m, g) /\ n \in Nat
        /\ Members(n, f) \cap Members(m, g) = {} /\ live = Members(n, f) \cup Members(m, g)
    BY <1>1 DEF Shape, Heap, Chain
  <1>3. /\ From(Start) = f /\ NodesFrom(Start) = Members(n, f)
        /\ NodesFrom(batch.head) = Members(m, g)
        /\ Len(f) = n /\ (f = <<>> <=> n = 0)
    BY <1>2, FromAlong, ChainLength
  <1>4. EndsAgree
    <2> SUFFICES ASSUME Unlocked
                 PROVE  /\ queue_size = Len(From(queue_head))
                        /\ queue_tail = IF From(queue_head) = <<>> THEN Null
                                        ELSE From(queue_head)[Len(From(queue_head))]
      BY DEF EndsAgree
    <2>1. op.pc = "none" /\ Start = queue_head
      BY DEF Unlocked, Start
    <2>2. queue_tail = LastOf(n, f) /\ queue_size = n + 0
      BY <1>1, <2>1 DEF Shape, Ends
    <2> QED BY <1>2, <1>3, <2>1, <2>2 DEF LastOf
  <1>5. NodesOwned
    <2>1. op.pc = "gone" => Members(n, f) = {}
      <3>1. op.pc = "gone" => Start = Null
        BY DEF Start
      <3>2. n # 0 => Start \in Nodes
        <4>1. n # 0 => 1 \in 1 .. n
          BY <1>2
        <4> QED BY <1>2, <4>1 DEF Chain
      <3>3. n = 0 => 1 .. n = {}
        OBVIOUS
      <3> QED BY <3>1, <3>2, <3>3, NullIsNone DEF Members
    <2> QED BY <1>2, <1>3, <2>1 DEF NodesOwned, Start
  <1> QED BY <1>4, <1>5

LEMMA ListInvariant == Spec => [](TypeOK /\ ListInv)
PROOF
  <1>1. Init => TypeOK /\ ListInv
    BY InitType, InitShape
  <1>2. TypeOK /\ ListInv /\ [Next]_vars => (TypeOK /\ ListInv)'
    BY TypeStep, ListStep
  <1> QED BY <1>1, <1>2, PTL DEF Spec

\* Every pointer leads to a node or nowhere, and every allocated node has a task
\* of the list's types: worker_queue_push, the walks and destroy_worker.
THEOREM TypeCorrect == Spec => []TypeOK
  BY ListInvariant, PTL

\* Whenever the mutex is free, queue_tail is the last node behind queue_head and
\* queue_size their number: worker_queue_push links behind queue_tail unseen.
THEOREM EndsAgreeHolds == Spec => []EndsAgree
PROOF
  <1>1. TypeOK /\ ListInv => EndsAgree
    BY ShapeShows
  <1> QED BY <1>1, ListInvariant, PTL

\* Every allocated node is in the list or in the batch under construction, never
\* in both: no walk reads freed memory, and nothing leaks.
THEOREM NodesOwnedHolds == Spec => []NodesOwned
PROOF
  <1>1. TypeOK /\ ListInv => NodesOwned
    BY ShapeShows
  <1> QED BY <1>1, ListInvariant, PTL

-----------------------------------------------------------------------------
(* The list is a queue.                                                    *)

\* The tasks of the nodes of a chain.
Tasks(t, n, f) == [k \in 1 .. n |-> t[f[k]]]

\* The places of the list, as it was when the walk began, of the tasks it removed.
Taken(i) == {j \in DOMAIN before : j < i + op.removed /\ before[j].req = op.req}

\* What a walk has done to the list: place says where each node was.
Walked(n, f, i, place) ==
    /\ op.pc = "pop" => /\ before = Tasks(task, n, f)
                        /\ \A k \in 1 .. n : k < i => task[f[k]].req # op.req
    /\ op.pc = "cancel" =>
         /\ DOMAIN before = 1 .. n + op.removed /\ Len(before) = n + op.removed
         /\ place \in [1 .. n -> DOMAIN before \ Taken(i)]
         /\ \A k, l \in 1 .. n : k < l => place[k] < place[l]
         /\ \A k \in 1 .. n : /\ task[f[k]] = before[place[k]]
                              /\ k >= i => place[k] = k + op.removed
         /\ Cardinality(Taken(i)) = op.removed

\* All tasks of a batch are of its request.
Batched(m, g) == batch.pc = "build" => \A k \in 1 .. m : task[g[k]].req = batch.req

Walking(n, f, m, g, i, place) ==
    Shape(n, f, m, g, i) /\ Walked(n, f, i, place) /\ Batched(m, g)

QueueInv == \E n, f, m, g, i, place : Walking(n, f, m, g, i, place)

LEMMA TasksLength ==
  ASSUME NEW n \in Nat, NEW f \in [1 .. n -> Nodes],
         NEW t \in [Nodes -> Task \cup {NoTask}]
  PROVE  /\ DOMAIN Tasks(t, n, f) = 1 .. n /\ Len(Tasks(t, n, f)) = n
         /\ \A k \in 1 .. n : Tasks(t, n, f)[k] = t[f[k]]
         /\ n = 0 => Tasks(t, n, f) = <<>>
PROOF
  <1>1. /\ DOMAIN Tasks(t, n, f) = 1 .. n
        /\ \A k \in 1 .. n : Tasks(t, n, f)[k] = t[f[k]]
    BY DEF Tasks
  <1>2. Tasks(t, n, f) \in [1 .. n -> Task \cup {NoTask}]
    <2>1. \A k \in 1 .. n : t[f[k]] \in Task \cup {NoTask}
      OBVIOUS
    <2> QED BY <2>1 DEF Tasks
  <1>3. Tasks(t, n, f) \in Seq(Task \cup {NoTask})
    BY <1>2
  <1>4. Len(Tasks(t, n, f)) = n
    BY <1>1, <1>3
  <1>5. n = 0 => Tasks(t, n, f) = <<>>
    BY <1>1, <1>3, <1>4
  <1> QED BY <1>1, <1>4, <1>5

\* The contents of the list, before and after a step.
LEMMA ListedTasks ==
  ASSUME NEW n, NEW f
  PROVE  /\ Chain(next, queue_head, n, f) => Listed = Tasks(task, n, f)
         /\ Chain(next', queue_head', n, f) => Listed' = Tasks(task', n, f)
PROOF
  <1>1. From(queue_head) = Along(next, queue_head)
    BY DEF From, Along, Hops
  <1>2. From(queue_head)' = Along(next', queue_head')
    BY DEF From, Along, Hops
  <1>3. \A links, p : Chain(links, p, n, f) => Along(links, p) = f /\ DOMAIN f = 1 .. n
    <2> TAKE links, p
    <2> HAVE Chain(links, p, n, f)
    <2>1. DOMAIN f = 1 .. n
      BY DEF Chain
    <2> QED BY <2>1, ChainAlong
  <1>4. Listed = [k \in DOMAIN From(queue_head) |-> task[From(queue_head)[k]]]
    BY DEF Listed
  <1>5. Listed' = [k \in DOMAIN From(queue_head)' |-> task'[From(queue_head)'[k]]]
    BY DEF Listed
  <1> QED BY <1>1, <1>2, <1>3, <1>4, <1>5 DEF Tasks

\* What the queue holds.
LEMMA ContentsTasks ==
  ASSUME NEW n, NEW f
  PROVE  /\ (\E m, g : Heap(n, f, m, g)) =>
              Contents = IF op.pc = "none" THEN Tasks(task, n, f)
                         ELSE IF op.pc = "gone" THEN <<>> ELSE before
         /\ (\E m, g : Heap(n, f, m, g)') =>
              Contents' = IF op'.pc = "none" THEN Tasks(task', n, f)
                          ELSE IF op'.pc = "gone" THEN <<>> ELSE before'
  BY ListedTasks DEF Contents, Unlocked, Heap, Start

\* A node that is not in a chain may change its task.
LEMMA TasksKept ==
  ASSUME NEW links, NEW p, NEW n, NEW f, Chain(links, p, n, f), NEW t, NEW new,
         \A x \in Members(n, f) : new[x] = t[x]
  PROVE  Tasks(new, n, f) = Tasks(t, n, f) /\ \A k \in 1 .. n : new[f[k]] = t[f[k]]
  BY DEF Tasks, Members

\* A node that is not in a chain is made or freed.
LEMMA OthersTask ==
  ASSUME TypeOK, NEW x, NEW links, NEW p, NEW n, NEW f, Chain(links, p, n, f),
         x \notin Members(n, f), FreeNode(x) \/ (\E r : NewNode(x, r))
  PROVE  \A y \in Members(n, f) : task'[y] = task[y]
PROOF
  <1>1. \A y \in Members(n, f) : y \in Nodes /\ y # x
    BY DEF Chain, Members
  <1> QED BY <1>1 DEF TypeOK, FreeNode, NewNode

\* The step adds the tasks behind place n to what the queue holds.
LEMMA QueueAdd ==
  ASSUME NEW n \in Nat, NEW k \in Nat, NEW f \in [1 .. n -> Nodes],
         NEW h \in [1 .. k -> Nodes], n < k, NEW r \in Reqs,
         NEW t \in [Nodes -> Task \cup {NoTask}], NEW u \in [Nodes -> Task \cup {NoTask}],
         Contents = Tasks(t, n, f), Contents' = Tasks(u, k, h),
         \A j \in 1 .. n : u[h[j]] = t[f[j]],
         \A j \in n + 1 .. k : u[h[j]].req = r, ret' = ret
  PROVE  Queue!Add
PROOF
  <1>1. /\ DOMAIN Contents = 1 .. n /\ Len(Contents) = n
        /\ \A j \in 1 .. n : Contents[j] = t[f[j]]
    BY TasksLength
  <1>2. /\ DOMAIN Contents' = 1 .. k /\ Len(Contents') = k
        /\ \A j \in 1 .. k : Contents'[j] = u[h[j]]
    BY TasksLength
  <1>3. \A j \in 1 .. n : j \in 1 .. k
    OBVIOUS
  <1>4. \A j \in n + 1 .. k : j \in 1 .. k
    OBVIOUS
  <1>5. \A j \in DOMAIN Contents : Contents'[j] = Contents[j]
    BY <1>1, <1>2, <1>3
  <1>6. \A j \in Len(Contents) + 1 .. Len(Contents') : Contents'[j].req = r
    BY <1>1, <1>2, <1>4
  <1> QED BY <1>1, <1>2, <1>5, <1>6 DEF Queue!Add

\* worker_queue_push adds one task.
LEMMA PushAdds ==
  ASSUME TypeOK, TypeOK', NEW n, NEW f, NEW m, NEW g, NEW i, NEW place,
         Walking(n, f, m, g, i, place), NEW r \in Reqs, Push(r)
  PROVE  QueueInv' /\ Queue!Add
PROOF
  <1> USE DEF heap, list
  <1>0. Shape(n, f, m, g, i) /\ op.pc = "none" /\ UNCHANGED <<op, batch, ret>>
    BY DEF Walking, Push, Unlocked
  <1>1. PICK x \in Nodes : /\ Shape(n + 1, Joined(n, f, 1, Alone(x)), m, g, i)'
                           /\ NewNode(x, r) /\ x \notin Members(n, f) \cup Members(m, g)
    BY <1>0, PushShape
  <1> DEFINE h == Joined(n, f, 1, Alone(x))
  <1>2. /\ Heap(n, f, m, g) /\ Heap(n + 1, h, m, g)'
        /\ Chain(next, Start, n, f) /\ Chain(next, batch.head, m, g) /\ n \in Nat
        /\ f \in [1 .. n -> Nodes]
    BY <1>0, <1>1 DEF Shape, Heap, Chain
  <1>3. n + 1 \in Nat /\ h \in [1 .. n + 1 -> Nodes]
    BY <1>1 DEF Shape, Heap, Chain
  <1>4. Contents = Tasks(task, n, f) /\ Contents' = Tasks(task', n + 1, h)
    BY <1>0, <1>2, ContentsTasks
  <1>5. /\ \A j \in 1 .. n : task'[f[j]] = task[f[j]]
        /\ \A j \in 1 .. m : task'[g[j]] = task[g[j]]
    <2>1. /\ \A y \in Members(n, f) : task'[y] = task[y]
          /\ \A y \in Members(m, g) : task'[y] = task[y]
      BY <1>1, <1>2, OthersTask
    <2> QED BY <2>1 DEF Members
  <1>6. /\ \A j \in 1 .. n : h[j] = f[j]
        /\ h[n + 1] = x
    <2>1. \A j \in 1 .. n : j \in 1 .. n + 1 /\ j <= n
      BY <1>2
    <2>2. n + 1 \in 1 .. n + 1 /\ ~(n + 1 <= n) /\ (n + 1) - n = 1 /\ 1 \in 1 .. 1
      BY <1>2
    <2> QED BY <2>1, <2>2 DEF Joined, Alone
  <1>7. task'[x].req = r
    BY <1>1 DEF NewNode, TypeOK
  <1> HIDE DEF h
  <1>8. \A j \in n + 1 .. n + 1 : task'[h[j]].req = r
    <2>1. \A j \in n + 1 .. n + 1 : j = n + 1
      BY <1>2
    <2> QED BY <1>6, <1>7, <2>1
  <1>9. Queue!Add
    <2>1. \A j \in 1 .. n : task'[h[j]] = task[f[j]]
      BY <1>5, <1>6
    <2>2. task \in [Nodes -> Task \cup {NoTask}] /\ task' \in [Nodes -> Task \cup {NoTask}]
      BY DEF TypeOK
    <2>3. n < n + 1
      BY <1>2
    <2> QED BY <1>0, <1>2, <1>3, <1>4, <1>8, <2>1, <2>2, <2>3, QueueAdd
  <1>10. QueueInv'
    <2>1. Walked(n + 1, h, i, place)'
      BY <1>0 DEF Walked
    <2>2. Batched(m, g)'
      BY <1>0, <1>5 DEF Walking, Batched
    <2>3. Walking(n + 1, h, m, g, i, place)'
      BY <1>1, <2>1, <2>2 DEF Walking, h
    <2> QED BY <2>3 DEF QueueInv
  <1> QED BY <1>9, <1>10

\* attach_nodes_to_worker adds the tasks of the batch.
LEMMA AttachAdds ==
  ASSUME TypeOK, TypeOK', NEW n, NEW f, NEW m, NEW g, NEW i, NEW place,
         Walking(n, f, m, g, i, place), Attach
  PROVE  QueueInv' /\ Queue!Add
PROOF
  <1> USE DEF heap, list
  <1>0. /\ Shape(n, f, m, g, i) /\ op.pc = "none" /\ UNCHANGED <<op, task, ret>>
        /\ batch' = NoBatch /\ batch.pc = "build"
    BY DEF Walking, Attach, Unlocked
  <1> DEFINE h == Joined(n, f, m, g)
  <1>1. Shape(n + m, h, 0, Nobody, i)' /\ m >= 1
    BY <1>0, AttachShape
  <1>2. /\ Heap(n, f, m, g) /\ n \in Nat /\ m \in Nat
        /\ f \in [1 .. n -> Nodes] /\ batch.req \in Reqs
        /\ \A k \in 1 .. m : task[g[k]].req = batch.req
    BY <1>0 DEF Walking, Shape, Heap, Chain, Building, Batched
  <1>3. Heap(n + m, h, 0, Nobody)' /\ n + m \in Nat /\ h \in [1 .. n + m -> Nodes]
    BY <1>1 DEF Shape, Heap, Chain
  <1>4. Contents = Tasks(task, n, f) /\ Contents' = Tasks(task', n + m, h)
    BY <1>0, <1>2, <1>3, ContentsTasks
  <1>5. /\ \A j \in 1 .. n : h[j] = f[j]
        /\ \A j \in n + 1 .. n + m : h[j] = g[j - n] /\ j - n \in 1 .. m
    <2>1. \A j \in 1 .. n : j \in 1 .. n + m /\ j <= n
      BY <1>2
    <2>2. \A j \in n + 1 .. n + m : j \in 1 .. n + m /\ ~(j <= n) /\ j - n \in 1 .. m
      BY <1>2
    <2> QED BY <2>1, <2>2 DEF Joined
  <1> HIDE DEF h
  <1>6. Queue!Add
    <2>1. \A j \in 1 .. n : task'[h[j]] = task[f[j]]
      BY <1>0, <1>5
    <2>2. \A j \in n + 1 .. n + m : task'[h[j]].req = batch.req
      BY <1>0, <1>2, <1>5
    <2>3. task \in [Nodes -> Task \cup {NoTask}] /\ task' \in [Nodes -> Task \cup {NoTask}]
      BY DEF TypeOK
    <2>4. n < n + m
      BY <1>1, <1>2
    <2>5. PICK k \in Nat : k = n + m
      BY <1>3
    <2>6. /\ Contents' = Tasks(task', k, h) /\ h \in [1 .. k -> Nodes] /\ n < k
          /\ \A j \in n + 1 .. k : task'[h[j]].req = batch.req
      BY <1>3, <1>4, <2>2, <2>4, <2>5
    <2> QED BY <1>0, <1>2, <1>4, <2>1, <2>3, <2>6, QueueAdd
  <1>7. QueueInv'
    <2>1. Walked(n + m, h, i, place)' /\ Batched(0, Nobody)'
      BY <1>0 DEF Walked, Batched, NoBatch
    <2>2. Walking(n + m, h, 0, Nobody, i, place)'
      BY <1>1, <2>1 DEF Walking
    <2> QED BY <2>2 DEF QueueInv
  <1> QED BY <1>6, <1>7

\* Steps beside the list: a batch is started, built, given up or undone.
LEMMA BatchSteps ==
  ASSUME TypeOK, NEW n, NEW f, NEW m, NEW g, NEW i, NEW place,
         Walking(n, f, m, g, i, place), NEW r, NEW k,
         \/ r \in Reqs /\ k \in 1 .. MaxBatch /\ StartBatch(r, k)
         \/ BuildNode \/ BuildFails \/ UndoNode
  PROVE  QueueInv' /\ UNCHANGED <<Contents, ret>>
PROOF
  <1> USE DEF heap, list
  <1>0. /\ Shape(n, f, m, g, i) /\ Heap(n, f, m, g)
        /\ Chain(next, Start, n, f) /\ Chain(next, batch.head, m, g) /\ n \in Nat /\ m \in Nat
    BY DEF Walking, Shape, Heap, Chain
  <1>1. UNCHANGED <<op, before, ret, queue_head>>
    BY DEF StartBatch, BuildNode, BuildFails, UndoNode
  <1>2. \E l, h : Shape(n, f, l, h, i)' /\ Batched(l, h)'
    <2>1. CASE r \in Reqs /\ k \in 1 .. MaxBatch /\ StartBatch(r, k)
      <3>1. Shape(n, f, m, g, i)'
        BY <1>0, <2>1, QuietShape
      <3>2. m = 0
        BY <1>0, <2>1 DEF StartBatch, Shape, Building
      <3>3. \A j \in 1 .. m : FALSE
        BY <3>2
      <3>4. Batched(m, g)'
        BY <3>3 DEF Batched
      <3> QED BY <3>1, <3>4
    <2>2. CASE BuildNode
      <3>1. PICK x \in Nodes : /\ Shape(n, f, m + 1, Joined(m, g, 1, Alone(x)), i)'
                               /\ NewNode(x, batch.req)
                               /\ x \notin Members(n, f) \cup Members(m, g)
                               /\ batch'.req = batch.req
        BY <1>0, <2>2, BuildShape
      <3> DEFINE h == Joined(m, g, 1, Alone(x))
      <3>2. \A j \in 1 .. m : task'[g[j]] = task[g[j]]
        <4>1. \A y \in Members(m, g) : task'[y] = task[y]
          BY <1>0, <3>1, OthersTask
        <4> QED BY <4>1 DEF Members
      <3>3. task'[x].req = batch.req
        BY <3>1 DEF NewNode, TypeOK
      <3>4. \A j \in 1 .. m + 1 : \/ j \in 1 .. m /\ h[j] = g[j]
                                  \/ h[j] = x
        <4> TAKE j \in 1 .. m + 1
        <4>1. CASE j <= m
          <5>1. j \in 1 .. m
            BY <1>0, <4>1
          <5> QED BY <4>1, <5>1 DEF Joined
        <4>2. CASE ~(j <= m)
          <5>1. j - m = 1 /\ 1 \in 1 .. 1
            BY <1>0, <4>2
          <5> QED BY <4>2, <5>1 DEF Joined, Alone
        <4> QED BY <4>1, <4>2
      <3> HIDE DEF h
      <3>5. \A j \in 1 .. m : task[g[j]].req = batch.req
        BY <2>2 DEF Walking, Batched, BuildNode
      <3>6. Batched(m + 1, h)'
        BY <3>1, <3>2, <3>3, <3>4, <3>5 DEF Batched
      <3> QED BY <3>1, <3>6 DEF h
    <2>3. CASE BuildFails
      <3>1. Shape(n, f, m, g, i)'
        BY <1>0, <2>3, QuietShape
      <3>2. batch'.pc = "undo"
        BY <2>3 DEF BuildFails, TypeOK
      <3> QED BY <3>1, <3>2 DEF Batched
    <2>4. CASE UndoNode
      <3>1. batch'.pc # "build"
        BY <2>4 DEF UndoNode, NoBatch, TypeOK
      <3>2. \A l, h : Batched(l, h)'
        BY <3>1 DEF Batched
      <3> QED BY <1>0, <2>4, <3>2, UndoShape
    <2> QED BY <2>1, <2>2, <2>3, <2>4
  <1>3. \A y \in Members(n, f) : task'[y] = task[y]
    <2>1. CASE UNCHANGED task
      BY <2>1
    <2>2. CASE BuildNode
      BY <1>0, <2>2, BuildShape, OthersTask
    <2>3. CASE UndoNode /\ ~UNCHANGED task
      BY <1>0, <2>3, UndoShape, OthersTask
    <2> QED BY <2>1, <2>2, <2>3 DEF StartBatch, BuildFails
  <1>4. Tasks(task', n, f) = Tasks(task, n, f) /\ \A j \in 1 .. n : task'[f[j]] = task[f[j]]
    BY <1>0, <1>3, TasksKept
  <1>5. PICK l, h : Shape(n, f, l, h, i)' /\ Batched(l, h)'
    BY <1>2
  <1>6. Contents' = Contents
    <2>1. Heap(n, f, l, h)'
      BY <1>5 DEF Shape
    <2> QED BY <1>0, <1>1, <1>4, <2>1, ContentsTasks
  <1>7. Walked(n, f, i, place)'
    <2>1. Taken(i)' = Taken(i)
      BY <1>1 DEF Taken
    <2> QED BY <1>1, <1>4, <2>1 DEF Walking, Walked
  <1>8. Walking(n, f, l, h, i, place)'
    BY <1>5, <1>7 DEF Walking
  <1> QED BY <1>1, <1>6, <1>8 DEF QueueInv

\* A walk begins: the queue holds what it held, now in before.
LEMMA StartWalkSteps ==
  ASSUME TypeOK, NEW n, NEW f, NEW m, NEW g, NEW i, NEW place,
         Walking(n, f, m, g, i, place), NEW r \in Reqs,
         NEW pc \in {"pop", "cancel"}, StartWalk(pc, r)
  PROVE  QueueInv' /\ UNCHANGED <<Contents, ret>>
PROOF
  <1> USE DEF heap, list
  <1>0. /\ Shape(n, f, m, g, i) /\ Heap(n, f, m, g) /\ n \in Nat /\ f \in [1 .. n -> Nodes]
        /\ op.pc = "none" /\ UNCHANGED <<task, batch, ret>> /\ before' = Listed
    BY DEF Walking, Shape, Heap, Chain, StartWalk, Unlocked
  <1>1. /\ Shape(n, f, m, g, 1)' /\ Chain(next, queue_head, n, f)
        /\ op' = [pc |-> pc, req |-> r, prev |-> Null, curr |-> queue_head, removed |-> 0]
    BY <1>0, StartWalkShape
  <1>2. before' = Tasks(task, n, f)
    BY <1>0, <1>1, ListedTasks
  <1>3. Contents' = Contents
    <2>1. Heap(n, f, m, g)'
      BY <1>1 DEF Shape
    <2> QED BY <1>0, <1>1, <1>2, <2>1, ContentsTasks
  <1>4. /\ DOMAIN before' = 1 .. n /\ Len(before') = n
        /\ \A k \in 1 .. n : before'[k] = task[f[k]]
    BY <1>0, <1>2, TasksLength DEF TypeOK
  <1> DEFINE same == [k \in 1 .. n |-> k]
  <1>5. Taken(1)' = {}
    <2>1. \A j \in 1 .. n : ~(j < 1 + 0)
      BY <1>0
    <2> QED BY <1>1, <1>4, <2>1 DEF Taken
  <1>6. Walked(n, f, 1, same)'
    <2>1. /\ n + 0 = n /\ \A k \in 1 .. n : k + 0 = k /\ ~(k < 1)
          /\ \A k \in 1 .. n : same[k] = k
          /\ same \in [1 .. n -> 1 .. n]
      BY <1>0
    <2>2. Cardinality({}) = 0
      BY FS_EmptySet
    <2> HIDE DEF same
    <2>3. op'.pc = "pop" => /\ before' = Tasks(task', n, f)
                            /\ \A k \in 1 .. n : k < 1 => task'[f[k]].req # op'.req
      BY <1>0, <1>2, <2>1
    <2>4. /\ DOMAIN before' = 1 .. n + op'.removed /\ Len(before') = n + op'.removed
          /\ same \in [1 .. n -> DOMAIN before' \ Taken(1)']
          /\ Cardinality(Taken(1)') = op'.removed
      BY <1>1, <1>4, <1>5, <2>1, <2>2
    <2>5. /\ \A k, l \in 1 .. n : k < l => same[k] < same[l]
          /\ \A k \in 1 .. n : /\ task'[f[k]] = before'[same[k]]
                               /\ k >= 1 => same[k] = k + op'.removed
      BY <1>0, <1>1, <1>4, <2>1
    <2> QED BY <2>3, <2>4, <2>5 DEF Walked
  <1>7. Batched(m, g)'
    BY <1>0 DEF Walking, Batched
  <1>8. Walking(n, f, m, g, 1, same)'
    BY <1>1, <1>6, <1>7 DEF Walking
  <1> QED BY <1>0, <1>3, <1>8 DEF QueueInv

\* A walk passes a node of another request: nothing is taken.
LEMMA SkipSteps ==
  ASSUME TypeOK, NEW n, NEW f, NEW m, NEW g, NEW i, NEW place,
         Walking(n, f, m, g, i, place), Skip
  PROVE  QueueInv' /\ UNCHANGED <<Contents, ret>>
PROOF
  <1> USE DEF heap, list
  <1>0. /\ Shape(n, f, m, g, i) /\ Heap(n, f, m, g) /\ n \in Nat
        /\ UNCHANGED <<task, batch, ret, before>> /\ op.pc \in {"pop", "cancel"}
        /\ op.removed \in Nat
    BY DEF Walking, Shape, Heap, Chain, Skip, AtNode, TypeOK
  <1>1. Shape(n, f, m, g, i + 1)' /\ i \in 1 .. n /\ op.curr = f[i]
    BY <1>0, SkipShape
  <1>2. op'.pc = op.pc /\ op'.removed = op.removed /\ op'.req = op.req
    BY DEF Skip, TypeOK
  <1>3. task[f[i]].req # op.req
    BY <1>1 DEF Skip, Hit
  <1>4. Contents' = Contents
    <2>1. Heap(n, f, m, g)'
      BY <1>1 DEF Shape
    <2> QED BY <1>0, <1>2, <2>1, ContentsTasks
  <1>5. ASSUME op.pc = "pop" PROVE Walked(n, f, i + 1, place)'
    <2>1. \A k \in 1 .. n : k < i + 1 => k < i \/ k = i
      BY <1>0, <1>1
    <2>2. Walked(n, f, i + 1, place)'
      BY <1>0, <1>2, <1>3, <1>5, <2>1 DEF Walking, Walked
    <2> QED BY <2>2
  <1>6. ASSUME op.pc = "cancel" PROVE Walked(n, f, i + 1, place)'
    <2>0. Walked(n, f, i, place)
      BY DEF Walking
    <2>1. /\ DOMAIN before = 1 .. n + op.removed
          /\ before[i + op.removed] = task[f[i]]
      BY <1>1, <1>6, <2>0 DEF Walked
    <2>2. Taken(i + 1)' = Taken(i)
      <3>1. \A j \in 1 .. n + op.removed :
               j < (i + 1) + op.removed <=> j < i + op.removed \/ j = i + op.removed
        BY <1>0, <1>1
      <3> QED BY <1>0, <1>2, <1>3, <2>1, <3>1 DEF Taken
    <2>3. \A k \in 1 .. n : k >= i + 1 => k >= i
      BY <1>0, <1>1
    <2>4. Walked(n, f, i + 1, place)'
      BY <1>0, <1>2, <1>6, <2>0, <2>2, <2>3 DEF Walked
    <2> QED BY <2>4
  <1>7. Batched(m, g)'
    BY <1>0 DEF Walking, Batched
  <1>8. Walking(n, f, m, g, i + 1, place)'
    BY <1>0, <1>1, <1>5, <1>6, <1>7 DEF Walking
  <1> QED BY <1>0, <1>4, <1>8 DEF QueueInv

\* A cancel takes the task it stands at.
LEMMA CancelSteps ==
  ASSUME TypeOK, NEW n, NEW f, NEW m, NEW g, NEW i, NEW place,
         Walking(n, f, m, g, i, place), CancelHit
  PROVE  QueueInv' /\ UNCHANGED <<Contents, ret>>
PROOF
  <1> USE DEF heap, list
  <1>0. /\ Shape(n, f, m, g, i) /\ Heap(n, f, m, g) /\ n \in Nat
        /\ Chain(next, Start, n, f) /\ Chain(next, batch.head, m, g)
        /\ UNCHANGED <<batch, ret, before>> /\ op.pc = "cancel" /\ op.removed \in Nat
        /\ Members(n, f) \cap Members(m, g) = {}
    BY DEF Walking, Shape, Heap, Chain, CancelHit, AtNode, TypeOK
  <1> DEFINE h == Dropped(n, f, i)
             q == Dropped(n, place, i)
             c == op.removed
             j0 == i + c
  <1>1. Shape(n - 1, h, m, g, i)' /\ i \in 1 .. n /\ op.curr = f[i]
    BY <1>0, HitShape
  <1>2. op'.pc = "cancel" /\ op'.removed = c + 1 /\ op'.req = op.req /\ FreeNode(op.curr)
    BY <1>0 DEF CancelHit, Unlink, TypeOK
  <1>3. task[f[i]].req = op.req
    BY <1>1 DEF CancelHit, Hit
  <1>4. Contents' = Contents
    <2>1. Heap(n - 1, h, m, g)'
      BY <1>1 DEF Shape
    <2> QED BY <1>0, <1>2, <2>1, ContentsTasks
  <1>5. /\ DOMAIN before = 1 .. n + c /\ Len(before) = n + c
        /\ place \in [1 .. n -> (1 .. n + c) \ Taken(i)]
        /\ \A k, l \in 1 .. n : k < l => place[k] < place[l]
        /\ \A k \in 1 .. n : /\ task[f[k]] = before[place[k]]
                             /\ k >= i => place[k] = k + c
        /\ Cardinality(Taken(i)) = c
    BY <1>0 DEF Walking, Walked
  <1>6. j0 \in 1 .. n + c /\ place[i] = j0 /\ before[j0].req = op.req
    BY <1>0, <1>1, <1>3, <1>5
  <1>7. Taken(i)' = Taken(i) \cup {j0}
    <2>1. \A j \in 1 .. n + c : j < i + (c + 1) <=> j < i + c \/ j = j0
      BY <1>0, <1>1
    <2> QED BY <1>0, <1>2, <1>5, <1>6, <2>1 DEF Taken
  <1>8. Cardinality(Taken(i)') = c + 1
    <2>1. j0 \notin Taken(i)
      BY <1>0, <1>1 DEF Taken
    <2>2. IsFiniteSet(Taken(i))
      <3>1. Taken(i) \in SUBSET (1 .. n + c)
        BY <1>5 DEF Taken
      <3>2. IsFiniteSet(1 .. n + c)
        BY <1>0, FS_Interval
      <3> QED BY <3>1, <3>2, FS_Subset
    <2> HIDE DEF j0
    <2> QED BY <1>5, <1>7, <2>1, <2>2, FS_AddElement
  <1>9. \A k \in 1 .. n - 1 :
           \/ /\ k < i /\ k \in 1 .. n /\ h[k] = f[k] /\ q[k] = place[k]
           \/ /\ ~(k < i) /\ k + 1 \in 1 .. n /\ k + 1 > i
              /\ h[k] = f[k + 1] /\ q[k] = place[k + 1]
    BY <1>0, <1>1 DEF Dropped
  <1>10. q = [k \in 1 .. n - 1 |-> q[k]]
    BY DEF Dropped
  <1> HIDE DEF h, q
  <1>11. \A k \in 1 .. n : place[k] \in Nat
    BY <1>5, <1>0
  <1>12. \A k \in 1 .. n - 1 : q[k] \in (1 .. n + c) \ Taken(i)'
    <2> TAKE k \in 1 .. n - 1
    <2>1. CASE k < i /\ k \in 1 .. n /\ q[k] = place[k]
      <3>1. place[k] < place[i]
        BY <1>1, <1>5, <2>1
      <3>2. place[k] # j0
        BY <1>1, <1>6, <1>11, <2>1, <3>1
      <3> QED BY <1>5, <1>7, <2>1, <3>2
    <2>2. CASE k + 1 \in 1 .. n /\ k + 1 > i /\ q[k] = place[k + 1]
      <3>1. place[i] < place[k + 1]
        BY <1>1, <1>5, <2>2
      <3>2. place[k + 1] # j0
        BY <1>1, <1>6, <1>11, <2>2, <3>1
      <3> QED BY <1>5, <1>7, <2>2, <3>2
    <2> QED BY <1>9, <2>1, <2>2
  <1>13. \A k, l \in 1 .. n - 1 : k < l => q[k] < q[l]
    <2> TAKE k, l \in 1 .. n - 1
    <2> HAVE k < l
    <2>1. CASE k < i /\ l < i
      BY <1>5, <1>9, <2>1
    <2>2. CASE k < i /\ ~(l < i)
      <3>1. k \in 1 .. n /\ l + 1 \in 1 .. n /\ k < l + 1 /\ q[k] = place[k] /\ q[l] = place[l + 1]
        BY <1>9, <2>2
      <3> QED BY <1>5, <3>1
    <2>3. CASE ~(k < i) /\ ~(l < i)
      <3>1. /\ k + 1 \in 1 .. n /\ l + 1 \in 1 .. n /\ k + 1 < l + 1
            /\ q[k] = place[k + 1] /\ q[l] = place[l + 1]
        BY <1>9, <2>3
      <3> QED BY <1>5, <3>1
    <2>4. ~(~(k < i) /\ l < i)
      BY <1>1
    <2> QED BY <2>1, <2>2, <2>3, <2>4
  <1>14. \A k \in 1 .. n - 1 : /\ task'[h[k]] = before[q[k]]
                               /\ k >= i => q[k] = k + (c + 1)
    <2>1. \A l \in 1 .. n : l # i => task'[f[l]] = task[f[l]]
      <3>1. \A l \in 1 .. n : l # i => f[l] # f[i]
        BY <1>0, <1>1 DEF Chain
      <3> QED BY <1>0, <1>1, <1>2, <3>1 DEF FreeNode, TypeOK, Chain
    <2> TAKE k \in 1 .. n - 1
    <2>2. CASE k < i /\ k \in 1 .. n /\ h[k] = f[k] /\ q[k] = place[k]
      BY <1>1, <1>5, <2>1, <2>2
    <2>3. CASE ~(k < i) /\ k + 1 \in 1 .. n /\ k + 1 > i /\ h[k] = f[k + 1] /\ q[k] = place[k + 1]
      <3>1. task'[h[k]] = before[q[k]]
        BY <1>1, <1>5, <2>1, <2>3
      <3>2. q[k] = (k + 1) + c
        BY <1>1, <1>5, <2>3
      <3> QED BY <1>0, <3>1, <3>2
    <2> QED BY <1>9, <2>2, <2>3
  <1>15. Walked(n - 1, h, i, q)'
    <2>1. n + c = (n - 1) + (c + 1)
      BY <1>0
    <2>2. q \in [1 .. n - 1 -> (1 .. n + c) \ Taken(i)']
      BY <1>10, <1>12
    <2>3. /\ DOMAIN before' = 1 .. (n - 1) + op'.removed /\ Len(before') = (n - 1) + op'.removed
          /\ q \in [1 .. n - 1 -> DOMAIN before' \ Taken(i)']
          /\ Cardinality(Taken(i)') = op'.removed
      BY <1>0, <1>2, <1>5, <1>8, <2>1, <2>2
    <2>4. \A k \in 1 .. n - 1 : /\ task'[h[k]] = before'[q[k]]
                                /\ k >= i => q[k] = k + op'.removed
      BY <1>0, <1>2, <1>14
    <2> QED BY <1>2, <1>13, <2>3, <2>4 DEF Walked
  <1>16. Batched(m, g)'
    <2>1. op.curr \notin Members(m, g)
      BY <1>0, <1>1 DEF Members
    <2>2. \A y \in Members(m, g) : task'[y] = task[y]
      BY <1>0, <1>2, <2>1, OthersTask
    <2>3. \A k \in 1 .. m : task'[g[k]] = task[g[k]]
      BY <2>2 DEF Members
    <2> QED BY <1>0, <2>3 DEF Walking, Batched
  <1>17. Walking(n - 1, h, m, g, i, q)'
    BY <1>1, <1>15, <1>16 DEF Walking, h
  <1> QED BY <1>0, <1>4, <1>17 DEF QueueInv

\* The queue counts as the list does.
LEMMA QueueCounts == \A S : Queue!Cardinality(S) = Cardinality(S)
  BY DEF Queue!Cardinality, Cardinality

\* A pop takes the first task of its request.
LEMMA PopTakes ==
  ASSUME TypeOK, TypeOK', NEW n, NEW f, NEW m, NEW g, NEW i, NEW place,
         Walking(n, f, m, g, i, place), PopHit
  PROVE  QueueInv' /\ \E r \in Reqs : Queue!TakeFirst(r)
PROOF
  <1> USE DEF heap, list
  <1>0. /\ Shape(n, f, m, g, i) /\ Heap(n, f, m, g) /\ n \in Nat /\ f \in [1 .. n -> Nodes]
        /\ Chain(next, Start, n, f) /\ Chain(next, batch.head, m, g)
        /\ batch' = batch /\ op.pc = "pop" /\ op.req \in Reqs
        /\ Members(n, f) \cap Members(m, g) = {}
    BY DEF Walking, Shape, Heap, Chain, PopHit, AtNode
  <1> DEFINE h == Dropped(n, f, i)
  <1>1. Shape(n - 1, h, m, g, i)' /\ i \in 1 .. n /\ op.curr = f[i]
    BY <1>0, HitShape
  <1>2. op'.pc = "none" /\ FreeNode(op.curr) /\ ret' = [task |-> task[op.curr], n |-> 1]
    BY DEF PopHit, Unlink, Unlock, NoOp
  <1>3. task[f[i]].req = op.req
    BY <1>1 DEF PopHit, Hit
  <1>4. /\ Heap(n - 1, h, m, g)' /\ n - 1 \in Nat /\ h \in [1 .. n - 1 -> Nodes]
    BY <1>1 DEF Shape, Heap, Chain
  <1>5. /\ before = Tasks(task, n, f)
        /\ \A k \in 1 .. n : k < i => task[f[k]].req # op.req
    BY <1>0 DEF Walking, Walked
  <1>6. Contents = Tasks(task, n, f) /\ Contents' = Tasks(task', n - 1, h)
    BY <1>0, <1>2, <1>4, <1>5, ContentsTasks
  <1>7. /\ DOMAIN Contents = 1 .. n /\ \A k \in 1 .. n : Contents[k] = task[f[k]]
        /\ DOMAIN Contents' = 1 .. n - 1 /\ \A k \in 1 .. n - 1 : Contents'[k] = task'[h[k]]
    BY <1>6 DEF Tasks
  <1>8. \A k \in 1 .. n - 1 :
           \/ k < i /\ k \in 1 .. n /\ k # i /\ h[k] = f[k]
           \/ ~(k < i) /\ k + 1 \in 1 .. n /\ k + 1 # i /\ h[k] = f[k + 1]
    BY <1>0, <1>1 DEF Dropped
  <1> HIDE DEF h
  <1>9. \A l \in 1 .. n : l # i => task'[f[l]] = task[f[l]]
    <2>1. \A l \in 1 .. n : l # i => f[l] # f[i]
      BY <1>0, <1>1 DEF Chain
    <2> QED BY <1>0, <1>1, <1>2, <2>1 DEF FreeNode, TypeOK
  <1> DEFINE q == [k \in 1 .. n - 1 |-> IF k < i THEN k ELSE k + 1]
  <1>10. Queue!Keep(DOMAIN Contents \ {i})
    <2>1. Cardinality((1 .. n) \ {i}) = n - 1
      <3>1. IsFiniteSet(1 .. n) /\ Cardinality(1 .. n) = n
        BY <1>0, FS_Interval
      <3> QED BY <1>1, <3>1, FS_RemoveElement
    <2>2. q \in [1 .. n - 1 -> (1 .. n) \ {i}]
      BY <1>0, <1>1
    <2>3. \A k, l \in 1 .. n - 1 : k < l => q[k] < q[l]
      BY <1>0, <1>1
    <2>4. \A k \in 1 .. n - 1 : Contents'[k] = Contents[q[k]]
      <3> TAKE k \in 1 .. n - 1
      <3>1. q[k] = IF k < i THEN k ELSE k + 1
        OBVIOUS
      <3> HIDE DEF q
      <3>2. CASE k < i /\ k \in 1 .. n /\ k # i /\ h[k] = f[k]
        BY <1>7, <1>9, <3>1, <3>2
      <3>3. CASE ~(k < i) /\ k + 1 \in 1 .. n /\ k + 1 # i /\ h[k] = f[k + 1]
        BY <1>7, <1>9, <3>1, <3>3
      <3> QED BY <1>8, <3>2, <3>3
    <2> HIDE DEF q
    <2>5. DOMAIN Contents' = 1 .. Cardinality(DOMAIN Contents \ {i})
      BY <1>7, <2>1
    <2>6. q \in [DOMAIN Contents' -> DOMAIN Contents \ {i}]
      BY <1>7, <2>2
    <2>7. /\ \A k, l \in DOMAIN Contents' : k < l => q[k] < q[l]
          /\ \A k \in DOMAIN Contents' : Contents'[k] = Contents[q[k]]
      BY <1>7, <2>3, <2>4
    <2> QED BY <2>5, <2>6, <2>7, QueueCounts DEF Queue!Keep
  <1>11. Queue!TakeFirst(op.req)
    <2>1. i \in Queue!OfRequest(op.req) /\ Contents[i] = task[op.curr]
      BY <1>1, <1>3, <1>7 DEF Queue!OfRequest
    <2>2. \A j \in Queue!OfRequest(op.req) : i <= j
      <3> TAKE j \in Queue!OfRequest(op.req)
      <3>1. j \in 1 .. n /\ task[f[j]].req = op.req
        BY <1>7 DEF Queue!OfRequest
      <3>2. ~(j < i)
        BY <1>5, <3>1
      <3> QED BY <1>1, <3>1, <3>2
    <2> QED BY <1>2, <1>10, <2>1, <2>2 DEF Queue!TakeFirst
  <1>12. Batched(m, g)'
    <2>1. op.curr \notin Members(m, g)
      BY <1>0, <1>1 DEF Members
    <2>2. \A y \in Members(m, g) : task'[y] = task[y]
      BY <1>0, <1>2, <2>1, OthersTask
    <2>3. \A k \in 1 .. m : task'[g[k]] = task[g[k]]
      BY <2>2 DEF Members
    <2> QED BY <1>0, <2>3 DEF Walking, Batched
  <1>13. Walking(n - 1, h, m, g, i, place)'
    BY <1>1, <1>2, <1>12 DEF Walking, Walked, h
  <1> QED BY <1>0, <1>11, <1>13 DEF QueueInv

\* A walk ends: a pop found nothing, a cancel took all that there was.
LEMMA WalkEndsTakes ==
  ASSUME TypeOK, NEW n, NEW f, NEW m, NEW g, NEW i, NEW place,
         Walking(n, f, m, g, i, place), WalkEnds
  PROVE  QueueInv' /\ \E r \in Reqs : Queue!FindNone(r) \/ Queue!RemoveAll(r)
PROOF
  <1> USE DEF heap, list
  <1>0. /\ Shape(n, f, m, g, i) /\ Heap(n, f, m, g) /\ n \in Nat /\ f \in [1 .. n -> Nodes]
        /\ batch' = batch /\ task' = task /\ op.pc \in {"pop", "cancel"} /\ op.req \in Reqs
        /\ op.removed \in Nat /\ Chain(next, Start, n, f)
    BY DEF Walking, Shape, Heap, Chain, WalkEnds, TypeOK
  <1>1. Shape(n, f, m, g, i)' /\ op'.pc = "none"
    BY <1>0, QuietShape DEF WalkEnds, Unlock, NoOp
  <1>2. ret' = [task |-> NoTask, n |-> op.removed] /\ op.curr = Null
    BY DEF WalkEnds
  <1>3. i = n + 1
    <2>1. i \in 1 .. n + 1 /\ op.curr = At(n, f, i)
      BY <1>0 DEF Shape, WalkAt
    <2>2. i \in 1 .. n => f[i] # Null
      BY <1>0, NullIsNone
    <2>3. i # n + 1 => i \in 1 .. n
      BY <1>0, <2>1
    <2> QED BY <1>2, <2>1, <2>2, <2>3 DEF At
  <1>4. Contents = before /\ Contents' = Tasks(task, n, f)
    <2>1. Heap(n, f, m, g)'
      BY <1>1 DEF Shape
    <2> QED BY <1>0, <1>1, <2>1, ContentsTasks
  <1>5. /\ DOMAIN Contents' = 1 .. n /\ \A k \in 1 .. n : Contents'[k] = task[f[k]]
    BY <1>0, <1>4, TasksLength DEF TypeOK
  <1>6. ASSUME op.pc = "pop" PROVE Queue!FindNone(op.req)
    <2>1. /\ before = Tasks(task, n, f)
          /\ \A k \in 1 .. n : k < i => task[f[k]].req # op.req
      BY <1>6 DEF Walking, Walked
    <2>2. \A k \in 1 .. n : k < i
      BY <1>0, <1>3
    <2>3. Contents' = Contents
      BY <1>4, <2>1
    <2>4. Queue!OfRequest(op.req) = {}
      BY <1>5, <2>1, <2>2, <2>3 DEF Queue!OfRequest
    <2>5. op.removed = 0
      BY <1>0, <1>6 DEF Shape
    <2> QED BY <1>2, <2>3, <2>4, <2>5 DEF Queue!FindNone
  <1>7. ASSUME op.pc = "cancel" PROVE Queue!RemoveAll(op.req)
    <2>1. /\ DOMAIN before = 1 .. n + op.removed
          /\ place \in [1 .. n -> DOMAIN before \ Taken(i)]
          /\ \A k, l \in 1 .. n : k < l => place[k] < place[l]
          /\ \A k \in 1 .. n : task[f[k]] = before[place[k]]
          /\ Cardinality(Taken(i)) = op.removed
      BY <1>7 DEF Walking, Walked
    <2>2. Queue!OfRequest(op.req) = Taken(i)
      <3>1. \A j \in 1 .. n + op.removed : j < i + op.removed
        BY <1>0, <1>3
      <3> QED BY <1>4, <2>1, <3>1 DEF Queue!OfRequest, Taken
    <2>3. Cardinality(DOMAIN before \ Taken(i)) = n
      <3>0. PICK N \in Nat : N = n + op.removed
        BY <1>0
      <3>1. IsFiniteSet(1 .. N) /\ Cardinality(1 .. N) = N
        BY FS_Interval
      <3>2. /\ IsFiniteSet(DOMAIN before) /\ Cardinality(DOMAIN before) = N
            /\ DOMAIN before \cap Taken(i) = Taken(i)
        BY <2>1, <3>0, <3>1 DEF Taken
      <3>3. Cardinality(DOMAIN before \ Taken(i))
              = Cardinality(DOMAIN before) - Cardinality(DOMAIN before \cap Taken(i))
        BY <3>2, FS_Difference
      <3>4. Cardinality(DOMAIN before \ Taken(i)) = N - op.removed
        BY <2>1, <3>2, <3>3
      <3>5. N - op.removed = n
        BY <1>0, <3>0
      <3> QED BY <3>4, <3>5
    <2>4. Queue!Keep(DOMAIN Contents \ Queue!OfRequest(op.req))
      <3>1. DOMAIN Contents \ Queue!OfRequest(op.req) = DOMAIN before \ Taken(i)
        BY <1>4, <2>2
      <3>2. DOMAIN Contents' = 1 .. Cardinality(DOMAIN before \ Taken(i))
        BY <1>5, <2>3
      <3>3. place \in [DOMAIN Contents' -> DOMAIN before \ Taken(i)]
        BY <1>5, <2>1
      <3>4. /\ \A k, l \in DOMAIN Contents' : k < l => place[k] < place[l]
            /\ \A k \in DOMAIN Contents' : Contents'[k] = Contents[place[k]]
        BY <1>4, <1>5, <2>1
      <3> QED BY <3>1, <3>2, <3>3, <3>4, QueueCounts DEF Queue!Keep
    <2>5. Cardinality(Queue!OfRequest(op.req)) = op.removed
      BY <2>1, <2>2
    <2> QED BY <1>2, <2>4, <2>5, QueueCounts DEF Queue!RemoveAll
  <1>8. Walking(n, f, m, g, i, place)'
    BY <1>0, <1>1 DEF Walking, Walked, Batched
  <1> QED BY <1>0, <1>6, <1>7, <1>8 DEF QueueInv

\* Taking the worker down empties the queue when its mutex would be released.
LEMMA DestroyClears ==
  ASSUME TypeOK, NEW n, NEW f, NEW m, NEW g, NEW i, NEW place,
         Walking(n, f, m, g, i, place),
         StartDestroy \/ DestroyNode \/ DestroyEnds \/ Gone \/ UNCHANGED vars
  PROVE  QueueInv' /\ (Queue!Clear \/ UNCHANGED <<Contents, ret>>)
PROOF
  <1> USE DEF heap, list
  <1>0. /\ Shape(n, f, m, g, i) /\ Heap(n, f, m, g)
        /\ Chain(next, Start, n, f) /\ Chain(next, batch.head, m, g)
    BY DEF Walking, Shape, Heap
  <1>1. CASE StartDestroy
    <2>1. Shape(n, f, m, g, i)'
      BY <1>0, <1>1, QuietShape
    <2>2. /\ op.pc = "none" /\ op'.pc = "destroy" /\ before' = Listed
          /\ UNCHANGED <<task, batch, ret>>
      BY <1>1 DEF StartDestroy, Unlocked, NoOp
    <2>3. Contents' = Contents
      <3>2. Chain(next, queue_head, n, f)
        BY <1>0, <2>2 DEF Start
      <3>3. before' = Tasks(task, n, f)
        BY <2>2, <3>2, ListedTasks
      <3>4. Contents = Tasks(task, n, f)
        BY <1>0, <2>2, ContentsTasks
      <3>5. Contents' = before'
        BY <2>2 DEF Contents, Unlocked
      <3> QED BY <3>3, <3>4, <3>5
    <2>4. Walking(n, f, m, g, i, place)'
      BY <2>1, <2>2 DEF Walking, Walked, Batched
    <2> QED BY <2>2, <2>3, <2>4 DEF QueueInv
  <1>2. CASE DestroyNode
    <2>1. /\ Shape(n - 1, Dropped(n, f, 1), m, g, i)'
          /\ op.pc = "destroy" /\ FreeNode(op.curr) /\ op.curr \notin Members(m, g)
      BY <1>0, <1>2, DestroyShape
    <2>2. op'.pc = "destroy" /\ UNCHANGED <<before, ret, batch>>
      BY <1>2, <2>1 DEF DestroyNode, TypeOK
    <2>3. Contents' = Contents
      BY <2>1, <2>2 DEF Contents, Unlocked
    <2>4. Batched(m, g)'
      <3>1. \A y \in Members(m, g) : task'[y] = task[y]
        BY <1>0, <2>1, OthersTask
      <3>2. \A k \in 1 .. m : task'[g[k]] = task[g[k]]
        BY <3>1 DEF Members
      <3> QED BY <2>2, <3>2 DEF Walking, Batched
    <2>5. Walking(n - 1, Dropped(n, f, 1), m, g, i, place)'
      BY <2>1, <2>2, <2>4 DEF Walking, Walked
    <2> QED BY <2>2, <2>3, <2>5 DEF QueueInv
  <1>3. CASE DestroyEnds
    <2>1. Shape(n, f, m, g, i)'
      BY <1>0, <1>3, QuietShape
    <2>2. op'.pc = "gone" /\ UNCHANGED <<task, batch, ret>>
      BY <1>3 DEF DestroyEnds, NoOp
    <2>3. Queue!Clear
      BY <2>2 DEF Queue!Clear, Contents
    <2>4. Walking(n, f, m, g, i, place)'
      BY <2>1, <2>2 DEF Walking, Walked, Batched
    <2> QED BY <2>3, <2>4 DEF QueueInv
  <1>4. CASE Gone \/ UNCHANGED vars
    <2>1. UNCHANGED vars
      BY <1>4 DEF Gone
    <2>2. Shape(n, f, m, g, i)'
      BY <1>0, <1>4, QuietShape
    <2>3. UNCHANGED <<op, task, batch, ret, before, queue_head, next>>
      BY <2>1 DEF vars
    <2>4. Contents' = Contents
      <3>1. Chain(next', queue_head', n, f) => Listed' = Tasks(task', n, f)
        BY ListedTasks
      <3>2. Chain(next, queue_head, n, f) => Listed = Tasks(task, n, f)
        BY ListedTasks
      <3>3. op.pc = "none" => Listed' = Listed
        BY <1>0, <2>3, <3>1, <3>2 DEF Start, Tasks
      <3>4. op'.pc = op.pc /\ before' = before
        BY <2>3
      <3> QED BY <3>3, <3>4 DEF Contents, Unlocked
    <2>5. Taken(i)' = Taken(i)
      BY <2>3 DEF Taken
    <2>6. Walking(n, f, m, g, i, place)'
      BY <2>2, <2>3, <2>5 DEF Walking, Walked, Batched
    <2> QED BY <2>3, <2>4, <2>6 DEF QueueInv
  <1> QED BY <1>1, <1>2, <1>3, <1>4

\* Every step of the list is a step of the queue, or changes nothing of it.
LEMMA QueueStep ==
  ASSUME TypeOK, TypeOK', QueueInv, [Next]_vars
  PROVE  QueueInv' /\ [Queue!Next]_<<Contents, ret>>
PROOF
  <1>1. PICK n, f, m, g, i, place : Walking(n, f, m, g, i, place)
    BY DEF QueueInv
  <1>2. ASSUME NEW r \in Reqs, Push(r) \/ StartWalk("pop", r) \/ StartWalk("cancel", r)
        PROVE  QueueInv' /\ (Queue!Add \/ UNCHANGED <<Contents, ret>>)
    BY <1>1, <1>2, PushAdds, StartWalkSteps
  <1>3. ASSUME NEW r, NEW k,
               \/ r \in Reqs /\ k \in 1 .. MaxBatch /\ StartBatch(r, k)
               \/ BuildNode \/ BuildFails \/ UndoNode
        PROVE  QueueInv' /\ UNCHANGED <<Contents, ret>>
    BY <1>1, <1>3, BatchSteps
  <1>4. ASSUME Attach PROVE QueueInv' /\ Queue!Add
    BY <1>1, <1>4, AttachAdds
  <1>5. ASSUME Skip \/ CancelHit PROVE QueueInv' /\ UNCHANGED <<Contents, ret>>
    BY <1>1, <1>5, SkipSteps, CancelSteps
  <1>6. ASSUME PopHit PROVE QueueInv' /\ Queue!Next
    BY <1>1, <1>6, PopTakes DEF Queue!Next
  <1>7. ASSUME WalkEnds PROVE QueueInv' /\ Queue!Next
    BY <1>1, <1>7, WalkEndsTakes DEF Queue!Next
  <1>8. ASSUME StartDestroy \/ DestroyNode \/ DestroyEnds \/ Gone \/ UNCHANGED vars
        PROVE  QueueInv' /\ (Queue!Clear \/ UNCHANGED <<Contents, ret>>)
    BY <1>1, <1>8, DestroyClears
  <1>9. Queue!Add \/ Queue!Clear => Queue!Next
    BY DEF Queue!Next
  <1> QED BY <1>2, <1>3, <1>4, <1>5, <1>6, <1>7, <1>8, <1>9 DEF Next

LEMMA QueueInit == Init => QueueInv /\ Queue!Init
PROOF
  <1> SUFFICES ASSUME Init PROVE QueueInv /\ Queue!Init
    OBVIOUS
  <1>1. PICK n, f, m, g, i : Shape(n, f, m, g, i)
    BY InitShape DEF ListInv
  <1>2. Walking(n, f, m, g, i, <<>>)
    BY <1>1 DEF Init, NoOp, NoBatch, Walking, Walked, Batched
  <1>3. Contents = <<>>
    <2>1. Heap(n, f, m, g) /\ op.pc = "none" /\ queue_head = Null
      BY <1>1 DEF Shape, Init, NoOp
    <2>2. n \in Nat /\ f \in [1 .. n -> Nodes] /\ n = 0
      <3>1. n \in Nat /\ f \in [1 .. n -> Nodes] /\ Chain(next, Null, n, f)
        BY <2>1 DEF Heap, Chain, Start
      <3>2. n # 0 => 1 \in 1 .. n
        BY <3>1
      <3> QED BY <3>1, <3>2, NullIsNone DEF Chain
    <2>3. Contents = Tasks(task, n, f)
      BY <2>1, ContentsTasks
    <2>4. task \in [Nodes -> Task \cup {NoTask}]
      BY InitType DEF TypeOK
    <2> QED BY <2>2, <2>3, <2>4, TasksLength
  <1> QED BY <1>2, <1>3 DEF QueueInv, Queue!Init, Init

\* The linked list implements the queue: worker_queue_push and attach add at the
\* end, worker_queue_pop_by_req takes the first task of a request,
\* cancel_in_worker_queue removes all of a request and keeps the order of the rest.
THEOREM RefinesQueue == Spec => ImplementsQueue
PROOF
  <1>1. Init => QueueInv /\ Queue!Init
    BY QueueInit
  <1>2. TypeOK /\ TypeOK' /\ QueueInv /\ [Next]_vars => QueueInv' /\ [Queue!Next]_<<Contents, ret>>
    BY QueueStep
  <1> QED BY <1>1, <1>2, TypeCorrect, PTL DEF Spec, ImplementsQueue, Queue!Spec

=============================================================================
