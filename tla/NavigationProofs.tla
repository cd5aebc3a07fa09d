---------------------------- MODULE NavigationProofs ----------------------------
(***************************************************************************)
(* Proofs about Navigation, for any tree, aliases and index pages.         *)
(*                                                                         *)
(* Without, and with it Node and parse_index, are recursive functions; the *)
(* first parts say what they compute for every sequence, by induction with *)
(* sets. Then the listings, which need that there is a permutation that    *)
(* sorts, and the browsing that is proved from BrowsingInv.                *)
(***************************************************************************)
EXTENDS Navigation, NumberLemmas, FiniteSetTheorems, FunctionTheorems, SequenceTheorems

-------------------------------------------------------------------------------
(* Induction over sequences.                                               *)

\* A set that holds the empty sequence, and with a sequence all that are one
\* longer, holds all of them.
LEMMA SeqBySet ==
    ASSUME NEW S, NEW P, <<>> \in P,
           \A s \in Seq(S), e \in S : s \in P => Append(s, e) \in P
    PROVE  Seq(S) \subseteq P
<1> DEFINE N == {n \in Nat : \A s \in Seq(S) : Len(s) = n => s \in P}
<1>1. 0 \in N
  BY EmptySeq
<1>2. \A n \in Nat : n \in N => n + 1 \in N
  <2> SUFFICES ASSUME NEW n \in Nat, n \in N,
                      NEW s \in Seq(S), Len(s) = n + 1
               PROVE  s \in P
    OBVIOUS
  <2>1. s # <<>>
    BY EmptySeq
  <2>2. PICK t \in Seq(S), e \in S : s = Append(t, e)
    BY <2>1, SequenceEmptyOrAppend
  <2>3. Len(t) = n
    BY <2>2, AppendProperties, LenProperties
  <2>4. QED
    BY <2>2, <2>3
<1>3. Nat \subseteq N
  <2> HIDE DEF N
  <2> QED
    BY <1>1, <1>2, NatBySet
<1>4. QED
  BY <1>3, LenProperties

-------------------------------------------------------------------------------
(* Without: its recursion has one solution, which goes through a sequence  *)
(* element by element.                                                     *)

\* f is what the recursion of Without(s, dropped) says up to the nth element.
Computes(f, s, dropped, n) ==
    f = [m \in 0..n |-> IF m = 0 THEN <<>> ELSE Taken(f[m - 1], s[m], dropped)]

\* Such a function takes one element at each step.
LEMMA ComputesOne ==
    ASSUME NEW s, NEW dropped, NEW n \in Nat, NEW f, Computes(f, s, dropped, n)
    PROVE  /\ f[0] = <<>>
           /\ \A m \in 1..n : f[m] = Taken(f[m - 1], s[m], dropped)
BY DEF Computes

\* There is one for a longer part of the sequence when there is one for a part.
LEMMA Extends ==
    ASSUME NEW s, NEW dropped, NEW n \in Nat, NEW f, Computes(f, s, dropped, n)
    PROVE  \E g : Computes(g, s, dropped, n + 1)
<1> DEFINE g == [m \in 0..(n + 1) |->
                   IF m = 0 THEN <<>> ELSE Taken(f[m - 1], s[m], dropped)]
<1>0. /\ g[0] = <<>>
      /\ \A m \in 1..(n + 1) : g[m] = Taken(f[m - 1], s[m], dropped)
  OBVIOUS
<1> HIDE DEF g
<1>1. \A m \in 0..n : g[m] = f[m]
  <2> SUFFICES ASSUME NEW m \in 0..n PROVE g[m] = f[m]
    OBVIOUS
  <2>1. CASE m = 0
    BY <2>1, <1>0, ComputesOne
  <2>2. CASE m \in 1..n
    <3>1. f[m] = Taken(f[m - 1], s[m], dropped)
      BY <2>2, ComputesOne
    <3>2. QED
      BY <2>2, <3>1, <1>0
  <2>3. QED
    BY <2>1, <2>2
<1>2. \A m \in 1..(n + 1) : g[m - 1] = f[m - 1]
  <2> SUFFICES ASSUME NEW m \in 1..(n + 1) PROVE g[m - 1] = f[m - 1]
    OBVIOUS
  <2>1. m - 1 \in 0..n
    OBVIOUS
  <2>2. QED
    BY <1>1, <2>1
<1>3. \A m \in 0..(n + 1) :
         (IF m = 0 THEN <<>> ELSE Taken(f[m - 1], s[m], dropped)) =
         (IF m = 0 THEN <<>> ELSE Taken(g[m - 1], s[m], dropped))
  BY <1>2
<1>7. QED
  BY <1>3 DEF Computes, g

\* So there is one for every length.
LEMMA Computable ==
    ASSUME NEW s, NEW dropped
    PROVE  \A n \in Nat : \E f : Computes(f, s, dropped, n)
<1> DEFINE P == {n \in Nat : \E f : Computes(f, s, dropped, n)}
<1>1. 0 \in P
  <2>1. Computes([m \in 0..0 |-> <<>>], s, dropped, 0)
    BY DEF Computes
  <2>2. QED
    BY <2>1
<1>2. \A n \in Nat : n \in P => n + 1 \in P
  BY Extends
<1>3. Nat \subseteq P
  <2> HIDE DEF P
  <2> QED
    BY <1>1, <1>2, NatBySet
<1>4. QED
  BY <1>3

\* Without(s, dropped) is the value of one at the end of s.
LEMMA WithoutComputes ==
    ASSUME NEW S, NEW s \in Seq(S), NEW dropped
    PROVE  \E f : Computes(f, s, dropped, Len(s)) /\ Without(s, dropped) = f[Len(s)]
<1> DEFINE f == CHOOSE f : Computes(f, s, dropped, Len(s))
<1>1. Computes(f, s, dropped, Len(s))
  BY Computable, LenProperties
<1>2. f[Len(s)] = Without(s, dropped)
  BY Zenon DEF Without, Computes
<1>3. QED
  BY <1>1, <1>2

\* Two of them agree as far as their sequences do.
LEMMA ComputesAgree ==
    ASSUME NEW s, NEW t, NEW dropped, NEW n \in Nat, NEW k \in Nat, n <= k,
           \A m \in 1..n : s[m] = t[m],
           NEW f, Computes(f, s, dropped, n), NEW g, Computes(g, t, dropped, k)
    PROVE  f[n] = g[n]
<1> DEFINE P == {m \in Nat : m <= n => f[m] = g[m]}
<1>1. 0 \in P
  BY ComputesOne
<1>2. \A m \in Nat : m \in P => m + 1 \in P
  <2> SUFFICES ASSUME NEW m \in Nat, m \in P, m + 1 <= n
               PROVE  f[m + 1] = g[m + 1]
    OBVIOUS
  <2>0. m + 1 \in 1..n /\ m + 1 \in 1..k
    OBVIOUS
  <2>1. f[m + 1] = Taken(f[(m + 1) - 1], s[m + 1], dropped)
    <3>1. \A l \in 1..n : f[l] = Taken(f[l - 1], s[l], dropped)
      BY ComputesOne
    <3>2. QED
      BY <2>0, <3>1
  <2>2. g[m + 1] = Taken(g[(m + 1) - 1], t[m + 1], dropped)
    <3>1. \A l \in 1..k : g[l] = Taken(g[l - 1], t[l], dropped)
      BY ComputesOne
    <3>2. QED
      BY <2>0, <3>1
  <2>3. f[m] = g[m] /\ s[m + 1] = t[m + 1] /\ (m + 1) - 1 = m
    BY <2>0
  <2>4. QED
    BY <2>1, <2>2, <2>3
<1>3. Nat \subseteq P
  <2> HIDE DEF P
  <2> QED
    BY <1>1, <1>2, NatBySet
<1>4. QED
  BY <1>3

\* Without on the empty sequence.
LEMMA WithoutEmpty == ASSUME NEW dropped PROVE Without(<<>>, dropped) = <<>>
<1>1. <<>> \in Seq({}) /\ Len(<<>>) = 0
  BY EmptySeq
<1>2. PICK f : Computes(f, <<>>, dropped, 0) /\ Without(<<>>, dropped) = f[0]
  BY <1>1, WithoutComputes
<1>3. 0 \in Nat
  OBVIOUS
<1>4. f[0] = <<>>
  BY <1>2, <1>3, ComputesOne, Zenon
<1>5. QED
  BY <1>2, <1>4, Zenon

\* Without on a longer one.
LEMMA WithoutAppend ==
    ASSUME NEW S, NEW s \in Seq(S), NEW e \in S, NEW dropped
    PROVE  Without(Append(s, e), dropped) = Taken(Without(s, dropped), e, dropped)
<1> DEFINE t == Append(s, e)
<1>1. /\ t \in Seq(S) /\ Len(t) = Len(s) + 1 /\ t[Len(s) + 1] = e
      /\ \A m \in 1..Len(s) : s[m] = t[m]
      /\ Len(s) \in Nat
  BY AppendProperties, LenProperties
<1> HIDE DEF t
<1>2. PICK f : Computes(f, s, dropped, Len(s)) /\ Without(s, dropped) = f[Len(s)]
  BY WithoutComputes
<1>3. PICK g : Computes(g, t, dropped, Len(t)) /\ Without(t, dropped) = g[Len(t)]
  BY <1>1, WithoutComputes
<1>4. f[Len(s)] = g[Len(s)]
  BY <1>1, <1>2, <1>3, ComputesAgree
<1>5. g[Len(s) + 1] = Taken(g[(Len(s) + 1) - 1], t[Len(s) + 1], dropped)
  BY <1>1, <1>3, ComputesOne
<1>6. QED
  BY <1>1, <1>2, <1>3, <1>4, <1>5 DEF t

\* w is what is kept of t, h[k] the place in t of its kth element.
Picks(h, t, w, dropped) ==
    /\ h \in [1..Len(w) -> 1..Len(t)]
    /\ \A k \in 1..Len(w) : w[k] = t[h[k]] /\ t[h[k]] \notin dropped
    /\ \A i \in 1..Len(t) : t[i] \notin dropped => \E k \in 1..Len(w) : h[k] = i
    /\ \A k, l \in 1..Len(w) : k < l => h[k] < h[l]

\* A dropped element at the end changes nothing.
LEMMA PicksDropped ==
    ASSUME NEW S, NEW dropped, NEW t \in Seq(S), NEW e \in dropped, NEW w \in Seq(S),
           NEW h, Picks(h, t, w, dropped)
    PROVE  Picks(h, Append(t, e), w, dropped)
<1> DEFINE n == Len(t)
           u == Append(t, e)
           m == Len(w)
<1>1. /\ Len(u) = n + 1 /\ u[n + 1] = e /\ n \in Nat /\ m \in Nat
      /\ \A i \in 1..n : u[i] = t[i]
  <2>1. t \in Seq(S \cup {e}) /\ e \in S \cup {e}
    BY SeqMonotonic
  <2>2. QED
    BY <2>1, AppendProperties, LenProperties
<1>2. /\ h \in [1..m -> 1..n]
      /\ \A k \in 1..m : w[k] = t[h[k]] /\ t[h[k]] \notin dropped
      /\ \A i \in 1..n : t[i] \notin dropped => \E k \in 1..m : h[k] = i
      /\ \A k, l \in 1..m : k < l => h[k] < h[l]
  BY DEF Picks
<1> SUFFICES Picks(h, u, w, dropped)
  OBVIOUS
<1> HIDE DEF n, u, m
<1>3. h \in [1..m -> 1..Len(u)]
  BY <1>1, <1>2
<1>4. \A k \in 1..m : w[k] = u[h[k]] /\ u[h[k]] \notin dropped
  BY <1>1, <1>2
<1>5. \A i \in 1..Len(u) : u[i] \notin dropped => \E k \in 1..m : h[k] = i
  <2> SUFFICES ASSUME NEW i \in 1..Len(u), u[i] \notin dropped
               PROVE  \E k \in 1..m : h[k] = i
    OBVIOUS
  <2>1. i # n + 1
    BY <1>1
  <2>2. i \in 1..n
    BY <1>1, <2>1
  <2>3. QED
    BY <1>1, <1>2, <2>2
<1>6. QED
  BY <1>2, <1>3, <1>4, <1>5 DEF Picks, m

\* A kept one is the last of what is kept.
LEMMA PicksKept ==
    ASSUME NEW S, NEW dropped, NEW t \in Seq(S), NEW e \in S \ dropped, NEW w \in Seq(S),
           NEW h, Picks(h, t, w, dropped)
    PROVE  \E g : Picks(g, Append(t, e), Append(w, e), dropped)
<1> DEFINE n == Len(t)
           u == Append(t, e)
           m == Len(w)
           x == Append(w, e)
           g == [k \in 1..(m + 1) |-> IF k = m + 1 THEN n + 1 ELSE h[k]]
<1>1. /\ Len(u) = n + 1 /\ u[n + 1] = e /\ n \in Nat /\ m \in Nat
      /\ \A i \in 1..n : u[i] = t[i]
      /\ Len(x) = m + 1 /\ x[m + 1] = e
      /\ \A i \in 1..m : x[i] = w[i]
  BY AppendProperties, LenProperties
<1>2. /\ h \in [1..m -> 1..n]
      /\ \A k \in 1..m : w[k] = t[h[k]] /\ t[h[k]] \notin dropped
      /\ \A i \in 1..n : t[i] \notin dropped => \E k \in 1..m : h[k] = i
      /\ \A k, l \in 1..m : k < l => h[k] < h[l]
  BY DEF Picks
<1> SUFFICES Picks(g, u, x, dropped)
  OBVIOUS
<1> HIDE DEF n, u, m, x
<1>3. g[m + 1] = n + 1 /\ \A k \in 1..m : g[k] = h[k]
  BY <1>1
<1>4. g \in [1..(m + 1) -> 1..(n + 1)]
  BY <1>1, <1>2
<1> HIDE DEF g
<1>5. \A k \in 1..(m + 1) : x[k] = u[g[k]] /\ u[g[k]] \notin dropped
  <2> SUFFICES ASSUME NEW k \in 1..(m + 1)
               PROVE  x[k] = u[g[k]] /\ u[g[k]] \notin dropped
    OBVIOUS
  <2>1. CASE k = m + 1
    BY <1>1, <1>3, <2>1
  <2>2. CASE k \in 1..m
    <3>1. h[k] \in 1..n /\ g[k] = h[k]
      BY <1>2, <1>3, <2>2
    <3>2. u[h[k]] = t[h[k]] /\ x[k] = w[k]
      BY <1>1, <2>2, <3>1
    <3>3. QED
      BY <1>2, <2>2, <3>1, <3>2
  <2>3. QED
    BY <1>1, <2>1, <2>2
<1>6. \A i \in 1..(n + 1) : u[i] \notin dropped => \E k \in 1..(m + 1) : g[k] = i
  <2> SUFFICES ASSUME NEW i \in 1..(n + 1), u[i] \notin dropped
               PROVE  \E k \in 1..(m + 1) : g[k] = i
    OBVIOUS
  <2>1. CASE i = n + 1
    BY <1>1, <1>3, <2>1
  <2>2. CASE i \in 1..n
    <3>1. PICK k \in 1..m : h[k] = i
      BY <1>1, <1>2, <2>2
    <3>2. k \in 1..(m + 1) /\ g[k] = i
      BY <1>1, <1>3, <3>1
    <3>3. QED
      BY <3>2
  <2>3. QED
    BY <1>1, <2>1, <2>2
<1>7. \A k, l \in 1..(m + 1) : k < l => g[k] < g[l]
  <2> SUFFICES ASSUME NEW k \in 1..(m + 1), NEW l \in 1..(m + 1), k < l
               PROVE  g[k] < g[l]
    OBVIOUS
  <2>0. k \in 1..m
    BY <1>1
  <2>1. g[k] = h[k] /\ h[k] \in 1..n
    BY <1>2, <1>3, <2>0
  <2>2. CASE l = m + 1
    BY <1>1, <1>3, <2>1, <2>2
  <2>3. CASE l \in 1..m
    BY <1>2, <1>3, <2>0, <2>1, <2>3
  <2>4. QED
    BY <1>1, <2>2, <2>3
<1>8. QED
  BY <1>1, <1>4, <1>5, <1>6, <1>7 DEF Picks

\* Without(s, dropped) is all that is not dropped, in order and once each.
LEMMA WithoutPicks ==
    ASSUME NEW S, NEW dropped, NEW s \in Seq(S)
    PROVE  /\ Without(s, dropped) \in Seq(S)
           /\ \E h : Picks(h, s, Without(s, dropped), dropped)
<1> DEFINE P == {t \in Seq(S) : /\ Without(t, dropped) \in Seq(S)
                                /\ \E h : Picks(h, t, Without(t, dropped), dropped)}
<1>1. <<>> \in P
  <2>1. <<>> \in Seq(S) /\ Len(<<>>) = 0 /\ 1..0 = {}
    BY EmptySeq
  <2> DEFINE h == [k \in {} |-> k]
  <2>2. h \in [{} -> {}]
    OBVIOUS
  <2>3. Picks(h, <<>>, <<>>, dropped)
    BY <2>1, <2>2 DEF Picks
  <2>4. QED
    BY <2>1, <2>3, WithoutEmpty
<1>2. ASSUME NEW t \in Seq(S), NEW e \in S, t \in P
      PROVE  Append(t, e) \in P
  <2> DEFINE w == Without(t, dropped)
  <2>1. Append(t, e) \in Seq(S)
    BY AppendProperties
  <2>2. Without(Append(t, e), dropped) = Taken(w, e, dropped)
    BY WithoutAppend
  <2>3. w \in Seq(S)
    BY <1>2
  <2>4. PICK h : Picks(h, t, w, dropped)
    BY <1>2
  <2> HIDE DEF w
  <2>5. CASE e \in dropped
    <3>1. Without(Append(t, e), dropped) = w
      BY <2>2, <2>5 DEF Taken
    <3>2. Picks(h, Append(t, e), w, dropped)
      BY <2>3, <2>4, <2>5, PicksDropped
    <3>3. QED
      BY <2>1, <2>3, <3>1, <3>2
  <2>6. CASE e \notin dropped
    <3>1. Without(Append(t, e), dropped) = Append(w, e)
      BY <2>2, <2>6 DEF Taken
    <3>2. \E g : Picks(g, Append(t, e), Append(w, e), dropped)
      BY <2>3, <2>4, <2>6, PicksKept
    <3>3. Append(w, e) \in Seq(S)
      BY <2>3, AppendProperties
    <3>4. QED
      BY <2>1, <3>1, <3>2, <3>3
  <2>7. QED
    BY <2>5, <2>6
<1>3. Seq(S) \subseteq P
  <2> HIDE DEF P
  <2> QED
    BY <1>1, <1>2, SeqBySet
<1>4. QED
  BY <1>3

-------------------------------------------------------------------------------
(* Paths, the nodes they stand for, and the first and last parts of them.  *)

Segment == Names \cup {Blank}

\* A sequence that another one starts with is its part of that length.
LEMMA SubSeqIs ==
    ASSUME NEW S, NEW s \in Seq(S), NEW t \in Seq(S), Len(s) <= Len(t),
           \A i \in 1..Len(s) : t[i] = s[i]
    PROVE  SubSeq(t, 1, Len(s)) = s
<1>1. Len(s) \in Nat /\ \A i \in 1..Len(s) : t[i] \in S
  BY LenProperties, ElementOfSeq
<1>2. /\ SubSeq(t, 1, Len(s)) \in Seq(S)
      /\ Len(SubSeq(t, 1, Len(s))) = IF 1 <= Len(s) THEN Len(s) - 1 + 1 ELSE 0
      /\ \A i \in 1..(Len(s) - 1 + 1) : SubSeq(t, 1, Len(s))[i] = t[1 + i - 1]
  BY <1>1, SubSeqProperties
<1>3. /\ Len(SubSeq(t, 1, Len(s))) = Len(s)
      /\ \A i \in 1..Len(s) : SubSeq(t, 1, Len(s))[i] = t[i]
  BY <1>1, <1>2
<1>4. QED
  BY <1>2, <1>3, SeqEqual

\* What Front and Last give back of a sequence that was appended to.
LEMMA FrontAppend ==
    ASSUME NEW S, NEW s \in Seq(S), NEW e \in S
    PROVE  Front(Append(s, e)) = s /\ Last(Append(s, e)) = e
<1>1. /\ Append(s, e) \in Seq(S) /\ Len(Append(s, e)) = Len(s) + 1
      /\ Append(s, e)[Len(s) + 1] = e
      /\ \A i \in 1..Len(s) : Append(s, e)[i] = s[i]
      /\ Len(s) \in Nat
  BY AppendProperties, LenProperties
<1>2. SubSeq(Append(s, e), 1, Len(s)) = s
  BY <1>1, SubSeqIs
<1>3. QED
  BY <1>1, <1>2 DEF Front, Last

\* The node of a longer path.
LEMMA NodeAppend ==
    ASSUME NEW path \in Seq(Segment), NEW e \in Segment
    PROVE  Node(Append(path, e)) = IF e = Blank THEN Node(path) ELSE Append(Node(path), e)
<1>1. Node(Append(path, e)) = Taken(Node(path), e, {Blank})
  BY WithoutAppend DEF Node
<1>2. QED
  BY <1>1 DEF Taken

\* A node is a sequence of names.
LEMMA NodeType ==
    ASSUME NEW path \in Seq(Segment)
    PROVE  Node(path) \in Seq(Names)
<1>1. <<>> \in {p \in Seq(Segment) : Node(p) \in Seq(Names)}
  BY WithoutEmpty, EmptySeq DEF Node
<1>2. ASSUME NEW p \in Seq(Segment), NEW e \in Segment, Node(p) \in Seq(Names)
      PROVE  Append(p, e) \in Seq(Segment) /\ Node(Append(p, e)) \in Seq(Names)
  <2>1. CASE e = Blank
    BY <1>2, <2>1, NodeAppend, AppendProperties
  <2>2. CASE e # Blank
    <3>1. e \in Names
      BY <2>2 DEF Segment
    <3>2. QED
      BY <1>2, <2>2, <3>1, NodeAppend, AppendProperties
  <2>3. QED
    BY <2>1, <2>2
<1> DEFINE P == {p \in Seq(Segment) : Node(p) \in Seq(Names)}
<1>3. \A p \in Seq(Segment), e \in Segment : p \in P => Append(p, e) \in P
  BY <1>2
<1>4. Seq(Segment) \subseteq P
  <2>1. <<>> \in P
    BY <1>1
  <2> HIDE DEF P
  <2> QED
    BY <1>3, <2>1, SeqBySet
<1>5. QED
  BY <1>4

\* A path of names is its own node.
LEMMA NodeOfNames ==
    ASSUME NEW path \in Seq(Names)
    PROVE  Node(path) = path /\ path \in Seq(Segment)
<1> DEFINE P == {p \in Seq(Names) : Node(p) = p}
<1>1. <<>> \in P
  BY WithoutEmpty, EmptySeq DEF Node
<1>2. \A p \in Seq(Names), e \in Names : p \in P => Append(p, e) \in P
  <2> SUFFICES ASSUME NEW p \in Seq(Names), NEW e \in Names, Node(p) = p
               PROVE  Append(p, e) \in Seq(Names) /\ Node(Append(p, e)) = Append(p, e)
    OBVIOUS
  <2>1. p \in Seq(Segment) /\ e \in Segment
    BY SeqMonotonic DEF Segment
  <2>2. e # Blank
    BY NavigationAssumption
  <2>3. QED
    BY <2>1, <2>2, NodeAppend, AppendProperties
<1>3. Seq(Names) \subseteq P
  <2> HIDE DEF P
  <2> QED
    BY <1>1, <1>2, SeqBySet
<1>4. path \in Seq(Segment)
  BY SeqMonotonic DEF Segment
<1>5. QED
  BY <1>3, <1>4

-------------------------------------------------------------------------------
(* Tidy paths.                                                             *)

\* What is left of a tidy path without its last segment is tidy or nothing,
\* and a name is before a slash at the end.
LEMMA TidyBefore ==
    ASSUME NEW p \in Seq(Segment), NEW e \in Segment, Tidy(Append(p, e))
    PROVE  \/ p = <<>> /\ e # Blank
           \/ Tidy(p) /\ (e = Blank => Last(p) # Blank)
<1> DEFINE t == Append(p, e)
           n == Len(p)
<1>1. /\ t \in Seq(Segment) /\ Len(t) = n + 1 /\ t[n + 1] = e /\ n \in Nat
      /\ \A i \in 1..n : t[i] = p[i]
  BY AppendProperties, LenProperties
<1>n. IF p = <<>> THEN n = 0 ELSE n \in 1..n
  BY <1>1, EmptySeq
<1>2. t[1] # Blank /\ \A i \in 1..(Len(t) - 1) : t[i] # Blank \/ t[i + 1] # Blank
  BY DEF Tidy
<1> HIDE DEF t, n
<1>3. CASE p = <<>>
  BY <1>1, <1>2, <1>3, <1>n
<1>4. CASE p # <<>>
  <2>1. n \in 1..n
    BY <1>4, <1>n
  <2>2. p[1] # Blank
    BY <1>1, <1>2, <2>1
  <2>3. \A i \in 1..(n - 1) : p[i] # Blank \/ p[i + 1] # Blank
    <3> SUFFICES ASSUME NEW i \in 1..(n - 1) PROVE p[i] # Blank \/ p[i + 1] # Blank
      OBVIOUS
    <3>1. i \in 1..n /\ i + 1 \in 1..n /\ i \in 1..(Len(t) - 1)
      BY <1>1
    <3>2. QED
      BY <1>1, <1>2, <3>1
  <2>4. e = Blank => p[n] # Blank
    <3>1. n \in 1..(Len(t) - 1)
      BY <1>1, <2>1
    <3>2. QED
      BY <1>1, <1>2, <2>1, <3>1
  <2>5. QED
    BY <1>4, <2>2, <2>3, <2>4 DEF Tidy, Last, Segment, n
<1>5. QED
  BY <1>3, <1>4

\* A tidy path stays tidy with a name behind it, and with a slash behind that.
LEMMA TidyAppend ==
    ASSUME NEW p \in Seq(Segment), p = <<>> \/ Tidy(p), NEW e \in Segment,
           e = Blank => p # <<>> /\ Last(p) # Blank
    PROVE  Tidy(Append(p, e))
<1> DEFINE t == Append(p, e)
           n == Len(p)
<1>1. /\ t \in Seq(Segment) /\ t # <<>> /\ Len(t) = n + 1 /\ t[n + 1] = e /\ n \in Nat
      /\ \A i \in 1..n : t[i] = p[i]
  BY AppendProperties, LenProperties
<1>n. IF p = <<>> THEN n = 0 ELSE n \in 1..n
  BY <1>1, EmptySeq
<1>l. e = Blank => p[n] # Blank
  BY DEF Last
<1>e. e = Blank => p # <<>>
  OBVIOUS
<1> SUFFICES Tidy(t)
  OBVIOUS
<1> HIDE DEF t, n
<1>2. CASE p = <<>>
  <2>1. n = 0
    BY <1>2, <1>n
  <2>2. e # Blank
    BY <1>2, <1>e
  <2>3. n + 1 = 1
    BY <2>1
  <2>4. t[1] = e /\ Len(t) = 1
    BY <1>1, <2>3
  <2>5. QED
    BY <1>1, <2>2, <2>4 DEF Tidy, Segment
<1>3. CASE p # <<>>
  <2>1. n \in 1..n
    BY <1>3, <1>n
  <2>2. p[1] # Blank /\ \A i \in 1..(n - 1) : p[i] # Blank \/ p[i + 1] # Blank
    BY <1>3 DEF Tidy, n
  <2>4. t[1] # Blank
    BY <1>1, <2>1, <2>2
  <2>5. \A i \in 1..(Len(t) - 1) : t[i] # Blank \/ t[i + 1] # Blank
    <3> SUFFICES ASSUME NEW i \in 1..n PROVE t[i] # Blank \/ t[i + 1] # Blank
      BY <1>1
    <3>1. CASE i = n
      BY <1>1, <1>l, <2>1, <3>1
    <3>2. CASE i \in 1..(n - 1)
      <4>1. i \in 1..n /\ i + 1 \in 1..n
        BY <1>1, <3>2
      <4>2. QED
        BY <1>1, <2>2, <3>2, <4>1
    <3>3. QED
      BY <1>1, <3>1, <3>2
  <2>6. QED
    BY <1>1, <2>4, <2>5 DEF Tidy, Segment
<1>4. QED
  BY <1>2, <1>3

\* A tidy path has at most two segments for each name in its node, and one
\* less without a slash at its end.
LEMMA TidyLength ==
    ASSUME NEW path \in Seq(Segment), Tidy(path)
    PROVE  Len(path) + (IF Last(path) = Blank THEN 0 ELSE 1) <= 2 * Len(Node(path))
<1> DEFINE Short(p) == Len(p) + (IF Last(p) = Blank THEN 0 ELSE 1) <= 2 * Len(Node(p))
           P == {p \in Seq(Segment) : Tidy(p) => Short(p)}
<1>1. <<>> \in P
  BY EmptySeq DEF Tidy
<1>2. \A p \in Seq(Segment), e \in Segment : p \in P => Append(p, e) \in P
  <2> SUFFICES ASSUME NEW p \in Seq(Segment), NEW e \in Segment,
                      Tidy(p) => Short(p), Tidy(Append(p, e))
               PROVE  Append(p, e) \in Seq(Segment) /\ Short(Append(p, e))
    OBVIOUS
  <2>1. /\ Append(p, e) \in Seq(Segment) /\ Len(Append(p, e)) = Len(p) + 1
        /\ Last(Append(p, e)) = e
        /\ Len(p) \in Nat
    BY AppendProperties, FrontAppend, LenProperties
  <2>2. Node(p) \in Seq(Names) /\ Len(Node(p)) \in Nat
    BY NodeType, LenProperties
  <2>3. Len(Node(Append(p, e))) = IF e = Blank THEN Len(Node(p)) ELSE Len(Node(p)) + 1
    <3>1. CASE e = Blank
      BY <3>1, NodeAppend
    <3>2. CASE e # Blank
      <4>1. e \in Names
        BY <3>2 DEF Segment
      <4>2. Node(Append(p, e)) = Append(Node(p), e)
        BY <3>2, NodeAppend
      <4>3. QED
        BY <2>2, <3>2, <4>1, <4>2, AppendProperties
    <3>3. QED
      BY <3>1, <3>2
  <2>4. CASE p = <<>> /\ e # Blank
    <3>1. Len(p) = 0
      BY <2>4, EmptySeq
    <3>2. QED
      BY <2>1, <2>2, <2>3, <2>4, <3>1
  <2>5. CASE Tidy(p) /\ (e = Blank => Last(p) # Blank)
    BY <2>1, <2>2, <2>3, <2>5
  <2>6. QED
    BY <2>4, <2>5, TidyBefore
<1>3. Seq(Segment) \subseteq P
  <2> HIDE DEF P
  <2> QED
    BY <1>1, <1>2, SeqBySet
<1>4. QED
  BY <1>3

-------------------------------------------------------------------------------
(* The parent's path, and what the upstream is asked for.                  *)

\* q is the path above a path that ends with a name x and perhaps a slash.
Above(path, q, x) ==
    /\ q \in Seq(Segment) /\ x \in Names
    /\ path \in {Append(q, x), Append(Append(q, x), Blank)}

\* Every tidy path is of that form, below a tidy path or nothing.
LEMMA TidyAbove ==
    ASSUME NEW path \in Seq(Segment), Tidy(path)
    PROVE  \E q, x : Above(path, q, x) /\ (q = <<>> \/ Tidy(q))
<1>1. PICK r \in Seq(Segment), e \in Segment : path = Append(r, e)
  BY SequenceEmptyOrAppend DEF Tidy
<1>2. \/ r = <<>> /\ e # Blank
      \/ Tidy(r) /\ (e = Blank => Last(r) # Blank)
  BY <1>1, TidyBefore
<1>3. CASE e # Blank
  <2>1. e \in Names
    BY <1>3 DEF Segment
  <2>2. Above(path, r, e)
    BY <1>1, <2>1 DEF Above
  <2>3. QED
    BY <1>2, <2>2
<1>4. CASE e = Blank
  <2>1. Tidy(r) /\ Last(r) # Blank
    BY <1>2, <1>4
  <2>2. PICK q \in Seq(Segment), x \in Segment : r = Append(q, x)
    BY <2>1, SequenceEmptyOrAppend DEF Tidy
  <2>3. x \in Names
    <3>1. Last(r) = x
      BY <2>2, FrontAppend
    <3>2. QED
      BY <2>1, <3>1 DEF Segment
  <2>4. q = <<>> \/ Tidy(q)
    BY <2>1, <2>2, TidyBefore
  <2>5. Above(path, q, x)
    BY <1>1, <1>4, <2>2, <2>3 DEF Above
  <2>6. QED
    BY <2>4, <2>5
<1>5. QED
  BY <1>3, <1>4

\* Its segments: those of q, the name, and nothing but a slash.
LEMMA AboveSegments ==
    ASSUME NEW path, NEW q, NEW x, Above(path, q, x)
    PROVE  /\ path \in Seq(Segment) /\ Len(q) \in Nat
           /\ Len(path) \in {Len(q) + 1, Len(q) + 2}
           /\ \A i \in 1..Len(q) : path[i] = q[i]
           /\ path[Len(q) + 1] = x
           /\ Len(path) = Len(q) + 2 => path[Len(q) + 2] = Blank
           /\ SubSeq(path, 1, Len(q)) = q
<1> DEFINE n == Len(q)
           r == Append(q, x)
<1>1. q \in Seq(Segment) /\ x \in Segment /\ Blank \in Segment
  BY DEF Above, Segment
<1>2. /\ r \in Seq(Segment) /\ Len(r) = n + 1 /\ r[n + 1] = x /\ n \in Nat
      /\ \A i \in 1..n : r[i] = q[i]
  BY <1>1, AppendProperties, LenProperties
<1>3. path = r \/ path = Append(r, Blank)
  BY DEF Above
<1> HIDE DEF n, r
<1>4. /\ path \in Seq(Segment) /\ Len(path) \in {n + 1, n + 2}
      /\ \A i \in 1..(n + 1) : path[i] = r[i]
      /\ Len(path) = n + 2 => path[n + 2] = Blank
  <2>1. CASE path = r
    BY <1>2, <2>1
  <2>2. CASE path = Append(r, Blank)
    <3>1. /\ path \in Seq(Segment) /\ Len(path) = Len(r) + 1
          /\ path[Len(r) + 1] = Blank
          /\ \A i \in 1..Len(r) : path[i] = r[i]
      BY <1>1, <1>2, <2>2, AppendProperties
    <3>2. Len(r) + 1 = n + 2
      BY <1>2
    <3>3. QED
      BY <1>2, <3>1, <3>2
  <2>3. QED
    BY <1>3, <2>1, <2>2
<1>5. \A i \in 1..n : path[i] = q[i]
  BY <1>2, <1>4
<1>6. path[n + 1] = x
  BY <1>2, <1>4
<1>7. SubSeq(path, 1, n) = q
  BY <1>1, <1>2, <1>4, <1>5, SubSeqIs DEF n
<1>8. QED
  BY <1>2, <1>4, <1>5, <1>6, <1>7 DEF n

\* The node of such a path.
LEMMA AboveNode ==
    ASSUME NEW path, NEW q, NEW x, Above(path, q, x)
    PROVE  Node(path) = Append(Node(q), x)
<1>1. q \in Seq(Segment) /\ x \in Segment /\ Blank \in Segment /\ x # Blank
  BY NavigationAssumption DEF Above, Segment
<1>2. Node(Append(q, x)) = Append(Node(q), x)
  BY <1>1, NodeAppend
<1>3. Append(q, x) \in Seq(Segment)
  BY <1>1, AppendProperties
<1>4. Node(Append(Append(q, x), Blank)) = Node(Append(q, x))
  BY <1>1, <1>3, NodeAppend
<1>5. QED
  BY <1>2, <1>4 DEF Above

\* The greatest number of a set is its Max.
LEMMA MaxIs ==
    ASSUME NEW S \in SUBSET Nat, NEW m \in S, \A n \in S : m >= n
    PROVE  Max(S) = m
<1>1. \A n \in S : (\A k \in S : n >= k) => n = m
  OBVIOUS
<1>2. QED
  BY <1>1 DEF Max

\* The parent's path: q, or the root's.
LEMMA ParentPath ==
    ASSUME NEW path, NEW q, NEW x, Above(path, q, x)
    PROVE  parent_path(path) = IF q = <<>> THEN <<Blank>> ELSE q
<1> DEFINE n == Len(q)
           Named == {0} \cup {i \in 1..Len(path) : path[i] # Blank}
<1>1. /\ path \in Seq(Segment) /\ n \in Nat /\ Len(path) \in {n + 1, n + 2}
      /\ path[n + 1] = x
      /\ Len(path) = n + 2 => path[n + 2] = Blank
      /\ SubSeq(path, 1, n) = q
  BY AboveSegments
<1>2. DOMAIN path = 1..Len(path) /\ x # Blank
  BY <1>1, LenProperties, NavigationAssumption DEF Above
<1>3. IF q = <<>> THEN n = 0 ELSE n > 0
  BY EmptySeq DEF Above
<1>4. TrimmedEnd(path) = n + 1
  <2>1. n + 1 \in 1..Len(path) /\ 1..Len(path) \subseteq Nat /\ n + 1 \in Nat
    BY <1>1
  <2> HIDE DEF n
  <2>2. n + 1 \in Named /\ Named \in SUBSET Nat
    <3>1. path[n + 1] # Blank
      BY <1>1, <1>2
    <3>2. QED
      BY <2>1, <3>1
  <2>3. \A i \in 1..Len(path) : path[i] # Blank => n + 1 >= i
    <3> SUFFICES ASSUME NEW i \in 1..Len(path), path[i] # Blank
                 PROVE  n + 1 >= i
      OBVIOUS
    <3>1. i # n + 2 /\ i \in Nat /\ i <= Len(path)
      BY <1>1
    <3>2. i <= n + 2
      BY <1>1, <3>1
    <3>3. QED
      BY <1>1, <3>1, <3>2
  <2>4. \A i \in Named : n + 1 >= i
    BY <2>1, <2>3
  <2> HIDE DEF Named
  <2>5. Max(Named) = n + 1
    BY <2>2, <2>4, MaxIs
  <2>6. QED
    BY <1>2, <2>5 DEF TrimmedEnd, Named
<1> HIDE DEF n
<1>5. (n + 1) - 1 = n /\ (n + 1 <= 1 <=> n = 0)
  BY <1>1
<1>6. parent_path(path) = IF n = 0 THEN <<Blank>> ELSE SubSeq(path, 1, n)
  BY <1>4, <1>5 DEF parent_path
<1>7. QED
  <2>1. CASE q = <<>>
    BY <1>3, <1>6, <2>1
  <2>2. CASE q # <<>>
    <3>1. n # 0
      BY <1>1, <1>3, <2>2
    <3>2. QED
      BY <1>1, <1>6, <2>2, <3>1
  <2>3. QED
    BY <2>1, <2>2

\* A function on 1..n is a sequence of that length.
LEMMA FunIsSeq ==
    ASSUME NEW S, NEW n \in Nat, NEW f \in [1..n -> S]
    PROVE  f \in Seq(S) /\ Len(f) = n
<1>1. f \in Seq(S)
  BY SeqDef
<1>2. Len(f) \in Nat /\ 1..Len(f) = 1..n
  BY <1>1, LenProperties
<1>3. QED
  BY <1>1, <1>2

\* The least number of a set is its Min.
LEMMA MinIs ==
    ASSUME NEW S \in SUBSET Nat, NEW m \in S, \A n \in S : m <= n
    PROVE  Min(S) = m
<1>1. \A n \in S : (\A k \in S : n =< k) => n = m
  OBVIOUS
<1>2. QED
  BY <1>1 DEF Min

\* What the upstream is asked for, up to the first cut or the path's end.
LEMMA RequestedTo ==
    ASSUME NEW path \in Seq(Segment), NEW m \in 0..Len(path),
           m = Len(path) \/ (m \in DOMAIN path /\ path[m] \in Cuts),
           \A i \in DOMAIN path : path[i] \in Cuts => m <= i
    PROVE  Requested(path) =
              [i \in 1..m |-> IF path[i] \in Lossy THEN Sent[path[i]] ELSE path[i]]
<1> DEFINE S == {Len(path)} \cup {i \in DOMAIN path : path[i] \in Cuts}
<1>1. DOMAIN path = 1..Len(path) /\ Len(path) \in Nat
  BY LenProperties
<1> DEFINE len == Len(path)
<1>a. len \in Nat /\ m \in 0..len
  BY <1>1
<1>b. \A i : i \in S <=> i = len \/ (i \in 1..len /\ path[i] \in Cuts)
  BY <1>1
<1>c. m = len \/ (m \in 1..len /\ path[m] \in Cuts)
  BY <1>1
<1>d. \A i \in 1..len : path[i] \in Cuts => m <= i
  BY <1>1
<1> HIDE DEF S, len
<1>2. S \in SUBSET Nat /\ m \in S
  BY <1>a, <1>b, <1>c
<1>3. \A n \in S : m <= n
  BY <1>a, <1>b, <1>d
<1>4. Min(S) = m
  BY <1>2, <1>3, MinIs
<1>5. QED
  BY <1>4 DEF Requested, S

\* Without a lossy name it is asked for the path itself.
LEMMA RequestedPlain ==
    ASSUME NEW path \in Seq(Segment), ToSet(path) \cap Lossy = {}
    PROVE  Requested(path) = path
<1>1. DOMAIN path = 1..Len(path) /\ Len(path) \in Nat
  BY LenProperties
<1>2. \A i \in DOMAIN path : path[i] \notin Lossy /\ path[i] \notin Cuts
  BY NavigationAssumption DEF ToSet
<1>3. Requested(path) =
         [i \in 1..Len(path) |-> IF path[i] \in Lossy THEN Sent[path[i]] ELSE path[i]]
  BY <1>1, <1>2, RequestedTo
<1>4. Requested(path) = [i \in 1..Len(path) |-> path[i]]
  BY <1>1, <1>2, <1>3
<1>5. path = [i \in DOMAIN path |-> path[i]]
  BY <1>1, SeqDef
<1>6. QED
  BY <1>1, <1>4, <1>5

\* When only the last name may be lossy, it is asked for something beside it:
\* the directory is the same.
LEMMA RequestedBeside ==
    ASSUME NEW path, NEW q, NEW x, Above(path, q, x), ToSet(q) \cap Lossy = {}
    PROVE  \E y \in Names : Node(Requested(path)) = Append(Node(q), y)
<1> DEFINE n == Len(q)
           len == Len(path)
           m == IF x \in Cuts THEN n + 1 ELSE len
           y == IF x \in Lossy THEN Sent[x] ELSE x
           f == Requested(path)
<1>1. /\ path \in Seq(Segment) /\ n \in Nat
      /\ len = n + 1 \/ len = n + 2
      /\ \A i \in 1..n : path[i] = q[i]
      /\ path[n + 1] = x
      /\ len = n + 2 => path[n + 2] = Blank
      /\ DOMAIN path = 1..len
  BY AboveSegments, LenProperties, Zenon
<1>2. /\ q \in Seq(Segment) /\ x \in Names /\ DOMAIN q = 1..n
      /\ Blank \notin Lossy /\ Blank \notin Cuts /\ Cuts \subseteq Lossy
  BY LenProperties, NavigationAssumption DEF Above
<1>3. y \in Names /\ y \in Segment /\ Blank \in Segment
  BY <1>2, NavigationAssumption DEF Segment
<1>4. \A i \in 1..n : path[i] \notin Lossy
  BY <1>1, <1>2 DEF ToSet
<1> HIDE DEF n, y, len
<1>n. n \in Nat /\ (len = n + 1 \/ len = n + 2)
  BY <1>1
<1>5. \A i \in 1..len : i \in 1..n \/ i = n + 1 \/ (i = n + 2 /\ len = n + 2)
  BY <1>n
<1>6. m \in 0..len /\ (m = n + 1 \/ m = n + 2) /\ m <= len
  <2>1. n + 1 \in 0..len /\ n + 1 <= len /\ len \in 0..len /\ len <= len
    BY <1>n
  <2>2. m = n + 1 \/ m = len
    OBVIOUS
  <2> HIDE DEF m
  <2>3. QED
    BY <1>n, <2>1, <2>2, Zenon
<1>7. m = len \/ (m \in DOMAIN path /\ path[m] \in Cuts)
  <2>1. CASE x \in Cuts
    <3>1. m = n + 1 /\ n + 1 \in 1..len
      BY <1>n, <2>1
    <3>2. QED
      BY <1>1, <2>1, <3>1, Zenon
  <2>2. CASE x \notin Cuts
    BY <2>2
  <2>3. QED
    BY <2>1, <2>2
<1>8. \A i \in DOMAIN path : path[i] \in Cuts => m <= i
  <2> SUFFICES ASSUME NEW i \in 1..len, path[i] \in Cuts PROVE m <= i
    BY <1>1
  <2>1. i = n + 1
    <3>1. i \notin 1..n
      BY <1>2, <1>4, Zenon
    <3>2. ~(i = n + 2 /\ len = n + 2)
      BY <1>1, <1>2, Zenon
    <3>3. QED
      BY <1>5, <3>1, <3>2, Zenon
  <2>2. x \in Cuts
    BY <1>1, <2>1, Zenon
  <2>3. m = i
    BY <2>1, <2>2
  <2>4. QED
    BY <2>3
<1>9. f = [i \in 1..m |-> IF path[i] \in Lossy THEN Sent[path[i]] ELSE path[i]]
  BY <1>1, <1>6, <1>7, <1>8, RequestedTo
<1> HIDE DEF m, f
<1>10. \A i \in 1..m :
          f[i] = IF i = n + 1 THEN y ELSE IF i = n + 2 THEN Blank ELSE q[i]
  <2> SUFFICES ASSUME NEW i \in 1..m
               PROVE  f[i] = IF i = n + 1 THEN y ELSE IF i = n + 2 THEN Blank ELSE q[i]
    OBVIOUS
  <2>1. i \in 1..len /\ f[i] = IF path[i] \in Lossy THEN Sent[path[i]] ELSE path[i]
    BY <1>1, <1>6, <1>9
  <2>2. CASE i \in 1..n
    BY <1>1, <1>4, <2>1, <2>2
  <2>3. CASE i = n + 1
    BY <1>1, <2>1, <2>3 DEF y
  <2>4. CASE i = n + 2 /\ len = n + 2
    BY <1>1, <1>2, <2>1, <2>4
  <2>5. QED
    BY <1>5, <2>1, <2>2, <2>3, <2>4
<1>11. f \in Seq(Segment) /\ Len(f) = m
  <2>1. \A i \in 1..n : q[i] \in Segment
    BY <1>2, ElementOfSeq DEF n
  <2>2. \A i \in 1..m : f[i] \in Segment
    BY <1>1, <1>3, <1>6, <1>10, <2>1
  <2>3. f \in [1..m -> Segment]
    BY <1>9, <2>2
  <2>4. m \in Nat
    BY <1>1, <1>6
  <2>5. QED
    BY <2>3, <2>4, FunIsSeq
<1> DEFINE r == Append(q, y)
<1>12. /\ r \in Seq(Segment) /\ Len(r) = n + 1 /\ r[n + 1] = y
       /\ \A i \in 1..n : r[i] = q[i]
  BY <1>2, <1>3, AppendProperties DEF n
<1>13. /\ Append(r, Blank) \in Seq(Segment) /\ Len(Append(r, Blank)) = Len(r) + 1
       /\ Append(r, Blank)[Len(r) + 1] = Blank
       /\ \A i \in 1..Len(r) : Append(r, Blank)[i] = r[i]
  BY <1>3, <1>12, AppendProperties
<1> HIDE DEF r
<1>14. Above(f, q, y)
  <2>1. CASE m = n + 1
    <3>1. \A i \in 1..Len(f) : f[i] = r[i]
      BY <1>1, <1>10, <1>11, <1>12, <2>1
    <3>2. f = r
      BY <1>11, <1>12, <2>1, <3>1, SeqEqual
    <3>3. QED
      BY <1>2, <1>3, <3>2 DEF Above, r
  <2>2. CASE m = n + 2
    <3>1. \A i \in 1..Len(f) : f[i] = Append(r, Blank)[i]
      BY <1>1, <1>10, <1>11, <1>12, <1>13, <2>2
    <3>2. Len(f) = Len(Append(r, Blank))
      BY <1>1, <1>11, <1>12, <1>13, <2>2
    <3>3. f = Append(r, Blank)
      BY <1>11, <1>13, <3>1, <3>2, SeqEqual
    <3>4. QED
      BY <1>2, <1>3, <3>3 DEF Above, r
  <2>3. QED
    BY <1>6, <2>1, <2>2
<1>15. Node(f) = Append(Node(q), y)
  BY <1>14, AboveNode
<1>16. QED
  BY <1>3, <1>15 DEF f

-------------------------------------------------------------------------------
(* parse_index reads every entry of an index page once.                    *)

LEMMA ParsedOnce ==
    ASSUME NEW page \in Seq(Seq(Href))
    PROVE  \E n \in Nat : \E at \in [1..n -> EntryLines(page)] :
              /\ parse_index(page) =
                    [k \in 1..n |-> FileEntry(page[at[k]][1].name, page[at[k]][1].slash)]
              /\ \A k, l \in 1..n : at[k] = at[l] => k = l
              /\ \A i \in EntryLines(page) : \E k \in 1..n : at[k] = i
<1> DEFINE lines   == Without(page, {<<>>})
           hrefs   == [i \in DOMAIN lines |-> lines[i][1]]
           skipped == {h \in Href : ~IsEntry(h)}
           kept    == Without(hrefs, skipped)
           entries == [i \in DOMAIN kept |-> FileEntry(kept[i].name, kept[i].slash)]
           n       == Len(kept)
<1>1. parse_index(page) = entries
  BY DEF parse_index
<1>2. lines \in Seq(Seq(Href)) /\ \E f : Picks(f, page, lines, {<<>>})
  BY WithoutPicks
<1>3. PICK f : Picks(f, page, lines, {<<>>})
  BY <1>2
<1> HIDE DEF lines
<1>4. /\ f \in [1..Len(lines) -> 1..Len(page)] /\ Len(lines) \in Nat
      /\ \A k \in 1..Len(lines) : lines[k] = page[f[k]] /\ page[f[k]] # <<>>
      /\ \A i \in 1..Len(page) : page[i] # <<>> => \E k \in 1..Len(lines) : f[k] = i
      /\ \A k, l \in 1..Len(lines) : k < l => f[k] < f[l]
  BY <1>2, <1>3, LenProperties DEF Picks
<1>5. DOMAIN lines = 1..Len(lines)
  BY <1>2, LenProperties
<1>6. \A k \in 1..Len(lines) : lines[k][1] \in Href
  <2> SUFFICES ASSUME NEW k \in 1..Len(lines) PROVE lines[k][1] \in Href
    OBVIOUS
  <2>1. lines[k] \in Seq(Href) /\ lines[k] # <<>>
    BY <1>2, <1>4, ElementOfSeq
  <2>2. 1 \in 1..Len(lines[k])
    BY <2>1, EmptySeq
  <2>3. QED
    BY <2>1, <2>2, ElementOfSeq
<1>7. hrefs \in [1..Len(lines) -> Href]
  BY <1>5, <1>6
<1>8. /\ hrefs \in Seq(Href) /\ Len(hrefs) = Len(lines)
      /\ \A k \in 1..Len(lines) : hrefs[k] = lines[k][1]
  BY <1>4, <1>5, <1>7, FunIsSeq
<1> HIDE DEF hrefs
<1>9. kept \in Seq(Href) /\ \E g : Picks(g, hrefs, kept, skipped)
  BY <1>8, WithoutPicks
<1>10. PICK g : Picks(g, hrefs, kept, skipped)
  BY <1>9
<1> HIDE DEF kept, skipped
<1>11. /\ g \in [1..n -> 1..Len(hrefs)] /\ n \in Nat
       /\ \A k \in 1..n : kept[k] = hrefs[g[k]] /\ hrefs[g[k]] \notin skipped
       /\ \A i \in 1..Len(hrefs) : hrefs[i] \notin skipped => \E k \in 1..n : g[k] = i
       /\ \A k, l \in 1..n : k < l => g[k] < g[l]
  BY <1>9, <1>10, LenProperties DEF Picks
<1>12. DOMAIN kept = 1..n
  BY <1>9, LenProperties
<1> HIDE DEF n
<1> DEFINE at == [k \in 1..n |-> f[g[k]]]
<1>13. \A k \in 1..n :
          /\ g[k] \in 1..Len(lines)
          /\ at[k] = f[g[k]] /\ at[k] \in 1..Len(page)
          /\ kept[k] = page[at[k]][1] /\ page[at[k]] # <<>>
          /\ kept[k] \in Href /\ kept[k] \notin skipped
  <2> SUFFICES ASSUME NEW k \in 1..n
               PROVE  /\ g[k] \in 1..Len(lines)
                      /\ f[g[k]] \in 1..Len(page)
                      /\ kept[k] = page[f[g[k]]][1] /\ page[f[g[k]]] # <<>>
                      /\ kept[k] \in Href /\ kept[k] \notin skipped
    OBVIOUS
  <2>1. g[k] \in 1..Len(lines)
    BY <1>8, <1>11
  <2>2. kept[k] = hrefs[g[k]] /\ hrefs[g[k]] \notin skipped
    BY <1>11
  <2>3. hrefs[g[k]] = lines[g[k]][1]
    BY <1>8, <2>1
  <2>4. lines[g[k]] = page[f[g[k]]] /\ page[f[g[k]]] # <<>> /\ f[g[k]] \in 1..Len(page)
    BY <1>4, <2>1
  <2>5. lines[g[k]][1] \in Href
    BY <1>6, <2>1
  <2>6. QED
    BY <2>1, <2>2, <2>3, <2>4, <2>5
<1>14. DOMAIN page = 1..Len(page)
  BY LenProperties
<1>15. at \in [1..n -> EntryLines(page)]
  <2> SUFFICES ASSUME NEW k \in 1..n PROVE at[k] \in EntryLines(page)
    OBVIOUS
  <2> HIDE DEF at
  <2>1. kept[k] \in Href /\ kept[k] \notin skipped /\ kept[k] = page[at[k]][1]
    BY <1>13
  <2>2. IsEntry(page[at[k]][1])
    BY <2>1 DEF skipped
  <2>3. QED
    BY <1>13, <1>14, <2>2 DEF EntryLines
<1>16. \A k \in 1..n :
          entries[k] = FileEntry(page[at[k]][1].name, page[at[k]][1].slash)
  <2> SUFFICES ASSUME NEW k \in 1..n
               PROVE  entries[k] = FileEntry(page[at[k]][1].name, page[at[k]][1].slash)
    OBVIOUS
  <2>1. entries[k] = FileEntry(kept[k].name, kept[k].slash)
    BY <1>12
  <2> HIDE DEF entries, at
  <2>2. kept[k] = page[at[k]][1]
    BY <1>13
  <2>3. QED
    BY <2>1, <2>2
<1>17. DOMAIN entries = 1..n
  BY <1>12
<1> HIDE DEF at, entries
<1>18. \A k, l \in 1..n : at[k] = at[l] => k = l
  <2> SUFFICES ASSUME NEW k \in 1..n, NEW l \in 1..n, k < l PROVE at[k] # at[l]
    BY <1>11
  <2>1. g[k] < g[l] /\ g[k] \in 1..Len(lines) /\ g[l] \in 1..Len(lines)
    BY <1>11, <1>13
  <2>2. f[g[k]] < f[g[l]]
    BY <1>4, <2>1
  <2>3. at[k] = f[g[k]] /\ at[l] = f[g[l]] /\ at[k] \in Nat /\ at[l] \in Nat
    BY <1>13
  <2>4. QED
    BY <2>2, <2>3
<1>19. \A i \in EntryLines(page) : \E k \in 1..n : at[k] = i
  <2> SUFFICES ASSUME NEW i \in EntryLines(page) PROVE \E k \in 1..n : at[k] = i
    OBVIOUS
  <2>1. i \in 1..Len(page) /\ page[i] # <<>> /\ IsEntry(page[i][1])
    BY <1>14 DEF EntryLines
  <2>2. PICK j \in 1..Len(lines) : f[j] = i
    BY <1>4, <2>1
  <2>3. hrefs[j] = page[i][1]
    BY <1>4, <1>8, <2>2
  <2>4. hrefs[j] \notin skipped
    BY <2>1, <2>3 DEF skipped
  <2>5. PICK k \in 1..n : g[k] = j
    BY <1>8, <1>11, <2>4
  <2>6. at[k] = i
    BY <1>13, <2>2, <2>5
  <2>7. QED
    BY <2>6
<1>20. parse_index(page) =
          [k \in 1..n |-> FileEntry(page[at[k]][1].name, page[at[k]][1].slash)]
  BY <1>1, <1>16, <1>17 DEF entries
<1>21. n \in Nat
  BY <1>11
<1>22. QED
  BY <1>15, <1>18, <1>19, <1>20, <1>21, Zenon

-------------------------------------------------------------------------------
(* Sorting: every strict order has a permutation that follows it.          *)

\* before[i] is what comes before i. The place of i is one more than the
\* number of those.
LEMMA Sortable ==
    ASSUME NEW n \in Nat, NEW before \in [1..n -> SUBSET (1..n)],
           \A i \in 1..n : i \notin before[i],
           \A i, j \in 1..n : j \in before[i] => before[j] \subseteq before[i],
           \A i, j \in 1..n : i # j => i \in before[j] \/ j \in before[i]
    PROVE  \E p \in Bijection(1..n, 1..n) :
              \A i, j \in 1..n : i < j => p[i] \in before[p[j]]
<1> DEFINE S == 1..n
           place == [i \in S |-> Cardinality(before[i]) + 1]
           p == Inverse(place, S, S)
<1>1. IsFiniteSet(S) /\ Cardinality(S) = n
  BY FS_Interval
<1>2. \A i \in S : /\ IsFiniteSet(before[i]) /\ Cardinality(before[i]) \in Nat
                   /\ Cardinality(before[i]) + 1 <= n
  <2> SUFFICES ASSUME NEW i \in S
               PROVE  /\ IsFiniteSet(before[i]) /\ Cardinality(before[i]) \in Nat
                      /\ Cardinality(before[i]) + 1 <= n
    OBVIOUS
  <2>1. IsFiniteSet(S \ {i}) /\ Cardinality(S \ {i}) = n - 1
    BY <1>1, FS_RemoveElement
  <2>2. before[i] \in SUBSET (S \ {i})
    OBVIOUS
  <2>3. IsFiniteSet(before[i]) /\ Cardinality(before[i]) <= Cardinality(S \ {i})
    BY <2>1, <2>2, FS_Subset
  <2>4. Cardinality(before[i]) \in Nat
    BY <2>3, FS_CardinalityType
  <2>5. QED
    BY <2>1, <2>3, <2>4
<1>3. \A i \in S : place[i] = Cardinality(before[i]) + 1
  OBVIOUS
<1>4. place \in [S -> S]
  BY <1>2
<1> HIDE DEF place, S
<1>5. \A i, j \in S : i \in before[j] => place[i] < place[j]
  <2> SUFFICES ASSUME NEW i \in S, NEW j \in S, i \in before[j]
               PROVE  place[i] < place[j]
    OBVIOUS
  <2>1. before[i] \in SUBSET before[j] /\ before[i] # before[j]
    BY DEF S
  <2>2. Cardinality(before[i]) <= Cardinality(before[j])
    BY <1>2, <2>1, FS_Subset
  <2>3. Cardinality(before[i]) # Cardinality(before[j])
    BY <1>2, <2>1, FS_Subset
  <2>4. QED
    BY <1>2, <1>3, <2>2, <2>3
<1>6. S \subseteq Nat /\ \A i \in S : place[i] \in Nat
  BY <1>4 DEF S
<1>7. \A i, j \in S : i # j => i \in before[j] \/ j \in before[i]
  BY DEF S
<1>8. \A i, j \in S : place[i] = place[j] => i = j
  BY <1>5, <1>6, <1>7
<1>9. place \in Injection(S, S)
  BY <1>4, <1>8, Fun_IsInj
<1>10. place \in Surjection(S, S)
  BY <1>1, <1>9, FS_Injection
<1>11. place \in Bijection(S, S) /\ Range(place) = S
  BY <1>9, <1>10, Fun_IsBij, Fun_SurjectionProperties
<1>12. p \in Bijection(S, S)
  BY <1>11, Fun_BijInverse
<1>13. \A k \in S : place[p[k]] = k
  BY <1>4, <1>11, Fun_InverseProperties
<1> HIDE DEF p
<1>14. \A k \in S : p[k] \in S
  BY <1>12, Fun_BijectionProperties
<1>15. \A i, j \in S : i < j => p[i] \in before[p[j]]
  <2> SUFFICES ASSUME NEW i \in S, NEW j \in S, i < j
               PROVE  p[i] \in before[p[j]]
    OBVIOUS
  <2>1. p[i] \in S /\ p[j] \in S /\ place[p[i]] = i /\ place[p[j]] = j
    BY <1>13, <1>14
  <2>2. p[i] # p[j] /\ ~(place[p[j]] < place[p[i]])
    BY <1>6, <2>1
  <2>3. QED
    BY <1>5, <1>7, <2>1, <2>2
<1>16. QED
  BY <1>12, <1>15 DEF S

Entry == [name : Names, is_directory : BOOLEAN]

\* There is a stable order: Precedes with the place for the last criterion.
LEMMA StableOrder ==
    ASSUME NEW entries \in Seq(Entry)
    PROVE  \E p \in Bijection(DOMAIN entries, DOMAIN entries) : Sorts(p, entries)
<1> DEFINE n == Len(entries)
           First(i, j) == \/ Precedes(entries[i], entries[j])
                          \/ ~Precedes(entries[j], entries[i]) /\ i < j
           before == [j \in 1..n |-> {i \in 1..n : First(i, j)}]
<1>1. n \in Nat /\ DOMAIN entries = 1..n /\ \A i \in 1..n : entries[i] \in Entry
  BY LenProperties, ElementOfSeq
<1>2. \A i \in 1..n : entries[i].is_directory \in BOOLEAN /\ Rank[entries[i].name] \in Nat
  BY <1>1, NavigationAssumption DEF Entry
<1> HIDE DEF n
<1>3. \A i \in 1..n : ~First(i, i)
  BY <1>1, <1>2 DEF Precedes
<1>4. \A i, j, k \in 1..n : First(i, j) /\ First(j, k) => First(i, k)
  BY <1>1, <1>2 DEF Precedes
<1>5. \A i, j \in 1..n : i # j => First(i, j) \/ First(j, i)
  BY <1>1, <1>2 DEF Precedes
<1>6. \A i, j \in 1..n : i \in before[j] <=> First(i, j)
  OBVIOUS
<1>7. before \in [1..n -> SUBSET (1..n)]
  OBVIOUS
<1> HIDE DEF before
<1>8. /\ \A i \in 1..n : i \notin before[i]
      /\ \A i, j \in 1..n : j \in before[i] => before[j] \subseteq before[i]
      /\ \A i, j \in 1..n : i # j => i \in before[j] \/ j \in before[i]
  <2> HIDE DEF First
  <2> QED
    BY <1>3, <1>4, <1>5, <1>6, <1>7
<1>9. PICK p \in Bijection(1..n, 1..n) :
         \A i, j \in 1..n : i < j => p[i] \in before[p[j]]
  BY <1>1, <1>7, <1>8, Sortable
<1>10. \A i \in 1..n : p[i] \in 1..n
  <2>1. p \in [1..n -> 1..n]
    BY Fun_BijectionProperties
  <2>2. QED
    BY <2>1
<1>11. \A i, j \in 1..n : i < j => First(p[i], p[j])
  <2> HIDE DEF First
  <2> QED
    BY <1>6, <1>9, <1>10
<1>12. QED
  BY <1>1, <1>9, <1>11 DEF Sorts

\* A sorted listing has the entries it was made of, and is in order when no
\* two of them have the same name.
LEMMA SortedInOrder ==
    ASSUME NEW entries \in Seq(Entry),
           \A i, j \in 1..Len(entries) : entries[i].name = entries[j].name => i = j
    PROVE  /\ sorted_entries(entries) \in Seq(Entry)
           /\ ToSet(sorted_entries(entries)) = ToSet(entries)
           /\ InOrder(sorted_entries(entries))
<1> DEFINE n == Len(entries)
           places == DOMAIN entries
           p == CHOOSE p \in Bijection(places, places) : Sorts(p, entries)
           listed == [i \in 1..n |-> entries[p[i]]]
<1>1. n \in Nat /\ DOMAIN entries = 1..n /\ \A i \in 1..n : entries[i] \in Entry
  BY LenProperties, ElementOfSeq
<1>2. p \in Bijection(places, places) /\ Sorts(p, entries)
  BY StableOrder
<1>3. sorted_entries(entries) = listed
  <2>1. sorted_entries(entries) = [i \in DOMAIN entries |-> entries[p[i]]]
    BY Zenon DEF sorted_entries
  <2>2. QED
    BY <1>1, <2>1
<1> HIDE DEF n, p
<1>4. /\ p \in [1..n -> 1..n]
      /\ \A a, b \in 1..n : p[a] = p[b] => a = b
      /\ \A t \in 1..n : \E k \in 1..n : p[k] = t
  <2>1. p \in Bijection(1..n, 1..n)
    BY <1>1, <1>2
  <2>2. QED
    BY <2>1 DEF Bijection, Injection, Surjection, IsInjective
<1>5. \A i, j \in 1..n : i < j =>
         \/ Precedes(entries[p[i]], entries[p[j]])
         \/ ~Precedes(entries[p[j]], entries[p[i]]) /\ p[i] < p[j]
  BY <1>1, <1>2 DEF Sorts
<1>6. \A i \in 1..n : listed[i] = entries[p[i]] /\ listed[i] \in Entry
  BY <1>1, <1>4
<1>7. DOMAIN listed = 1..n /\ listed \in [1..n -> Entry]
  BY <1>6
<1>8. listed \in Seq(Entry)
  BY <1>1, <1>7, FunIsSeq
<1> HIDE DEF listed
<1>9. ToSet(listed) = ToSet(entries)
  BY <1>1, <1>4, <1>6, <1>7 DEF ToSet
<1>10. InOrder(listed)
  <2> SUFFICES ASSUME NEW i \in 1..n, NEW j \in 1..n, i < j
               PROVE  \/ listed[i].is_directory /\ ~listed[j].is_directory
                      \/ /\ listed[i].is_directory = listed[j].is_directory
                         /\ Rank[listed[i].name] < Rank[listed[j].name]
    BY <1>7 DEF InOrder
  <2>1. \/ Precedes(listed[i], listed[j])
        \/ ~Precedes(listed[j], listed[i])
    BY <1>5, <1>6
  <2>2. p[i] \in 1..n /\ p[j] \in 1..n /\ p[i] # p[j]
    BY <1>1, <1>4
  <2>3. listed[i].name # listed[j].name
    BY <1>6, <2>2 DEF n
  <2>4. /\ listed[i].name \in Names /\ listed[j].name \in Names
        /\ listed[i].is_directory \in BOOLEAN /\ listed[j].is_directory \in BOOLEAN
    BY <1>6 DEF Entry
  <2>5. /\ Rank[listed[i].name] \in Nat /\ Rank[listed[j].name] \in Nat
        /\ Rank[listed[i].name] # Rank[listed[j].name]
    BY <2>3, <2>4, NavigationAssumption
  <2>6. QED
    BY <2>1, <2>4, <2>5 DEF Precedes
<1>11. QED
  BY <1>3, <1>8, <1>9, <1>10

\* The listing of a directory is made of children of it, none twice: what a page
\* of the upstream has more than them is not in it. Each is there when it has a
\* line of its own.
LEMMA DirectoryListed ==
    ASSUME NEW alias \in Aliases, NEW dir \in Dirs[alias]
    PROVE  LET listed == sorted_entries(parse_index(Index[alias][dir]))
           IN  /\ listed \in Seq(Entry)
               /\ \A e \in ToSet(listed) :
                     Append(dir, e.name) \in
                        IF e.is_directory THEN Dirs[alias] ELSE Files[alias]
               /\ \A e \in ToSet(listed) : Append(dir, e.name) \in Children(alias, dir)
               /\ OnePerLine(Index[alias][dir]) =>
                     \A node \in Children(alias, dir) :
                        \E e \in ToSet(listed) : node = Append(dir, e.name)
               /\ InOrder(listed)
<1> DEFINE page    == Index[alias][dir]
           entries == parse_index(page)
           listed  == sorted_entries(entries)
           Kind(e) == IF e.is_directory THEN Dirs[alias] ELSE Files[alias]
<1>0. /\ page \in Seq(Seq(Href))
      /\ \A i \in DOMAIN page : \A href \in EntriesOn(page[i]) :
            Append(dir, href.name) \in
               IF href.slash THEN Dirs[alias] ELSE Files[alias]
      /\ \A node \in Children(alias, dir) :
            \E i \in DOMAIN page : \E href \in EntriesOn(page[i]) :
               Append(dir, href.name) = node
      /\ \A i, j \in EntryLines(page) : page[i][1].name = page[j][1].name => i = j
      /\ dir \in Seq(Names)
  BY UpstreamAssumption
<1> HIDE DEF page
<1>1. /\ page \in Seq(Seq(Href))
      /\ \A i \in EntryLines(page) :
            Append(dir, page[i][1].name) \in
               IF page[i][1].slash THEN Dirs[alias] ELSE Files[alias]
      /\ OnePerLine(page) =>
            \A node \in Children(alias, dir) :
               \E i \in EntryLines(page) : Append(dir, page[i][1].name) = node
      /\ \A i, j \in EntryLines(page) : page[i][1].name = page[j][1].name => i = j
      /\ dir \in Seq(Names)
  <2>1. ASSUME NEW i \in EntryLines(page)
        PROVE  i \in DOMAIN page /\ page[i][1] \in EntriesOn(page[i])
    <3>1. i \in 1..Len(page) /\ page[i] # <<>> /\ IsEntry(page[i][1])
      BY <1>0, LenProperties DEF EntryLines
    <3>2. page[i] \in Seq(Href)
      BY <1>0, <3>1, ElementOfSeq
    <3>3. 1 \in DOMAIN page[i]
      BY <3>1, <3>2, EmptySeq, LenProperties
    <3>4. page[i][1] \in ToSet(page[i])
      BY <3>3 DEF ToSet
    <3>5. QED
      BY <3>1, <3>4 DEF EntryLines, EntriesOn
  <2>2. ASSUME OnePerLine(page), NEW node \in Children(alias, dir)
        PROVE  \E i \in EntryLines(page) : Append(dir, page[i][1].name) = node
    <3>1. PICK i \in DOMAIN page : \E href \in EntriesOn(page[i]) :
             Append(dir, href.name) = node
      BY <1>0
    <3>2. PICK href \in EntriesOn(page[i]) : Append(dir, href.name) = node
      BY <3>1
    <3>3. IsEntry(page[i][1]) /\ page[i][1].name = href.name
      BY <2>2 DEF OnePerLine
    <3>4. page[i] # <<>>
      <4>1. ToSet(<<>>) = {}
        BY DEF ToSet
      <4>2. QED
        BY <4>1, Zenon DEF EntriesOn
    <3>5. i \in EntryLines(page)
      BY <3>3, <3>4 DEF EntryLines
    <3>6. QED
      BY <3>2, <3>3, <3>5
  <2>3. QED
    BY <1>0, <2>1, <2>2
<1>2. PICK n \in Nat : \E at \in [1..n -> EntryLines(page)] :
         /\ entries = [k \in 1..n |-> FileEntry(page[at[k]][1].name, page[at[k]][1].slash)]
         /\ \A k, l \in 1..n : at[k] = at[l] => k = l
         /\ \A i \in EntryLines(page) : \E k \in 1..n : at[k] = i
  BY <1>1, ParsedOnce
<1>3. PICK at \in [1..n -> EntryLines(page)] :
         /\ entries = [k \in 1..n |-> FileEntry(page[at[k]][1].name, page[at[k]][1].slash)]
         /\ \A k, l \in 1..n : at[k] = at[l] => k = l
         /\ \A i \in EntryLines(page) : \E k \in 1..n : at[k] = i
  BY <1>2
<1> HIDE DEF entries
<1>4. \A i \in EntryLines(page) : page[i][1].name \in Names /\ page[i][1].slash \in BOOLEAN
  <2> SUFFICES ASSUME NEW i \in EntryLines(page)
               PROVE  page[i][1].name \in Names /\ page[i][1].slash \in BOOLEAN
    OBVIOUS
  <2>1. i \in 1..Len(page) /\ page[i] # <<>> /\ IsEntry(page[i][1])
    BY <1>1, LenProperties DEF EntryLines
  <2>2. page[i] \in Seq(Href)
    BY <1>1, <2>1, ElementOfSeq
  <2>3. page[i][1] \in Href
    <3>1. 1 \in 1..Len(page[i])
      BY <2>1, <2>2, EmptySeq
    <3>2. QED
      BY <2>2, <3>1, ElementOfSeq
  <2>4. QED
    BY <2>1, <2>3 DEF Href, IsEntry
<1>5. \A k \in 1..n :
         /\ at[k] \in EntryLines(page)
         /\ entries[k].name = page[at[k]][1].name
         /\ entries[k].is_directory = page[at[k]][1].slash
         /\ entries[k] \in Entry
  BY <1>3, <1>4 DEF FileEntry, Entry
<1>6. entries \in Seq(Entry) /\ Len(entries) = n /\ DOMAIN entries = 1..n
  <2>1. entries \in [1..n -> Entry]
    BY <1>3, <1>5
  <2>2. QED
    BY <2>1, FunIsSeq
<1>7. \A k, l \in 1..n : entries[k].name = entries[l].name => k = l
  BY <1>1, <1>3, <1>5
<1>8. /\ listed \in Seq(Entry) /\ ToSet(listed) = ToSet(entries) /\ InOrder(listed)
  BY <1>6, <1>7, SortedInOrder
<1>9. \A e \in ToSet(entries) : \E k \in 1..n : e = entries[k]
  BY <1>6 DEF ToSet
<1>10. \A k \in 1..n : entries[k] \in ToSet(entries)
  BY <1>6 DEF ToSet
<1> HIDE DEF listed
<1>11. \A e \in ToSet(entries) : Append(dir, e.name) \in Kind(e)
  <2> SUFFICES ASSUME NEW k \in 1..n
               PROVE  Append(dir, entries[k].name) \in Kind(entries[k])
    BY <1>9
  <2>1. QED
    BY <1>1, <1>5
<1>12. \A e \in ToSet(entries) : Append(dir, e.name) \in Children(alias, dir)
  <2> SUFFICES ASSUME NEW e \in ToSet(entries)
               PROVE  Append(dir, e.name) \in Children(alias, dir)
    OBVIOUS
  <2>1. e \in Entry
    BY <1>5, <1>9
  <2>2. Append(dir, e.name) # <<>> /\ Front(Append(dir, e.name)) = dir
    BY <1>1, <2>1, AppendProperties, FrontAppend DEF Entry
  <2>3. QED
    BY <1>11, <2>2 DEF Children
<1>13. OnePerLine(page) =>
         \A node \in Children(alias, dir) : \E e \in ToSet(entries) : node = Append(dir, e.name)
  <2> SUFFICES ASSUME OnePerLine(page), NEW node \in Children(alias, dir)
               PROVE  \E e \in ToSet(entries) : node = Append(dir, e.name)
    OBVIOUS
  <2>1. PICK i \in EntryLines(page) : Append(dir, page[i][1].name) = node
    BY <1>1
  <2>2. PICK k \in 1..n : at[k] = i
    BY <1>3
  <2>3. QED
    BY <1>5, <1>10, <2>1, <2>2
<1>14. QED
  BY <1>8, <1>11, <1>12, <1>13 DEF page, entries, listed

-------------------------------------------------------------------------------
(* Pages and their links, with a prefix or without one.                    *)

Nodes(alias) == Dirs[alias] \cup Files[alias]

\* What a page of a source lists is there, under an alias of the exporter.
LEMMA SourcePageIs ==
    ASSUME NEW u, Page(u).kind = "source"
    PROVE  LET alias == alias_of(u)
               path  == normalized_path(u)
               node  == Node(Requested(path))
           IN  /\ Routed(u) /\ Route(u) # <<Blank>> /\ Len(Route(u)) # 1
               /\ alias \in Aliases /\ node \in Nodes(alias)
               /\ Page(u) = SourcePage(alias, node)
<1>1. /\ Missing.kind # "source" /\ Sources.kind # "source"
      /\ Redirect.kind # "source"
  BY DEF Missing, Sources, Redirect
<1>2. /\ Routed(u) /\ Route(u) # <<Blank>>
      /\ Page(u) = handle_source_path(alias_of(u), normalized_path(u))
  BY <1>1 DEF Page
<1> DEFINE alias == alias_of(u)
           path  == normalized_path(u)
<1> HIDE DEF alias, path
<1>3. handle_source_path(alias, path).kind = "source"
  BY <1>2 DEF alias, path
<1>4. alias \in Aliases /\ Has(alias, Requested(path))
  BY <1>1, <1>3 DEF handle_source_path
<1>5. handle_source_path(alias, path) = SourcePage(alias, Node(Requested(path)))
  BY <1>4 DEF handle_source_path
<1>6. Node(Requested(path)) \in Nodes(alias)
  BY <1>4 DEF Has, Nodes
<1>7. Len(Route(u)) # 1
  <2>1. alias_of(u) # Blank
    BY <1>4, NavigationAssumption DEF alias
  <2>2. Len(Route(u)) = 1 => Page(u) = Redirect
    BY <1>2, <2>1 DEF Page
  <2>3. QED
    BY <1>1, <2>2
<1>8. QED
  BY <1>2, <1>4, <1>5, <1>6, <1>7 DEF alias, path

\* The list of sources is at the prefix alone.
LEMMA SourcesPageIs ==
    ASSUME NEW u, Page(u).kind = "sources"
    PROVE  Routed(u) /\ Route(u) = <<Blank>>
<1>1. /\ Missing.kind # "sources" /\ Redirect.kind # "sources"
      /\ \A alias, node : SourcePage(alias, node).kind # "sources"
  BY DEF Missing, Redirect, SourcePage
<1>2. handle_source_path(alias_of(u), normalized_path(u)).kind # "sources"
  BY <1>1 DEF handle_source_path
<1>3. QED
  BY <1>1, <1>2 DEF Page

\* Only an alias by itself is redirected.
LEMMA RedirectIs ==
    ASSUME NEW u, Page(u) = Redirect
    PROVE  /\ Routed(u) /\ Route(u) # <<Blank>> /\ Len(Route(u)) = 1
           /\ alias_of(u) # Blank
<1>1. /\ Missing.kind # "redirect" /\ Sources.kind # "redirect"
      /\ Redirect.kind = "redirect"
      /\ \A alias, node : SourcePage(alias, node).kind # "redirect"
  BY DEF Missing, Sources, Redirect, SourcePage
<1>2. handle_source_path(alias_of(u), normalized_path(u)).kind # "redirect"
  BY <1>1 DEF handle_source_path
<1>3. Page(u).kind = "redirect"
  BY <1>1
<1>4. Routed(u)
  <2>1. ~Routed(u) => Page(u) = Missing
    BY DEF Page
  <2>2. QED
    BY <1>1, <1>3, <2>1
<1>5. Route(u) # <<Blank>>
  <2>1. Route(u) = <<Blank>> => alias_of(u) = Blank
    BY DEF alias_of
  <2>2. Route(u) = <<Blank>> => Page(u) = Sources
    BY <1>4, <2>1 DEF Page
  <2>3. QED
    BY <1>1, <1>3, <2>2
<1>6. alias_of(u) # Blank
  <2>1. alias_of(u) = Blank => Page(u) = Missing
    BY <1>4, <1>5 DEF Page
  <2>2. QED
    BY <1>1, <1>3, <2>1
<1>7. Len(Route(u)) # 1 => Page(u) = handle_source_path(alias_of(u), normalized_path(u))
  BY <1>4, <1>5, <1>6 DEF Page
<1>8. QED
  BY <1>2, <1>3, <1>4, <1>5, <1>6, <1>7

\* An entry of the listing of a directory.
EntryOf(alias, node, e) ==
    /\ node \in Dirs[alias] /\ e \in Entry
    /\ Append(node, e.name) \in IF e.is_directory THEN Dirs[alias] ELSE Files[alias]

\* A link of such a page is for an entry or for the parent.
LEMMA SourceLink ==
    ASSUME NEW u, Page(u).kind = "source", NEW l \in Links(u)
    PROVE  LET alias == alias_of(u)
               path  == normalized_path(u)
               node  == Node(Requested(path))
           IN  \/ \E e : /\ EntryOf(alias, node, e)
                         /\ l = Link(entry_href(alias, path, e),
                                     SourcePage(alias, Append(node, e.name)))
               \/ /\ path # <<Blank>>
                  /\ l = Link(parent_href(alias, path), SourcePage(alias, Up(node)))
<1> DEFINE alias == alias_of(u)
           path  == normalized_path(u)
           node  == Node(Requested(path))
<1>1. alias \in Aliases /\ node \in Nodes(alias) /\ Page(u) = SourcePage(alias, node)
  BY SourcePageIs
<1>2. Page(u).alias = alias /\ Page(u).node = node
  BY <1>1 DEF SourcePage
<1>3. Links(u) = ListingLinks(Page(u), path)
  BY DEF Links
<1> HIDE DEF alias, path, node
<1>4. CASE \E e \in ToSet(Listed(Page(u))) :
              l = Link(entry_href(alias, path, e), SourcePage(alias, Append(node, e.name)))
  <2>1. PICK e \in ToSet(Listed(Page(u))) :
           l = Link(entry_href(alias, path, e), SourcePage(alias, Append(node, e.name)))
    BY <1>4
  <2>2. node \in Dirs[alias]
    <3> SUFFICES ASSUME node \notin Dirs[alias] PROVE FALSE
      OBVIOUS
    <3>1. Listed(Page(u)) = <<>>
      BY <1>2 DEF Listed
    <3>2. QED
      BY <2>1, <3>1 DEF ToSet
  <2>3. Listed(Page(u)) = sorted_entries(parse_index(Index[alias][node]))
    BY <1>2, <2>2 DEF Listed
  <2>4. EntryOf(alias, node, e)
    <3>1. e \in Entry
      <4>1. Listed(Page(u)) \in Seq(Entry)
        BY <1>1, <2>2, <2>3, DirectoryListed
      <4>2. QED
        BY <2>1, <4>1, LenProperties, ElementOfSeq DEF ToSet
    <3>2. Append(node, e.name) \in IF e.is_directory THEN Dirs[alias] ELSE Files[alias]
      BY <1>1, <2>1, <2>2, <2>3, DirectoryListed
    <3>3. QED
      BY <2>2, <3>1, <3>2 DEF EntryOf
  <2>5. QED
    BY <2>1, <2>4 DEF alias, path, node
<1>5. CASE /\ path # <<Blank>>
           /\ l = Link(parent_href(alias, path), SourcePage(alias, Up(node)))
  BY <1>5 DEF alias, path, node
<1>6. QED
  BY <1>2, <1>3, <1>4, <1>5 DEF ListingLinks

\* The parent of a node is a directory.
LEMMA UpIsDirectory ==
    ASSUME NEW alias \in Aliases, NEW node \in Nodes(alias)
    PROVE  Up(node) \in Dirs[alias]
BY UpstreamAssumption DEF Up, Nodes

-------------------------------------------------------------------------------
(* Types: where links lead is a path of known segments.                    *)

Part == ToSet(Prefix) \cup Aliases \cup Names \cup {Blank}

Targets ==
    {Sources} \cup UNION {{SourcePage(alias, node) : node \in Dirs[alias] \cup Files[alias]} :
                            alias \in Aliases}

TypeInv ==
    /\ url \in Seq(Part) /\ url # <<>>
    /\ target \in Targets
    /\ merges \in BOOLEAN

\* The sets of TypeOK are those of the sequences.
LEMMA TypeInvTypeOK ==
    ASSUME TypeInv
    PROVE  TypeOK
<1>1. \A i \in DOMAIN url : url[i] \in Part
  BY LenProperties, ElementOfSeq DEF TypeInv
<1>2. ToSet(url) \subseteq Part
  BY <1>1 DEF ToSet
<1>3. QED
  BY <1>2 DEF TypeOK, TypeInv, Part, Targets

\* The prefix is a path.
LEMMA PrefixType == Prefix \in Seq(Part)
<1>1. Len(Prefix) \in Nat /\ DOMAIN Prefix = 1..Len(Prefix) /\ Prefix \in [1..Len(Prefix) -> STRING]
  BY NavigationAssumption, LenProperties
<1>2. \A i \in 1..Len(Prefix) : Prefix[i] \in Part
  BY <1>1 DEF Part, ToSet
<1>3. Prefix \in [1..Len(Prefix) -> Part]
  BY <1>1, <1>2
<1>4. QED
  BY <1>1, <1>3, FunIsSeq

\* Parts of paths are paths.
LEMMA SubSeqType ==
    ASSUME NEW S, NEW s \in Seq(S), NEW m \in Nat \ {0}, NEW n \in 0..Len(s)
    PROVE  SubSeq(s, m, n) \in Seq(S) /\ (m <= n => SubSeq(s, m, n) # <<>>)
<1>1. \A i \in m..n : s[i] \in S
  <2> SUFFICES ASSUME NEW i \in m..n PROVE s[i] \in S
    OBVIOUS
  <2>1. i \in 1..Len(s)
    BY LenProperties
  <2>2. QED
    BY <2>1, ElementOfSeq
<1>2. m \in Int /\ n \in Int
  BY LenProperties
<1>3. /\ SubSeq(s, m, n) \in Seq(S)
      /\ Len(SubSeq(s, m, n)) = IF m <= n THEN n - m + 1 ELSE 0
  BY <1>1, <1>2, SubSeqProperties
<1>4. m <= n => Len(SubSeq(s, m, n)) # 0
  BY <1>2, <1>3
<1>5. QED
  BY <1>3, <1>4, EmptySeq

LEMMA FrontType ==
    ASSUME NEW S, NEW s \in Seq(S), s # <<>>
    PROVE  Front(s) \in Seq(S) /\ Last(s) \in S
<1>1. Len(s) \in Nat \ {0}
  BY EmptySeq
<1>2. Front(s) \in Seq(S)
  BY <1>1, SubSeqType DEF Front
<1>3. QED
  BY <1>1, <1>2, ElementOfSeq DEF Last

\* Without its prefix a URL is a path of one segment or more.
LEMMA RouteType ==
    ASSUME NEW u \in Seq(Part), u # <<>>, Routed(u)
    PROVE  Route(u) \in Seq(Part) /\ Route(u) # <<>>
<1>1. CASE u = Prefix
  <2>1. Route(u) = <<Blank>> /\ Blank \in Part
    BY <1>1 DEF Route, Part
  <2>2. QED
    BY <2>1
<1>2. CASE u # Prefix
  <2>1. /\ Len(Prefix) \in Nat /\ Len(u) \in Nat /\ Len(Prefix) <= Len(u)
        /\ SubSeq(Prefix, 1, Len(Prefix)) = SubSeq(u, 1, Len(Prefix))
    BY PrefixType, LenProperties DEF Routed, IsPrefix
  <2>2. Len(Prefix) # Len(u)
    <3> SUFFICES ASSUME Len(Prefix) = Len(u) PROVE FALSE
      OBVIOUS
    <3>1. SubSeq(Prefix, 1, Len(Prefix)) = Prefix /\ SubSeq(u, 1, Len(u)) = u
      BY PrefixType, SubSeqFull
    <3>2. QED
      BY <1>2, <2>1, <3>1
  <2> DEFINE m == Len(Prefix) + 1
             n == Len(u)
  <2>3. m \in Nat \ {0} /\ n \in 0..Len(u) /\ m <= n
    BY <2>1, <2>2
  <2>4. Route(u) = SubSeq(u, m, n)
    BY <1>2 DEF Route
  <2> HIDE DEF m, n
  <2>5. QED
    BY <2>3, <2>4, SubSeqType
<1>3. QED
  BY <1>1, <1>2

LEMMA NormalizedType ==
    ASSUME NEW u \in Seq(Part), u # <<>>, Routed(u)
    PROVE  normalized_path(u) \in Seq(Part)
<1> DEFINE rest == Tail(Route(u))
<1>1. rest \in Seq(Part)
  BY RouteType, HeadTailProperties
<1> HIDE DEF rest
<1>2. CASE Len(rest) > 1
  <2>1. rest # <<>>
    BY <1>2, EmptySeq
  <2>2. Tail(rest) \in Seq(Part)
    BY <1>1, <2>1, HeadTailProperties
  <2>3. QED
    BY <1>1, <2>2 DEF normalized_path, rest
<1>3. CASE ~(Len(rest) > 1)
  BY <1>1, <1>3 DEF normalized_path, rest
<1>4. QED
  BY <1>2, <1>3

LEMMA ParentType ==
    ASSUME NEW path \in Seq(Part)
    PROVE  parent_path(path) \in Seq(Part)
<1> DEFINE Named == {0} \cup {i \in DOMAIN path : path[i] # Blank}
           end == TrimmedEnd(path)
<1>1. Named \in SUBSET (0..Len(path)) /\ Named # {} /\ Len(path) \in Nat
  BY LenProperties
<1>2. end \in 0..Len(path)
  <2> HIDE DEF Named
  <2>1. PICK m \in Named : \A k \in Named : k <= m
    BY <1>1, GreatestNumber
  <2>2. m \in Nat /\ \A k \in Named : m >= k /\ k \in Nat
    BY <1>1, <2>1
  <2>3. Max(Named) = m
    BY <2>2, MaxIs
  <2>4. QED
    BY <1>1, <2>3 DEF TrimmedEnd, Named
<1> HIDE DEF end
<1>3. CASE end <= 1
  <2>1. parent_path(path) = <<Blank>> /\ Blank \in Part
    BY <1>3 DEF parent_path, Part, end
  <2>2. QED
    BY <2>1
<1>4. CASE ~(end <= 1)
  <2>1. parent_path(path) = SubSeq(path, 1, end - 1)
    BY <1>4 DEF parent_path, end
  <2>2. end - 1 \in 0..Len(path)
    BY <1>1, <1>2, <1>4
  <2>3. QED
    BY <2>1, <2>2, SubSeqType
<1>5. QED
  BY <1>3, <1>4

LEMMA EntryType ==
    ASSUME NEW path \in Seq(Part), NEW alias \in Part, NEW e \in Entry
    PROVE  entry_href(alias, path, e) \in Seq(Part) /\ entry_href(alias, path, e) # <<>>
<1>1. e.name \in Part /\ Blank \in Part
  BY DEF Entry, Part
<1>2. QED
  BY <1>1 DEF entry_href

\* A link leads to a path, and stands for something that is served.
LEMMA LinkType ==
    ASSUME TypeInv, NEW l \in Links(url)
    PROVE  l.to \in Seq(Part) /\ l.to # <<>> /\ l.target \in Targets
<1> USE DEF TypeInv
<1>1. CASE Page(url).kind = "sources"
  <2>1. PICK alias \in Aliases :
           l = Link(Front(url) \o <<alias, Blank>>, SourcePage(alias, <<>>))
    BY <1>1 DEF Links, RootLinks
  <2>2. Front(url) \in Seq(Part) /\ alias \in Part /\ Blank \in Part
    BY FrontType DEF Part
  <2>3. Front(url) \o <<alias, Blank>> \in Seq(Part) /\ Front(url) \o <<alias, Blank>> # <<>>
    BY <2>2
  <2>4. <<>> \in Dirs[alias]
    BY UpstreamAssumption
  <2>5. SourcePage(alias, <<>>) \in Targets
    BY <2>4 DEF Targets
  <2>6. QED
    BY <2>1, <2>3, <2>5 DEF Link
<1>2. CASE Page(url).kind = "source"
  <2> DEFINE alias == alias_of(url)
             path  == normalized_path(url)
             node  == Node(Requested(path))
  <2>1. Routed(url) /\ alias \in Aliases /\ node \in Nodes(alias)
    BY <1>2, SourcePageIs
  <2>2. path \in Seq(Part) /\ alias \in Part
    BY <2>1, NormalizedType DEF Part
  <2>3. \/ \E e : /\ EntryOf(alias, node, e)
                  /\ l = Link(entry_href(alias, path, e),
                              SourcePage(alias, Append(node, e.name)))
        \/ l = Link(parent_href(alias, path), SourcePage(alias, Up(node)))
    BY <1>2, SourceLink
  <2> HIDE DEF alias, path, node
  <2>4. ASSUME NEW e, EntryOf(alias, node, e),
               l = Link(entry_href(alias, path, e), SourcePage(alias, Append(node, e.name)))
        PROVE  l.to \in Seq(Part) /\ l.to # <<>> /\ l.target \in Targets
    <3>1. Append(node, e.name) \in Dirs[alias] \cup Files[alias] /\ e \in Entry
      BY <2>4 DEF EntryOf
    <3>2. SourcePage(alias, Append(node, e.name)) \in Targets
      BY <2>1, <3>1 DEF Targets
    <3>3. QED
      BY <2>2, <2>4, <3>1, <3>2, EntryType DEF Link
  <2>5. ASSUME l = Link(parent_href(alias, path), SourcePage(alias, Up(node)))
        PROVE  l.to \in Seq(Part) /\ l.to # <<>> /\ l.target \in Targets
    <3>1. parent_href(alias, path) \in Seq(Part) /\ parent_href(alias, path) # <<>>
      <4>1. parent_path(path) \in Seq(Part)
        BY <2>2, ParentType
      <4>2. QED
        BY <2>2, <4>1 DEF parent_href
    <3>2. SourcePage(alias, Up(node)) \in Targets
      BY <2>1, UpIsDirectory DEF Targets
    <3>3. QED
      BY <2>5, <3>1, <3>2 DEF Link
  <2>6. QED
    BY <2>3, <2>4, <2>5
<1>3. QED
  BY <1>1, <1>2 DEF Links

\* An address: the exporter's, a source's, or a file's or directory's.
LEMMA AddressIs ==
    ASSUME NEW l \in Addresses
    PROVE  \/ l = Link(IF Prefix = <<>> THEN <<Blank>> ELSE Prefix, Sources)
           \/ \E alias \in Aliases :
                 l = Link(Prefix \o <<alias, Blank>>, SourcePage(alias, <<>>))
           \/ \E alias \in Aliases : \E node \in Nodes(alias) :
                 l = Link(Prefix \o <<alias>> \o node, SourcePage(alias, node))
<1>1. \/ l = Link(IF Prefix = <<>> THEN <<Blank>> ELSE Prefix, Sources)
      \/ \E alias \in Aliases : l \in AddressesOf(alias)
  BY DEF Addresses
<1>2. ASSUME NEW alias \in Aliases, l \in AddressesOf(alias)
      PROVE  \/ l = Link(Prefix \o <<alias, Blank>>, SourcePage(alias, <<>>))
             \/ \E node \in Nodes(alias) :
                   l = Link(Prefix \o <<alias>> \o node, SourcePage(alias, node))
  BY <1>2 DEF AddressesOf, Nodes
<1>3. QED
  BY <1>1, <1>2

\* It is a path to something that is served.
LEMMA AddressType ==
    ASSUME NEW l \in Addresses
    PROVE  l.to \in Seq(Part) /\ l.to # <<>> /\ l.target \in Targets
<1>1. Prefix \in Seq(Part) /\ Blank \in Part
  BY PrefixType DEF Part
<1>2. CASE l = Link(IF Prefix = <<>> THEN <<Blank>> ELSE Prefix, Sources)
  BY <1>1, <1>2 DEF Link, Targets
<1>3. ASSUME NEW alias \in Aliases,
             l = Link(Prefix \o <<alias, Blank>>, SourcePage(alias, <<>>))
      PROVE  l.to \in Seq(Part) /\ l.to # <<>> /\ l.target \in Targets
  <2>1. alias \in Part /\ <<>> \in Dirs[alias]
    BY UpstreamAssumption DEF Part
  <2>2. SourcePage(alias, <<>>) \in Targets
    BY <2>1 DEF Targets
  <2>3. Prefix \o <<alias, Blank>> \in Seq(Part) /\ Prefix \o <<alias, Blank>> # <<>>
    BY <1>1, <2>1
  <2>4. QED
    BY <1>3, <2>2, <2>3 DEF Link
<1>4. ASSUME NEW alias \in Aliases, NEW node \in Nodes(alias),
             l = Link(Prefix \o <<alias>> \o node, SourcePage(alias, node))
      PROVE  l.to \in Seq(Part) /\ l.to # <<>> /\ l.target \in Targets
  <2>1. alias \in Part /\ node \in Seq(Names)
    BY UpstreamAssumption DEF Part, Nodes
  <2>2. node \in Seq(Part)
    BY <2>1, SeqMonotonic DEF Part
  <2>3. SourcePage(alias, node) \in Targets
    BY DEF Targets, Nodes
  <2>4. Prefix \o <<alias>> \o node \in Seq(Part) /\ Prefix \o <<alias>> \o node # <<>>
    BY <1>1, <2>1, <2>2
  <2>5. QED
    BY <1>4, <2>3, <2>4 DEF Link
<1>5. QED
  BY <1>2, <1>3, <1>4, AddressIs

LEMMA TypeInit == Init => TypeInv
BY AddressType DEF Init, At, TypeInv

LEMMA TypeStep == TypeInv /\ [Next]_vars => TypeInv'
<1> SUFFICES ASSUME TypeInv, [Next]_vars PROVE TypeInv'
  OBVIOUS
<1>1. CASE FollowRedirect
  <2>1. Front(url) \in Seq(Part) /\ Last(url) \in Part /\ Blank \in Part
    BY FrontType DEF TypeInv, Part
  <2>2. url' \in Seq(Part) /\ url' # <<>>
    BY <1>1, <2>1 DEF FollowRedirect
  <2>3. QED
    BY <1>1, <2>2 DEF FollowRedirect, TypeInv
<1>2. CASE FollowLink
  <2>1. PICK l \in Links(url) : url' = l.to /\ target' = l.target /\ merges' = merges
    BY <1>2 DEF FollowLink
  <2>2. QED
    BY <2>1, LinkType DEF TypeInv
<1>3. CASE UNCHANGED vars
  BY <1>3 DEF TypeInv, vars
<1>4. QED
  BY <1>1, <1>2, <1>3 DEF Next

\* Wherever browsing leads, with a prefix or without one and whatever the
\* upstream's tree, the URL is a path of known segments and was linked as
\* something that the exporter serves.
THEOREM TypeCorrect == Spec => []TypeOK
<1>1. TypeInv => TypeOK
  BY TypeInvTypeOK
<1>2. QED
  BY TypeInit, TypeStep, <1>1, PTL DEF Spec

-------------------------------------------------------------------------------
(* Listings.                                                               *)

\* For every tree and index page, a directory's listing names children of it
\* only, none twice, the directories before the files and each kind in the order
\* of its names, and all of them when each has a line of its own (parse_index
\* and the sort of render_directory_listing).
THEOREM ListingsInOrder == Spec => []ListingInOrder
<1>1. ASSUME NEW u, Page(u).kind = "source", Page(u).node \in Dirs[Page(u).alias]
      PROVE  LET page     == Page(u)
                 listed   == Listed(page)
                 nodes    == {Append(page.node, e.name) : e \in ToSet(listed)}
                 children == Children(page.alias, page.node)
             IN  /\ InOrder(listed)
                 /\ nodes \subseteq children
                 /\ OnePerLine(Index[page.alias][page.node]) => nodes = children
  <2> DEFINE alias  == Page(u).alias
             node   == Page(u).node
             listed == Listed(Page(u))
  <2>1. alias \in Aliases
    BY <1>1, SourcePageIs DEF SourcePage
  <2>2. listed = sorted_entries(parse_index(Index[alias][node]))
    BY <1>1 DEF Listed
  <2> HIDE DEF listed
  <2>3. /\ InOrder(listed)
        /\ \A e \in ToSet(listed) : Append(node, e.name) \in Children(alias, node)
        /\ OnePerLine(Index[alias][node]) =>
              \A n \in Children(alias, node) :
                 \E e \in ToSet(listed) : n = Append(node, e.name)
    BY <1>1, <2>1, <2>2, DirectoryListed
  <2> HIDE DEF alias, node
  <2>4. /\ InOrder(listed)
        /\ {Append(node, e.name) : e \in ToSet(listed)} \subseteq Children(alias, node)
        /\ OnePerLine(Index[alias][node]) =>
              {Append(node, e.name) : e \in ToSet(listed)} = Children(alias, node)
    BY <2>3
  <2>5. QED
    BY <2>4 DEF alias, node, listed
<1>2. ListingInOrder
  BY <1>1 DEF ListingInOrder
<1>3. QED
  BY <1>2, PTL

-------------------------------------------------------------------------------
(* Browsing without a prefix.                                              *)

\* Then a URL is its own route.
LEMMA NoPrefix ==
    ASSUME Prefix = <<>>, NEW u \in Seq(Part), u # <<>>
    PROVE  Routed(u) /\ Route(u) = u
<1>1. Len(Prefix) = 0 /\ Len(u) \in Nat
  BY EmptySeq, LenProperties
<1>2. SubSeq(Prefix, 1, 0) = <<>> /\ SubSeq(u, 1, 0) = <<>>
  BY SubSeqEmpty
<1>3. IsPrefix(Prefix, u)
  BY <1>1, <1>2 DEF IsPrefix
<1>4. SubSeq(u, 0 + 1, Len(u)) = u
  BY SubSeqFull
<1>5. QED
  BY <1>1, <1>3, <1>4 DEF Routed, Route

\* An alias and a path.
LEMMA AliasAndPath ==
    ASSUME NEW a \in Part, NEW p \in Seq(Part)
    PROVE  LET u == <<a>> \o p
           IN  u \in Seq(Part) /\ u # <<>> /\ Head(u) = a /\ Tail(u) = p
OBVIOUS

LEMMA HeadAndTail ==
    ASSUME NEW u \in Seq(Part), u # <<>>
    PROVE  /\ u = <<Head(u)>> \o Tail(u) /\ Tail(u) \in Seq(Part) /\ Head(u) \in Part
           /\ Len(u) = Len(Tail(u)) + 1
OBVIOUS

LEMMA AtMostOne == \A n : n = 0 \/ n = 1 => ~(n > 1)
OBVIOUS

\* What the exporter takes for the alias and the path of a URL one browses to.
LEMMA BrowsedRoute ==
    ASSUME Prefix = <<>>, NEW u \in Seq(Part), u # <<>>,
           NEW alias \in Aliases, Head(u) = alias,
           NEW node, LeadsTo(alias, Tail(u), node)
    PROVE  /\ Routed(u) /\ Route(u) = u /\ u # <<Blank>>
           /\ alias_of(u) = alias /\ alias # Blank
           /\ normalized_path(u) = Tail(u)
<1>1. Routed(u) /\ Route(u) = u
  BY NoPrefix
<1>2. alias # Blank /\ alias_of(u) = alias
  BY <1>1, NavigationAssumption DEF alias_of
<1>3. u # <<Blank>>
  BY <1>2
<1> DEFINE rest == Tail(u)
<1>4. rest \in Seq(Part) /\ Len(rest) \in Nat
  BY HeadAndTail, LenProperties
<1>5. CASE Tidy(rest)
  <2>1. rest # <<>> /\ rest[1] # Blank
    BY <1>5 DEF Tidy
  <2>2. Head(rest) = rest[1]
    BY <1>4, <2>1
  <2>3. QED
    BY <1>1, <1>2, <1>3, <2>1, <2>2 DEF normalized_path
<1>6. CASE rest = <<>> \/ rest = <<Blank>>
  <2>1. Len(rest) = 0 \/ Len(rest) = 1
    <3>1. Len(<<>>) = 0 /\ Len(<<Blank>>) = 1
      OBVIOUS
    <3>2. QED
      BY <1>6, <3>1, Zenon
  <2>2. ~(Len(rest) > 1)
    BY <2>1, AtMostOne, Zenon
  <2>3. QED
    BY <1>1, <1>2, <1>3, <2>2 DEF normalized_path
<1>7. QED
  BY <1>5, <1>6 DEF LeadsTo

\* The root's path and node.
LEMMA RootNode == Node(<<>>) = <<>> /\ Node(<<Blank>>) = <<>>
<1>1. Node(<<>>) = <<>>
  BY WithoutEmpty DEF Node
<1>2. <<>> \in Seq(Segment) /\ Blank \in Segment
  BY EmptySeq DEF Segment
<1>3. Append(<<>>, Blank) = <<Blank>>
  OBVIOUS
<1>4. QED
  BY <1>1, <1>2, <1>3, NodeAppend

\* One up from what the upstream is asked for is the path above, when the only
\* lossy name is the last.
LEMMA UpBeside ==
    ASSUME NEW path, NEW q, NEW x, Above(path, q, x), ToSet(q) \cap Lossy = {}
    PROVE  Up(Node(Requested(path))) = Node(q)
<1>1. PICK y \in Names : Node(Requested(path)) = Append(Node(q), y)
  BY RequestedBeside
<1>2. Node(q) \in Seq(Names)
  BY NodeType DEF Above
<1>3. Append(Node(q), y) # <<>> /\ Front(Append(Node(q), y)) = Node(q)
  BY <1>2, AppendProperties, FrontAppend
<1>4. QED
  BY <1>1, <1>3 DEF Up

\* The segments of a part of a path are its own.
LEMMA AboveLossy ==
    ASSUME NEW path, NEW q, NEW x, Above(path, q, x), ToSet(path) \cap Lossy = {}
    PROVE  ToSet(q) \cap Lossy = {}
<1>1. /\ path \in Seq(Segment) /\ Len(q) \in Nat
      /\ Len(path) \in {Len(q) + 1, Len(q) + 2}
      /\ \A i \in 1..Len(q) : path[i] = q[i]
  BY AboveSegments
<1>2. DOMAIN q = 1..Len(q) /\ DOMAIN path = 1..Len(path)
  BY <1>1, LenProperties DEF Above
<1>3. \A i \in DOMAIN q : i \in DOMAIN path /\ path[i] = q[i]
  <2> SUFFICES ASSUME NEW i \in 1..Len(q)
               PROVE  i \in 1..Len(path) /\ path[i] = q[i]
    BY <1>2
  <2>1. Len(q) <= Len(path) /\ Len(path) \in Nat
    BY <1>1
  <2>2. QED
    BY <1>1, <2>1
<1>4. QED
  BY <1>3 DEF ToSet

\* A path one browses to.
Browsed(path) ==
    \/ path = <<Blank>>
    \/ path \in Seq(Segment) /\ Tidy(path)

\* A path without a name of a lossy kind is asked for as it is.
LEMMA BlankRequested == Requested(<<Blank>>) = <<Blank>>
<1>1. DOMAIN <<Blank>> = {1} /\ <<Blank>>[1] = Blank
  OBVIOUS
<1>2. ToSet(<<Blank>>) \cap Lossy = {}
  BY <1>1, NavigationAssumption DEF ToSet
<1>3. <<Blank>> \in Seq(Segment)
  BY DEF Segment
<1>4. QED
  BY <1>2, <1>3, RequestedPlain

-------------------------------------------------------------------------------
(* Redirects, with a prefix or without one.                                *)

\* What the exporter answers at an alias with its slash.
LEMMA AliasPage ==
    ASSUME NEW u, NEW alias \in Part, alias # Blank,
           Routed(u), Route(u) = <<alias, Blank>>
    PROVE  Page(u) = IF alias \in Aliases THEN SourcePage(alias, <<>>) ELSE Missing
<1>1. alias_of(u) = alias /\ Len(Route(u)) = 2 /\ Route(u) # <<Blank>>
  BY DEF alias_of
<1>2. normalized_path(u) = <<Blank>>
  <2>1. Tail(Route(u)) = <<Blank>> /\ Len(<<Blank>>) = 1
    OBVIOUS
  <2>2. QED
    BY <2>1, AtMostOne, Zenon DEF normalized_path
<1>3. Page(u) = handle_source_path(alias, <<Blank>>)
  BY <1>1, <1>2 DEF Page
<1>4. Requested(<<Blank>>) = <<Blank>> /\ Node(<<Blank>>) = <<>>
  BY BlankRequested, RootNode
<1>5. alias \in Aliases => Has(alias, <<Blank>>)
  <2>1. ~DoubleSlash(<<Blank>>)
    BY DEF DoubleSlash
  <2>2. alias \in Aliases => <<>> \in Dirs[alias]
    BY UpstreamAssumption
  <2>3. QED
    BY <1>4, <2>1, <2>2, Zenon DEF Has
<1>6. QED
  BY <1>3, <1>4, <1>5, Zenon DEF handle_source_path

\* The Location of a redirect is the alias with its slash, behind the prefix.
LEMMA RedirectRoute ==
    ASSUME NEW u \in Seq(Part), u # <<>>, Page(u) = Redirect
    PROVE  LET to == Front(u) \o <<Last(u), Blank>>
           IN  /\ IsPrefix(Prefix, to) /\ Routed(to)
               /\ Route(to) = <<alias_of(u), Blank>>
               /\ alias_of(u) \in Part /\ alias_of(u) # Blank
<1> DEFINE p  == Len(Prefix)
           to == Front(u) \o <<Last(u), Blank>>
<1>1. /\ Routed(u) /\ Route(u) # <<Blank>> /\ Len(Route(u)) = 1
      /\ alias_of(u) # Blank
  BY RedirectIs
<1>2. u # Prefix /\ Route(u) = SubSeq(u, p + 1, Len(u))
  BY <1>1, Zenon DEF Route
<1>3. /\ p \in Nat /\ Len(u) \in Nat /\ p <= Len(u)
      /\ SubSeq(u, 1, p) = Prefix
  BY <1>1, PrefixType, LenProperties, SubSeqFull DEF Routed, IsPrefix
<1> HIDE DEF p, to
<1>4. \A i \in 1..Len(u) : u[i] \in Part
  BY ElementOfSeq
<1>5. Len(u) = p + 1 /\ alias_of(u) = u[p + 1] /\ u[p + 1] \in Part
  <2>1. \A i \in p + 1..Len(u) : u[i] \in Part
    BY <1>3, <1>4
  <2>2. /\ Route(u) \in Seq(Part)
        /\ Len(Route(u)) = IF p + 1 <= Len(u) THEN Len(u) - (p + 1) + 1 ELSE 0
        /\ \A i \in 1..(Len(u) - (p + 1) + 1) : Route(u)[i] = u[(p + 1) + i - 1]
    BY <1>2, <1>3, <2>1, SubSeqProperties
  <2>3. Len(u) = p + 1
    <3>1. ASSUME NEW n \in Nat, 1 = IF p + 1 <= n THEN n - (p + 1) + 1 ELSE 0
          PROVE  n = p + 1
      BY <1>3, <3>1
    <3>2. QED
      BY <1>1, <1>3, <2>2, <3>1, Zenon
  <2>4. Route(u)[1] = u[p + 1]
    BY <1>3, <2>2, <2>3
  <2>5. Head(Route(u)) = Route(u)[1]
    BY <1>1, <2>2
  <2>6. p + 1 \in 1..Len(u)
    BY <1>3, <2>3
  <2>7. QED
    BY <1>4, <2>3, <2>4, <2>5, <2>6 DEF alias_of
<1>6. Front(u) = Prefix /\ Last(u) = alias_of(u)
  <2>1. Len(u) - 1 = p
    BY <1>3, <1>5
  <2>2. QED
    BY <1>3, <1>5, <2>1 DEF Front, Last
<1>7. to = Prefix \o <<alias_of(u), Blank>>
  BY <1>6 DEF to
<1> DEFINE end == <<alias_of(u), Blank>>
<1>8. end \in Seq(Part) /\ Len(end) = 2
  BY <1>5 DEF Part
<1>9. /\ to \in Seq(Part) /\ Len(to) = p + 2
      /\ \A i \in 1..p : to[i] = Prefix[i]
      /\ to[p + 1] = alias_of(u) /\ to[p + 2] = Blank
  <2>1. end[1] = alias_of(u) /\ end[2] = Blank
    OBVIOUS
  <2> HIDE DEF end
  <2>2. QED
    BY <1>3, <1>7, <1>8, <2>1, PrefixType, ConcatProperties DEF p, end
<1>10. SubSeq(to, 1, p) = Prefix
  BY <1>3, <1>9, PrefixType, SubSeqIs DEF p
<1>11. IsPrefix(Prefix, to)
  BY <1>3, <1>9, <1>10, PrefixType, SubSeqFull DEF IsPrefix, p
<1>12. to # Prefix /\ to # Append(Prefix, Blank)
  <2>1. Len(Append(Prefix, Blank)) = p + 1
    BY PrefixType, AppendProperties DEF p, Part
  <2>2. QED
    BY <1>3, <1>9, <2>1 DEF p
<1>13. Route(to) = end
  <2>1. \A i \in p + 1..p + 2 : to[i] \in Part
    BY <1>3, <1>9, ElementOfSeq
  <2>2. Route(to) = SubSeq(to, p + 1, p + 2)
    BY <1>9, <1>12 DEF Route, p
  <2>3. /\ Route(to) \in Seq(Part) /\ Len(Route(to)) = 2
        /\ Route(to)[1] = to[p + 1] /\ Route(to)[2] = to[p + 2]
    BY <1>3, <2>1, <2>2, SubSeqProperties
  <2>4. QED
    BY <1>9, <2>3
<1>14. QED
  BY <1>1, <1>5, <1>11, <1>12, <1>13 DEF Routed, to

\* For any prefix and any upstream, a redirect (handle_source_root_redirect)
\* stays below the prefix and leads to the root of its alias's source at once.
THEOREM RedirectsLead == Spec => RedirectsStay
<1>1. TypeInv /\ [Next]_vars =>
        [FollowRedirect =>
           /\ IsPrefix(Prefix, url')
           /\ Page(url)' = IF alias_of(url) \in Aliases
                             THEN SourcePage(alias_of(url), <<>>)
                             ELSE Missing]_vars
  <2> SUFFICES ASSUME TypeInv, FollowRedirect
               PROVE  /\ IsPrefix(Prefix, url')
                      /\ Page(url)' = IF alias_of(url) \in Aliases
                                        THEN SourcePage(alias_of(url), <<>>)
                                        ELSE Missing
    OBVIOUS
  <2>1. url \in Seq(Part) /\ url # <<>> /\ Page(url) = Redirect
    BY DEF TypeInv, FollowRedirect
  <2>2. url' = Front(url) \o <<Last(url), Blank>> /\ merges' = merges
    BY DEF FollowRedirect
  <2>3. /\ IsPrefix(Prefix, url') /\ Routed(url')
        /\ Route(url') = <<alias_of(url), Blank>>
        /\ alias_of(url) \in Part /\ alias_of(url) # Blank
    BY <2>1, <2>2, RedirectRoute
  <2>4. Page(url') = IF alias_of(url) \in Aliases
                       THEN SourcePage(alias_of(url), <<>>)
                       ELSE Missing
    BY <2>3, AliasPage
  <2>5. Page(url)' = Page(url')
    BY <2>2 DEF Page, Routed, Route, alias_of, normalized_path,
                handle_source_path, Has, Requested, Node, DoubleSlash
  <2>6. QED
    BY <2>3, <2>4, <2>5
<1>2. QED
  BY TypeInit, TypeStep, <1>1, PTL DEF Spec, RedirectsStay

-------------------------------------------------------------------------------
(* Browsing without a prefix, continued: links.                            *)

\* The href of an entry is the alias and a path, once it is put together.
LEMMA Joined ==
    ASSUME NEW a \in Part, NEW p \in Seq(Part), NEW n \in Part, NEW b \in Part
    PROVE  /\ <<a>> \o p \o <<n>> \o <<>> = <<a>> \o Append(p, n)
           /\ <<a>> \o p \o <<n>> \o <<b>> = <<a>> \o Append(Append(p, n), b)
<1>1. p \o <<n>> = Append(p, n) /\ Append(p, n) \in Seq(Part)
  BY AppendIsConcat
<1>2. Append(p, n) \o <<b>> = Append(Append(p, n), b)
  BY <1>1, AppendIsConcat
<1>3. <<a>> \in Seq(Part) /\ <<n>> \in Seq(Part) /\ <<b>> \in Seq(Part)
  OBVIOUS
<1>4. (<<a>> \o p) \o <<n>> = <<a>> \o (p \o <<n>>)
  BY <1>3, ConcatAssociative
<1>5. (<<a>> \o Append(p, n)) \o <<b>> = <<a>> \o (Append(p, n) \o <<b>>)
  BY <1>1, <1>3, ConcatAssociative
<1>6. <<a>> \o Append(p, n) \in Seq(Part)
  BY <1>1, <1>3, ConcatProperties
<1>7. (<<a>> \o Append(p, n)) \o <<>> = <<a>> \o Append(p, n)
  BY <1>6, ConcatEmptySeq
<1>8. QED
  BY <1>1, <1>2, <1>4, <1>5, <1>7, Zenon

LEMMA TwoParts ==
    ASSUME NEW a \in Part, NEW n \in Part
    PROVE  <<a>> \o <<n>> = <<a, n>>
<1>1. <<a>> \in Seq(Part)
  OBVIOUS
<1>2. <<a>> \o <<n>> = Append(<<a>>, n)
  BY <1>1, AppendIsConcat
<1>3. Append(<<a>>, n) = <<a, n>>
  <2>1. Append(<<a>>, n) \in Seq(Part) /\ <<a, n>> \in Seq(Part)
    BY <1>1, AppendProperties
  <2>2. Len(Append(<<a>>, n)) = 2 /\ Len(<<a, n>>) = 2
    BY <1>1, AppendProperties
  <2>3. Append(<<a>>, n)[1] = a /\ Append(<<a>>, n)[2] = n
    BY <1>1, AppendProperties
  <2>4. <<a, n>>[1] = a /\ <<a, n>>[2] = n
    OBVIOUS
  <2>5. \A i \in 1..2 : Append(<<a>>, n)[i] = <<a, n>>[i]
    BY <2>3, <2>4
  <2>6. QED
    BY <2>1, <2>2, <2>5, SeqEqual
<1>4. QED
  BY <1>2, <1>3, Zenon

\* So is one from the root's page.
LEMMA JoinedAtRoot ==
    ASSUME NEW a \in Part, NEW n \in Part, NEW b \in Part
    PROVE  /\ <<a, n>> \o <<>> = <<a>> \o Append(<<>>, n)
           /\ <<a, n>> \o <<b>> = <<a>> \o Append(Append(<<>>, n), b)
<1>1. <<a>> \in Seq(Part) /\ <<>> \in Seq(Part)
  BY EmptySeq
<1>2. <<a>> \o <<>> = <<a>>
  BY <1>1, ConcatEmptySeq
<1>3. <<a>> \o <<n>> = <<a, n>>
  BY TwoParts
<1>4. /\ <<a>> \o <<>> \o <<n>> \o <<>> = <<a>> \o Append(<<>>, n)
      /\ <<a>> \o <<>> \o <<n>> \o <<b>> = <<a>> \o Append(Append(<<>>, n), b)
  BY <1>1, Joined
<1>5. QED
  BY <1>2, <1>3, <1>4, Zenon

\* The two forms of an entry's href, and its segments.
LEMMA HrefJoined ==
    \A a, n \in Part :
       /\ <<a, n>> \o <<>> = <<a>> \o Append(<<>>, n)
       /\ <<a, n>> \o <<Blank>> = <<a>> \o Append(Append(<<>>, n), Blank)
       /\ \A p \in Seq(Part) :
             /\ <<a>> \o p \o <<n>> \o <<>> = <<a>> \o Append(p, n)
             /\ <<a>> \o p \o <<n>> \o <<Blank>> = <<a>> \o Append(Append(p, n), Blank)
<1> SUFFICES ASSUME NEW a \in Part, NEW n \in Part
             PROVE  /\ <<a, n>> \o <<>> = <<a>> \o Append(<<>>, n)
                    /\ <<a, n>> \o <<Blank>> = <<a>> \o Append(Append(<<>>, n), Blank)
                    /\ \A p \in Seq(Part) :
                          /\ <<a>> \o p \o <<n>> \o <<>> = <<a>> \o Append(p, n)
                          /\ <<a>> \o p \o <<n>> \o <<Blank>>
                                = <<a>> \o Append(Append(p, n), Blank)
  OBVIOUS
<1>1. PICK b \in Part : b = Blank
  BY DEF Part
<1>2. /\ <<a, n>> \o <<>> = <<a>> \o Append(<<>>, n)
      /\ <<a, n>> \o <<b>> = <<a>> \o Append(Append(<<>>, n), b)
  BY JoinedAtRoot, Zenon
<1>3. ASSUME NEW p \in Seq(Part)
      PROVE  /\ <<a>> \o p \o <<n>> \o <<>> = <<a>> \o Append(p, n)
             /\ <<a>> \o p \o <<n>> \o <<b>> = <<a>> \o Append(Append(p, n), b)
  BY Joined, Zenon
<1>4. QED
  BY <1>1, <1>2, <1>3, Zenon

\* The link of an entry leads to the entry.
LEMMA EntryStep ==
    ASSUME NEW alias \in Aliases, NEW path, Browsed(path), NEW e,
           EntryOf(alias, Node(Requested(path)), e)
    PROVE  LET to == entry_href(alias, path, e)
           IN  /\ to # <<>> /\ Head(to) = alias
               /\ LeadsTo(alias, Tail(to), Append(Node(Requested(path)), e.name))
<1> DEFINE node == Node(Requested(path))
           child == Append(node, e.name)
           q == IF path = <<Blank>> THEN <<>> ELSE path
           r == Append(q, e.name)
           t == IF e.is_directory THEN Append(r, Blank) ELSE r
<1>1. q \in Seq(Segment) /\ (q = <<>> \/ Tidy(q))
  BY EmptySeq DEF Browsed
<1>2. e.name \in Names /\ e.is_directory \in BOOLEAN
  BY DEF EntryOf, Entry
<1>3. e.name \in Segment /\ e.name # Blank /\ Blank \in Segment
  BY <1>2, NavigationAssumption DEF Segment
<1>4. entry_href(alias, path, e) = <<alias>> \o t
  <2>1. alias \in Part /\ q \in Seq(Part) /\ e.name \in Part /\ Blank \in Part
    BY <1>1, <1>2, SeqMonotonic DEF Part, Segment
  <2>2. CASE path = <<Blank>>
    <3>1. entry_href(alias, path, e) =
             <<alias, e.name>> \o (IF e.is_directory THEN <<Blank>> ELSE <<>>)
      BY <2>2 DEF entry_href
    <3>2. q = <<>>
      BY <2>2
    <3> HIDE DEF q
    <3>3. /\ <<alias, e.name>> \o <<>> = <<alias>> \o Append(<<>>, e.name)
          /\ <<alias, e.name>> \o <<Blank>> = <<alias>> \o Append(Append(<<>>, e.name), Blank)
      BY <2>1, HrefJoined, Zenon
    <3>4. CASE e.is_directory
      <4>1. t = Append(Append(q, e.name), Blank)
        BY <3>4
      <4>2. (IF e.is_directory THEN <<Blank>> ELSE <<>>) = <<Blank>>
        BY <3>4
      <4> HIDE DEF t
      <4>3. QED
        BY <3>1, <3>2, <3>3, <4>1, <4>2, Zenon
    <3>5. CASE ~e.is_directory
      <4>1. t = Append(q, e.name)
        BY <3>5
      <4>2. (IF e.is_directory THEN <<Blank>> ELSE <<>>) = <<>>
        BY <3>5
      <4> HIDE DEF t
      <4>3. QED
        BY <3>1, <3>2, <3>3, <4>1, <4>2, Zenon
    <3>6. QED
      BY <1>2, <3>4, <3>5
  <2>3. CASE path # <<Blank>>
    <3>1. entry_href(alias, path, e) =
             <<alias>> \o path \o <<e.name>> \o (IF e.is_directory THEN <<Blank>> ELSE <<>>)
      BY <2>3 DEF entry_href
    <3>2. q = path
      BY <2>3
    <3> HIDE DEF q
    <3>3. /\ <<alias>> \o q \o <<e.name>> \o <<>> = <<alias>> \o Append(q, e.name)
          /\ <<alias>> \o q \o <<e.name>> \o <<Blank>>
                = <<alias>> \o Append(Append(q, e.name), Blank)
      BY <2>1, HrefJoined, Zenon
    <3>4. CASE e.is_directory
      <4>1. t = Append(Append(q, e.name), Blank)
        BY <3>4
      <4>2. (IF e.is_directory THEN <<Blank>> ELSE <<>>) = <<Blank>>
        BY <3>4
      <4> HIDE DEF t
      <4>3. QED
        BY <3>1, <3>2, <3>3, <4>1, <4>2, Zenon
    <3>5. CASE ~e.is_directory
      <4>1. t = Append(q, e.name)
        BY <3>5
      <4>2. (IF e.is_directory THEN <<Blank>> ELSE <<>>) = <<>>
        BY <3>5
      <4> HIDE DEF t
      <4>3. QED
        BY <3>1, <3>2, <3>3, <4>1, <4>2, Zenon
    <3>6. QED
      BY <1>2, <3>4, <3>5
  <2>4. QED
    BY <2>2, <2>3
<1>5. Above(t, q, e.name)
  BY <1>1, <1>2 DEF Above
<1>6. r \in Seq(Segment) /\ Last(r) = e.name /\ Tidy(r) /\ r # <<>>
  <2>1. r \in Seq(Segment) /\ r # <<>>
    BY <1>1, <1>3, AppendProperties
  <2>2. Last(r) = e.name
    BY <1>1, <1>3, FrontAppend
  <2>3. Tidy(r)
    BY <1>1, <1>3, TidyAppend
  <2>4. QED
    BY <2>1, <2>2, <2>3
<1>7. t \in Seq(Segment) /\ Tidy(t)
  <2>1. Append(r, Blank) \in Seq(Segment)
    BY <1>3, <1>6, AppendProperties
  <2>2. Tidy(Append(r, Blank))
    BY <1>3, <1>6, TidyAppend
  <2>3. QED
    BY <1>6, <2>1, <2>2
<1>8. /\ child \in Nodes(alias)
      /\ child \in Files[alias] => Last(t) # Blank
  <2>1. child \in IF e.is_directory THEN Dirs[alias] ELSE Files[alias]
    BY DEF EntryOf
  <2>2. CASE e.is_directory
    <3>1. child \in Dirs[alias]
      BY <2>1, <2>2
    <3>2. child \notin Files[alias]
      BY <3>1, UpstreamAssumption
    <3>3. QED
      BY <3>1, <3>2 DEF Nodes
  <2>3. CASE ~e.is_directory
    <3>1. child \in Files[alias] /\ t = r
      BY <2>1, <2>3
    <3>2. QED
      BY <1>3, <1>6, <3>1 DEF Nodes
  <2>4. QED
    BY <2>2, <2>3
<1> HIDE DEF r, t
<1>9. ToSet(t) \cap Lossy = {} => child = Node(t)
  <2> SUFFICES ASSUME ToSet(t) \cap Lossy = {} PROVE child = Node(t)
    OBVIOUS
  <2>1. ToSet(q) \cap Lossy = {}
    BY <1>5, AboveLossy
  <2>2. node = Node(q)
    <3>1. CASE path = <<Blank>>
      BY <3>1, BlankRequested, RootNode
    <3>2. CASE path # <<Blank>>
      <4>1. path = q /\ path \in Seq(Segment)
        BY <1>1, <3>2
      <4>2. QED
        BY <2>1, <4>1, RequestedPlain
    <3>3. QED
      BY <3>1, <3>2
  <2>3. Node(t) = Append(Node(q), e.name)
    BY <1>5, AboveNode
  <2>4. QED
    BY <2>2, <2>3
<1>10. LeadsTo(alias, t, child)
  BY <1>7, <1>8, <1>9 DEF LeadsTo, Nodes
<1>11. alias \in Part /\ t \in Seq(Part)
  BY <1>7, SeqMonotonic DEF Part, Segment
<1>12. <<alias>> \o t # <<>> /\ Head(<<alias>> \o t) = alias /\ Tail(<<alias>> \o t) = t
  BY <1>11, AliasAndPath
<1>13. QED
  BY <1>4, <1>10, <1>12

\* The link of the parent leads to the parent.
LEMMA ParentStep ==
    ASSUME NEW alias \in Aliases, NEW path \in Seq(Segment), Tidy(path),
           Node(Requested(path)) \in Nodes(alias)
    PROVE  LET to == parent_href(alias, path)
           IN  /\ to # <<>> /\ Head(to) = alias
               /\ LeadsTo(alias, Tail(to), Up(Node(Requested(path))))
<1> DEFINE up == Up(Node(Requested(path)))
           t == parent_path(path)
<1>1. PICK q, x : Above(path, q, x) /\ (q = <<>> \/ Tidy(q))
  BY TidyAbove
<1>2. t = IF q = <<>> THEN <<Blank>> ELSE q
  BY <1>1, ParentPath
<1>3. ToSet(q) \cap Lossy = {} => up = Node(q)
  BY <1>1, UpBeside
<1>4. up \in Dirs[alias]
  BY UpIsDirectory
<1>5. up \notin Files[alias]
  BY <1>4, UpstreamAssumption
<1>6. q \in Seq(Segment)
  BY <1>1 DEF Above
<1> HIDE DEF up, t
<1>7. LeadsTo(alias, t, up) /\ t \in Seq(Segment)
  <2>1. CASE q = <<>>
    <3>1. ToSet(q) = {}
      BY <2>1 DEF ToSet
    <3>2. up = <<>>
      BY <1>3, <2>1, <3>1, RootNode
    <3>3. t = <<Blank>> /\ Blank \in Segment
      BY <1>2, <2>1 DEF Segment
    <3>4. LeadsTo(alias, t, up)
      BY <1>4, <3>2, <3>3 DEF LeadsTo
    <3>5. t \in Seq(Segment)
      BY <3>3
    <3>6. QED
      BY <3>4, <3>5
  <2>2. CASE q # <<>>
    <3>1. t = q /\ Tidy(t)
      BY <1>1, <1>2, <2>2
    <3>2. LeadsTo(alias, t, up)
      BY <1>3, <1>4, <1>5, <3>1 DEF LeadsTo
    <3>3. QED
      BY <1>6, <3>1, <3>2
  <2>3. QED
    BY <2>1, <2>2
<1>8. alias \in Part /\ t \in Seq(Part)
  BY <1>7, SeqMonotonic DEF Part, Segment
<1>9. <<alias>> \o t # <<>> /\ Head(<<alias>> \o t) = alias /\ Tail(<<alias>> \o t) = t
  BY <1>8, AliasAndPath
<1>10. QED
  BY <1>7, <1>9 DEF parent_href, t, up

\* Every node's own address leads to it, and so do both of a source's root.
LEMMA AddressLeads ==
    ASSUME NEW alias \in Aliases, NEW node \in Nodes(alias)
    PROVE  LeadsTo(alias, node, node)
<1>1. node \in Seq(Names)
  BY UpstreamAssumption DEF Nodes
<1>2. CASE node = <<>>
  BY <1>2 DEF LeadsTo, Nodes
<1>3. CASE node # <<>>
  <2>1. Len(node) \in Nat \ {0} /\ \A i \in 1..Len(node) : node[i] \in Names
    BY <1>1, <1>3, EmptySeq, ElementOfSeq, LenProperties
  <2>2. \A i \in 1..Len(node) : node[i] # Blank
    BY <2>1, NavigationAssumption
  <2>3. node[1] # Blank /\ \A i \in 1..Len(node) - 1 : node[i] # Blank
    BY <2>1, <2>2
  <2>4. Tidy(node)
    BY <1>1, <1>3, <2>3, NodeOfNames DEF Tidy, Segment
  <2>5. Last(node) # Blank
    BY <2>1, <2>2 DEF Last
  <2>6. node = Node(node)
    BY <1>1, NodeOfNames
  <2>7. QED
    BY <2>4, <2>5, <2>6 DEF LeadsTo, Nodes
<1>4. QED
  BY <1>2, <1>3

LEMMA RootLeads ==
    ASSUME NEW alias \in Aliases, NEW p \in {<<>>, <<Blank>>}
    PROVE  LeadsTo(alias, p, <<>>)
<1>1. <<>> \in Dirs[alias]
  BY UpstreamAssumption
<1>2. QED
  BY <1>1, Zenon DEF LeadsTo

\* An alias and a path that leads somewhere stand for it.
LEMMA StandsThere ==
    ASSUME NEW alias \in Aliases, NEW u, u # <<>>, Head(u) = alias,
           NEW node, LeadsTo(alias, Tail(u), node)
    PROVE  StandsFor(u, SourcePage(alias, node))
<1>1. SourcePage(alias, node).node = node
  BY DEF SourcePage
<1>2. QED
  BY <1>1, Zenon DEF StandsFor

\* An alias's URL with its slash stands for the source's root.
LEMMA StandsForRoot ==
    ASSUME NEW alias \in Aliases
    PROVE  StandsFor(<<alias, Blank>>, SourcePage(alias, <<>>))
<1>1. alias \in Part /\ Blank \in Part /\ <<Blank>> \in Seq(Part)
  BY DEF Part
<1>2. <<alias>> \o <<Blank>> = <<alias, Blank>>
  BY <1>1, TwoParts, Zenon
<1> DEFINE u == <<alias, Blank>>
<1>3. u # <<>> /\ Head(u) = alias /\ Tail(u) = <<Blank>>
  BY <1>1, <1>2, AliasAndPath
<1>4. LeadsTo(alias, Tail(u), <<>>)
  BY <1>3, RootLeads, Zenon
<1> HIDE DEF u
<1>5. StandsFor(u, SourcePage(alias, <<>>))
  BY <1>3, <1>4, StandsThere
<1>6. QED
  BY <1>5 DEF u

\* Every address stands for what it is the address of.
LEMMA AddressStands ==
    ASSUME Prefix = <<>>, NEW l \in Addresses
    PROVE  StandsFor(l.to, l.target)
<1>1. CASE l = Link(IF Prefix = <<>> THEN <<Blank>> ELSE Prefix, Sources)
  <2>1. l.to = <<Blank>> /\ l.target = Sources
    BY <1>1 DEF Link
  <2>2. QED
    BY <2>1, Zenon DEF StandsFor
<1>2. ASSUME NEW alias \in Aliases,
             l = Link(Prefix \o <<alias, Blank>>, SourcePage(alias, <<>>))
      PROVE  StandsFor(l.to, l.target)
  <2>1. alias \in Part /\ Blank \in Part
    BY DEF Part
  <2>2. Prefix \o <<alias, Blank>> = <<alias, Blank>>
    BY <2>1, ConcatEmptySeq
  <2>3. l.to = <<alias, Blank>> /\ l.target = SourcePage(alias, <<>>)
    BY <1>2, <2>2 DEF Link
  <2>4. QED
    BY <2>3, StandsForRoot, Zenon
<1>3. ASSUME NEW alias \in Aliases, NEW node \in Nodes(alias),
             l = Link(Prefix \o <<alias>> \o node, SourcePage(alias, node))
      PROVE  StandsFor(l.to, l.target)
  <2>1. node \in Seq(Names)
    BY UpstreamAssumption DEF Nodes
  <2>2. alias \in Part /\ node \in Seq(Part)
    BY <2>1, SeqMonotonic DEF Part
  <2>3. Prefix \o <<alias>> = <<alias>>
    BY <2>2, ConcatEmptySeq
  <2>4. l.to = <<alias>> \o node /\ l.target = SourcePage(alias, node)
    BY <1>3, <2>3 DEF Link
  <2>5. l.to # <<>> /\ Head(l.to) = alias /\ Tail(l.to) = node
    BY <2>2, <2>4, AliasAndPath
  <2>6. LeadsTo(alias, Tail(l.to), node)
    BY <2>5, AddressLeads
  <2>7. StandsFor(l.to, SourcePage(alias, node))
    BY <2>5, <2>6, StandsThere
  <2>8. QED
    BY <2>4, <2>7
<1>4. QED
  BY <1>1, <1>2, <1>3, AddressIs

LEMMA BrowsingInit ==
    ASSUME Prefix = <<>>
    PROVE  Init => BrowsingInv
<1> SUFFICES ASSUME Init PROVE BrowsingInv
  OBVIOUS
<1>1. PICK l \in Addresses : url = l.to /\ target = l.target
  BY DEF Init, At
<1>2. StandsFor(l.to, l.target)
  BY AddressStands
<1>3. QED
  BY <1>1, <1>2 DEF BrowsingInv, Init

LEMMA FrontOfOne == \A a : Front(<<a>>) = <<>> /\ Last(<<a>>) = a
<1> SUFFICES ASSUME NEW a PROVE Front(<<a>>) = <<>> /\ Last(<<a>>) = a
  OBVIOUS
<1>1. <<>> \in Seq({a}) /\ Append(<<>>, a) = <<a>>
  BY EmptySeq
<1>2. Front(Append(<<>>, a)) = <<>> /\ Last(Append(<<>>, a)) = a
  BY <1>1, FrontAppend
<1>3. QED
  BY <1>1, <1>2, Zenon

\* The source at a URL is the one it names, and its path one browses to.
LEMMA BrowsedSource ==
    ASSUME Prefix = <<>>, NEW u \in Seq(Part), u # <<>>,
           NEW what, StandsFor(u, what), Page(u).kind = "source"
    PROVE  /\ alias_of(u) \in Aliases /\ Browsed(normalized_path(u))
           /\ Node(Requested(normalized_path(u))) \in Nodes(alias_of(u))
<1>1. /\ Route(u) # <<Blank>> /\ Len(Route(u)) # 1 /\ alias_of(u) \in Aliases
      /\ Node(Requested(normalized_path(u))) \in Nodes(alias_of(u))
  BY SourcePageIs
<1>2. Route(u) = u
  BY NoPrefix
<1>3. u # <<Blank>>
  BY <1>1, <1>2, Zenon
<1>4. PICK alias \in Aliases : Head(u) = alias /\ LeadsTo(alias, Tail(u), what.node)
  BY <1>3, Zenon DEF StandsFor
<1>5. normalized_path(u) = Tail(u)
  BY <1>4, BrowsedRoute
<1>6. Tail(u) # <<>>
  <2>1. Len(u) = Len(Tail(u)) + 1 /\ Len(u) # 1
    BY <1>1, <1>2, HeadAndTail
  <2>2. Len(<<>>) = 0
    OBVIOUS
  <2>3. Len(Tail(u)) # 0
    BY <2>1
  <2>4. QED
    BY <2>2, <2>3, Zenon
<1>7. Browsed(Tail(u))
  <2>1. Tail(u) = <<Blank>> \/ Tidy(Tail(u))
    BY <1>4, <1>6, Zenon DEF LeadsTo
  <2>2. Tidy(Tail(u)) => Tail(u) \in Seq(Segment)
    BY DEF Tidy, Segment
  <2>3. QED
    BY <2>1, <2>2, Zenon DEF Browsed
<1>8. QED
  BY <1>1, <1>5, <1>7

\* Every link of a page that browsing leads to stands for what it is written
\* for.
LEMMA LinkStands ==
    ASSUME Prefix = <<>>, NEW u \in Seq(Part), u # <<>>,
           NEW what, StandsFor(u, what), NEW l \in Links(u)
    PROVE  StandsFor(l.to, l.target)
<1>1. CASE Page(u).kind = "sources"
  <2>1. PICK alias \in Aliases :
           l = Link(Front(u) \o <<alias, Blank>>, SourcePage(alias, <<>>))
    BY <1>1 DEF Links, RootLinks
  <2>2. u = <<Blank>>
    BY <1>1, SourcesPageIs, NoPrefix, Zenon
  <2>3. Front(u) = <<>>
    BY <2>2, FrontOfOne, Zenon
  <2>4. Front(u) \o <<alias, Blank>> = <<alias, Blank>>
    <3>1. alias \in Part /\ Blank \in Part
      BY DEF Part
    <3>2. <<>> \o <<alias, Blank>> = <<alias, Blank>>
      BY <3>1, ConcatEmptySeq
    <3>3. QED
      BY <2>3, <3>2, Zenon
  <2>5. l.to = <<alias, Blank>> /\ l.target = SourcePage(alias, <<>>)
    <3>1. l.to = Front(u) \o <<alias, Blank>> /\ l.target = SourcePage(alias, <<>>)
      BY <2>1 DEF Link
    <3>2. QED
      BY <2>4, <3>1, Zenon
  <2>6. QED
    BY <2>5, StandsForRoot, Zenon
<1>2. CASE Page(u).kind = "source"
  <2> DEFINE alias == alias_of(u)
             path  == normalized_path(u)
             node  == Node(Requested(path))
  <2>1. alias \in Aliases /\ Browsed(path) /\ node \in Nodes(alias)
    BY <1>2, BrowsedSource
  <2>2. \/ \E e : /\ EntryOf(alias, node, e)
                  /\ l = Link(entry_href(alias, path, e),
                              SourcePage(alias, Append(node, e.name)))
        \/ /\ path # <<Blank>>
           /\ l = Link(parent_href(alias, path), SourcePage(alias, Up(node)))
    BY <1>2, SourceLink
  <2> HIDE DEF alias, path
  <2>3. ASSUME NEW e, EntryOf(alias, node, e),
               l = Link(entry_href(alias, path, e), SourcePage(alias, Append(node, e.name)))
        PROVE  StandsFor(l.to, l.target)
    <3> DEFINE to == entry_href(alias, path, e)
               child == Append(node, e.name)
    <3>1. to # <<>> /\ Head(to) = alias /\ LeadsTo(alias, Tail(to), child)
      BY <2>1, <2>3, EntryStep
    <3>2. l.to = to /\ l.target = SourcePage(alias, child)
      BY <2>3 DEF Link
    <3> HIDE DEF to, child
    <3>3. StandsFor(to, SourcePage(alias, child))
      BY <2>1, <3>1, StandsThere
    <3>4. QED
      BY <3>2, <3>3
  <2>4. ASSUME path # <<Blank>>,
               l = Link(parent_href(alias, path), SourcePage(alias, Up(node)))
        PROVE  StandsFor(l.to, l.target)
    <3> DEFINE to == parent_href(alias, path)
    <3>1. path \in Seq(Segment) /\ Tidy(path)
      BY <2>1, <2>4, Zenon DEF Browsed
    <3>2. to # <<>> /\ Head(to) = alias /\ LeadsTo(alias, Tail(to), Up(node))
      BY <2>1, <3>1, ParentStep
    <3>3. l.to = to /\ l.target = SourcePage(alias, Up(node))
      BY <2>4 DEF Link
    <3> HIDE DEF to, node
    <3>4. StandsFor(to, SourcePage(alias, Up(node)))
      BY <2>1, <3>2, StandsThere
    <3>5. QED
      BY <3>3, <3>4
  <2>5. QED
    BY <2>2, <2>3, <2>4
<1>3. QED
  BY <1>1, <1>2 DEF Links

\* A redirect leads from an alias to the root of its source.
LEMMA RedirectStands ==
    ASSUME Prefix = <<>>, NEW u \in Seq(Part), u # <<>>,
           NEW what, StandsFor(u, what), Page(u) = Redirect
    PROVE  StandsFor(Front(u) \o <<Last(u), Blank>>, what)
<1>1. u # <<Blank>> /\ Len(u) = 1
  <2>1. Route(u) # <<Blank>> /\ Len(Route(u)) = 1 /\ Route(u) = u
    BY RedirectIs, NoPrefix
  <2>2. QED
    BY <2>1, Zenon
<1>2. PICK alias \in Aliases :
         /\ Head(u) = alias /\ what = SourcePage(alias, what.node)
         /\ LeadsTo(alias, Tail(u), what.node)
  BY <1>1, Zenon DEF StandsFor
<1>3. Tail(u) = <<>>
  <2>1. Tail(u) \in Seq(Part) /\ Len(u) = Len(Tail(u)) + 1
    BY HeadAndTail
  <2>2. Len(Tail(u)) = 0
    BY <1>1, <2>1, LenProperties
  <2>3. QED
    BY <2>1, <2>2, EmptySeq
<1>4. what.node = <<>>
  <2>1. ~Tidy(Tail(u))
    BY <1>3 DEF Tidy
  <2>2. QED
    BY <1>2, <2>1, Zenon DEF LeadsTo
<1>5. Front(u) = <<>> /\ Last(u) = alias
  <2>1. alias \in Part /\ u = <<alias>> \o Tail(u)
    BY <1>2, HeadAndTail DEF Part
  <2>2. <<alias>> \o <<>> = <<alias>>
    BY <2>1, ConcatEmptySeq
  <2>3. u = <<alias>>
    BY <1>3, <2>1, <2>2, Zenon
  <2>4. QED
    BY <2>3, FrontOfOne, Zenon
<1>6. Front(u) \o <<Last(u), Blank>> = <<alias, Blank>>
  <2>1. alias \in Part /\ Blank \in Part
    BY DEF Part
  <2>2. <<>> \o <<alias, Blank>> = <<alias, Blank>>
    BY <2>1, ConcatEmptySeq
  <2>3. QED
    BY <1>5, <2>2, Zenon
<1>7. QED
  BY <1>2, <1>4, <1>6, StandsForRoot, Zenon

LEMMA BrowsingStep ==
    ASSUME Prefix = <<>>
    PROVE  TypeInv /\ BrowsingInv /\ [Next]_vars => BrowsingInv'
<1> SUFFICES ASSUME TypeInv, BrowsingInv, [Next]_vars PROVE BrowsingInv'
  OBVIOUS
<1>1. url \in Seq(Part) /\ url # <<>> /\ StandsFor(url, target) /\ merges \in BOOLEAN
  BY DEF TypeInv, BrowsingInv
<1>2. CASE FollowRedirect
  <2>1. StandsFor(Front(url) \o <<Last(url), Blank>>, target)
    BY <1>1, <1>2, RedirectStands DEF FollowRedirect
  <2>2. url' = Front(url) \o <<Last(url), Blank>> /\ target' = target /\ merges' = merges
    BY <1>2 DEF FollowRedirect
  <2>3. QED
    BY <1>1, <2>1, <2>2 DEF BrowsingInv, StandsFor
<1>3. CASE FollowLink
  <2>1. PICK l \in Links(url) : url' = l.to /\ target' = l.target /\ merges' = merges
    BY <1>3 DEF FollowLink
  <2>2. StandsFor(l.to, l.target)
    BY <1>1, LinkStands
  <2>3. QED
    BY <1>1, <2>1, <2>2 DEF BrowsingInv
<1>4. CASE UNCHANGED vars
  BY <1>1, <1>4 DEF BrowsingInv, vars
<1>5. QED
  BY <1>2, <1>3, <1>4 DEF Next

\* A path below an alias is part of its URL.
LEMMA PathOfUrl ==
    ASSUME NEW u \in Seq(Part), u # <<>>
    PROVE  /\ ToSet(Tail(u)) \subseteq ToSet(u)
           /\ DoubleSlash(Tail(u)) => DoubleSlash(u)
<1> DEFINE p == Tail(u)
<1>1. p \in Seq(Part) /\ Len(p) \in Nat /\ Len(u) = Len(p) + 1
  BY HeadAndTail, LenProperties
<1>2. \A i \in 1..Len(p) : p[i] = u[i + 1]
  BY HeadTailProperties
<1>3. DOMAIN p = 1..Len(p) /\ DOMAIN u = 1..Len(u)
  BY <1>1, LenProperties
<1> HIDE DEF p
<1>4. ToSet(p) \subseteq ToSet(u)
  <2> SUFFICES ASSUME NEW i \in 1..Len(p)
               PROVE  i + 1 \in 1..Len(u) /\ u[i + 1] = p[i]
    BY <1>3 DEF ToSet
  <2>1. QED
    BY <1>1, <1>2
<1>5. ASSUME DoubleSlash(p) PROVE DoubleSlash(u)
  <2>1. PICK i \in 1..Len(p) - 1 : p[i] = Blank
    BY <1>5 DEF DoubleSlash
  <2>2. i + 1 \in 1..Len(u) - 1 /\ i \in 1..Len(p)
    BY <1>1, <2>1
  <2>3. u[i + 1] = Blank
    BY <1>2, <2>1, <2>2
  <2>4. QED
    BY <2>2, <2>3, Zenon DEF DoubleSlash
<1>6. QED
  BY <1>4, <1>5 DEF p

\* An upstream that takes "//" for "/" has what a path leads to, and is asked
\* for just that.
LEMMA LeadsToHas ==
    ASSUME NEW alias \in Aliases, NEW path, path # <<>>, NEW node,
           LeadsTo(alias, path, node), ToSet(path) \cap Lossy = {},
           merges \/ ~DoubleSlash(path)
    PROVE  handle_source_path(alias, path) = SourcePage(alias, node)
<1>1. Requested(path) = path
  <2>1. path \in Seq(Segment)
    <3>1. <<>> \in Seq(Segment) /\ <<Blank>> \in Seq(Segment)
      BY DEF Segment
    <3>2. QED
      BY <3>1, Zenon DEF LeadsTo, Tidy, Segment
  <2>2. QED
    BY <2>1, RequestedPlain
<1>2. /\ Node(path) = node
      /\ node \in Dirs[alias] \/ (node \in Files[alias] /\ Last(path) # Blank)
  <2>1. CASE path \in {<<>>, <<Blank>>} /\ node = <<>>
    <3>1. path = <<Blank>>
      BY <2>1, Zenon
    <3>2. Node(path) = <<>>
      BY <3>1, RootNode, Zenon
    <3>3. <<>> \in Dirs[alias]
      BY UpstreamAssumption
    <3>4. QED
      BY <2>1, <3>2, <3>3, Zenon
  <2>2. CASE Tidy(path) /\ (node \in Files[alias] => Last(path) # Blank) /\ node = Node(path)
    <3>1. node \in Dirs[alias] \cup Files[alias]
      BY DEF LeadsTo
    <3>2. QED
      BY <2>2, <3>1, Zenon
  <2>3. QED
    BY <2>1, <2>2, Zenon DEF LeadsTo
<1>3. Has(alias, Requested(path))
  BY <1>1, <1>2, Zenon DEF Has
<1>4. QED
  BY <1>1, <1>2, <1>3, Zenon DEF handle_source_path

LEMMA BrowsingLinksLead ==
    ASSUME Prefix = <<>>, TypeInv, BrowsingInv
    PROVE  LinksLead
<1>1. url \in Seq(Part) /\ url # <<>> /\ StandsFor(url, target)
  BY DEF TypeInv, BrowsingInv
<1>2. CASE url = <<Blank>> /\ target = Sources
  <2>1. Routed(url) /\ Route(url) = url
    BY <1>1, NoPrefix
  <2>2. Route(url) = <<Blank>>
    BY <1>2, <2>1, Zenon
  <2>3. alias_of(url) = Blank
    <3>1. Head(<<Blank>>) = Blank
      OBVIOUS
    <3>2. QED
      BY <2>2, <3>1, Zenon DEF alias_of
  <2>4. Page(url) = Sources
    BY <2>1, <2>2, <2>3, Zenon DEF Page
  <2>5. QED
    BY <1>2, <2>4, Zenon DEF LinksLead
<1>3. ASSUME NEW alias \in Aliases, Head(url) = alias,
             target = SourcePage(alias, target.node),
             LeadsTo(alias, Tail(url), target.node)
      PROVE  LinksLead
  <2> SUFFICES ASSUME merges \/ ~DoubleSlash(url), ToSet(url) \cap Lossy = {},
                      Page(url) # Redirect
               PROVE  Page(url) = target
    BY DEF LinksLead
  <2> DEFINE path == Tail(url)
             node == target.node
  <2>1. /\ Routed(url) /\ Route(url) = url /\ url # <<Blank>>
        /\ alias_of(url) = alias /\ alias # Blank /\ normalized_path(url) = path
    BY <1>1, <1>3, BrowsedRoute
  <2>2. Page(url) = IF Len(url) = 1 THEN Redirect ELSE handle_source_path(alias, path)
    <3>1. CASE Len(Route(url)) = 1
      BY <2>1, <3>1, Zenon DEF Page
    <3>2. CASE Len(Route(url)) # 1
      BY <2>1, <3>2, Zenon DEF Page
    <3>3. QED
      BY <2>1, <3>1, <3>2, Zenon
  <2>3. Len(url) # 1
    BY <2>2
  <2>4. path # <<>>
    <3>1. Len(url) = Len(path) + 1
      BY <1>1, HeadAndTail
    <3>2. Len(<<>>) = 0
      OBVIOUS
    <3>3. Len(path) # 0
      BY <2>3, <3>1
    <3>4. QED
      BY <3>2, <3>3, Zenon
  <2>5. ToSet(path) \cap Lossy = {} /\ (merges \/ ~DoubleSlash(path))
    BY <1>1, PathOfUrl
  <2>6. LeadsTo(alias, path, node)
    BY <1>3
  <2> HIDE DEF path, node
  <2>7. handle_source_path(alias, path) = SourcePage(alias, node)
    BY <2>4, <2>5, <2>6, LeadsToHas
  <2>8. target = SourcePage(alias, node)
    BY <1>3 DEF node
  <2>9. QED
    BY <2>2, <2>3, <2>7, <2>8
<1>4. QED
  BY <1>1, <1>2, <1>3, Zenon DEF StandsFor

LEMMA BrowsingStaysShort ==
    ASSUME Prefix = <<>>, TypeInv, BrowsingInv
    PROVE  UrlsStayShort
<1> SUFFICES ASSUME target.kind = "source", ToSet(url) \cap Lossy = {}
             PROVE  Len(url) <= 2 * Len(target.node) + 2
  BY DEF UrlsStayShort
<1>1. url \in Seq(Part) /\ url # <<>> /\ StandsFor(url, target)
  BY DEF TypeInv, BrowsingInv
<1>2. target # Sources
  BY DEF Sources
<1>3. PICK alias \in Aliases : LeadsTo(alias, Tail(url), target.node)
  BY <1>1, <1>2, Zenon DEF StandsFor
<1> DEFINE path == Tail(url)
           node == target.node
<1>4. Len(url) = Len(path) + 1 /\ Len(path) \in Nat
  BY <1>1, HeadAndTail, LenProperties
<1>5. Len(node) \in Nat
  BY <1>3, UpstreamAssumption, LenProperties DEF LeadsTo
<1>6. ToSet(path) \cap Lossy = {}
  BY <1>1, PathOfUrl
<1>7. LeadsTo(alias, path, node)
  BY <1>3
<1> HIDE DEF path, node
<1>8. CASE path \in {<<>>, <<Blank>>}
  <2>1. Len(<<>>) = 0 /\ Len(<<Blank>>) = 1
    OBVIOUS
  <2>2. Len(path) = 0 \/ Len(path) = 1
    BY <1>8, <2>1, Zenon
  <2>3. ~(Len(path) > 1)
    BY <2>2, AtMostOne, Zenon
  <2>4. QED
    BY <1>4, <1>5, <2>3 DEF node
<1>9. CASE Tidy(path) /\ node = Node(path)
  <2>1. path \in Seq(Segment)
    BY <1>9 DEF Tidy, Segment
  <2>2. Len(path) + (IF Last(path) = Blank THEN 0 ELSE 1) <= 2 * Len(node)
    BY <1>9, <2>1, TidyLength
  <2>3. Len(path) <= 2 * Len(node)
    BY <1>4, <1>5, <2>2
  <2>4. QED
    BY <1>4, <1>5, <2>3 DEF node
<1>10. QED
  BY <1>6, <1>7, <1>8, <1>9, Zenon DEF LeadsTo

\* Without a prefix, a URL always stands for what the link to it was written
\* for, by the shape of its path alone: an alias, then names with no more than
\* one slash too many between two, and none behind a file (entry_href,
\* parent_path, handle_root and the redirect keep it that way).
THEOREM BrowsingKept ==
    ASSUME Prefix = <<>>
    PROVE  Spec => [](TypeInv /\ BrowsingInv)
<1>1. Init => TypeInv /\ BrowsingInv
  BY TypeInit, BrowsingInit
<1>2. TypeInv /\ BrowsingInv /\ [Next]_vars => (TypeInv /\ BrowsingInv)'
  BY TypeStep, BrowsingStep
<1>3. QED
  BY <1>1, <1>2, PTL DEF Spec

\* Without a prefix, and for every upstream tree, each link of each page leads
\* to the directory or file it was written for, however long one browses up and
\* down: only "//" with an upstream that takes it for something else and names
\* that do not survive decoding are excepted. With a prefix it does not hold,
\* as the run links_below_prefix shows: the pages link as if there were none.
THEOREM LinksLeadThere ==
    ASSUME Prefix = <<>>
    PROVE  Spec => []LinksLead
<1>1. TypeInv /\ BrowsingInv => LinksLead
  BY BrowsingLinksLead
<1>2. QED
  BY BrowsingKept, <1>1, PTL

\* Without a prefix, browsing up and down does not pile up slashes: a URL has
\* at most two segments for each name of what it stands for, and two more.
THEOREM UrlsAreShort ==
    ASSUME Prefix = <<>>
    PROVE  Spec => []UrlsStayShort
<1>1. TypeInv /\ BrowsingInv => UrlsStayShort
  BY BrowsingStaysShort
<1>2. QED
  BY BrowsingKept, <1>1, PTL

===============================================================================
