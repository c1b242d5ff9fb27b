--------------------------- MODULE Sourcemap_proofs ---------------------------
(***************************************************************************)
(* Proofs about Sourcemap: in every state the types modules and instances  *)
(* hold are those of the tree, and so are the maps from paths and files to *)
(* instances. The lemmas say of each function on the tree what it does for *)
(* trees of any size: that the nodes stay a forest (each is the child of   *)
(* one node at most), which nodes are below others, and that writing the   *)
(* paths reaches every node of the tree once.                              *)
(***************************************************************************)
EXTENDS Sourcemap, FiniteSetTheorems, WellFoundedInduction, TLAPS

-----------------------------------------------------------------------------
(* Recursion.                                                                *)

\* Induction up to a number, for a set of the numbers that fail.
LEMMA UpTo ==
    ASSUME NEW m \in Nat, NEW Bad \in SUBSET (0..m), 0 \notin Bad,
           \A n \in 1..m : n \in Bad => n - 1 \in Bad
    PROVE  Bad = {}
<1>1. SUFFICES ASSUME Bad # {} PROVE FALSE
  OBVIOUS
<1>2. PICK n \in Bad : \A k \in Bad : ~ <<k, n>> \in OpToRel(<, Nat)
  <2>1. Bad \subseteq Nat
    OBVIOUS
  <2>. QED BY <1>1, <2>1, WFMin, NatLessThanWellFounded, Zenon
<1>3. n \in 1..m /\ n - 1 \in Bad
  OBVIOUS
<1>4. n - 1 \in Nat /\ n \in Nat /\ n - 1 < n
  BY <1>3
<1>5. <<n - 1, n>> \in OpToRel(<, Nat)
  BY <1>4 DEF OpToRel
<1>. QED BY <1>2, <1>3, <1>5

\* A function that is applied again and again.
Repeats(f, first, most, F) == f[0] = first /\ \A k \in 1..most : f[k] = F[<<k, f[k - 1]>>]

\* A function can be applied as often as one likes, and the values stay in its set.
LEMMA Iterates ==
    ASSUME NEW S, NEW first \in S, NEW most \in Nat, NEW F \in [(1..most) \X S -> S]
    PROVE  \E f \in [0..most -> S] : Repeats(f, first, most, F)
<1> DEFINE Good(k) == \E f \in [0..k -> S] : Repeats(f, first, k, F)
           Bad == {k \in 0..most : ~Good(k)}
<1>1. 0 \notin Bad
  <2> DEFINE f == [j \in 0..0 |-> first]
  <2>1. f \in [0..0 -> S] /\ f[0] = first /\ 1..0 = {}
    OBVIOUS
  <2>2. Good(0)
    <3>. HIDE DEF f
    <3>. QED BY <2>1 DEF Repeats
  <2>. HIDE DEF Good
  <2>. QED BY <2>2
<1>2. ASSUME NEW k \in 1..most, Good(k - 1) PROVE Good(k)
  <2>1. PICK f \in [0..(k - 1) -> S] : Repeats(f, first, k - 1, F)
    BY <1>2
  <2> DEFINE g == [j \in 0..k |-> IF j = k THEN F[<<k, f[k - 1]>>] ELSE f[j]]
  <2>2. g \in [0..k -> S]
    BY <2>1
  <2>3. g[k] = F[<<k, f[k - 1]>>] /\ \A j \in 0..(k - 1) : g[j] = f[j]
    OBVIOUS
  <2>. HIDE DEF g
  <2>4. g[0] = first
    BY <2>1, <2>3 DEF Repeats
  <2>5. ASSUME NEW j \in 1..k PROVE g[j] = F[<<j, g[j - 1]>>]
    <3>1. CASE j = k
      <4>1. g[j - 1] = f[k - 1]
        BY <2>3, <3>1
      <4>. QED BY <2>3, <3>1, <4>1
    <3>2. CASE j \in 1..(k - 1)
      <4>1. g[j - 1] = f[j - 1] /\ g[j] = f[j]
        BY <2>3, <3>2
      <4>2. f[j] = F[<<j, f[j - 1]>>]
        BY <2>1, <3>2 DEF Repeats
      <4>. QED BY <4>1, <4>2
    <3>. QED BY <3>1, <3>2
  <2>6. Repeats(g, first, k, F)
    BY <2>4, <2>5 DEF Repeats
  <2>. QED BY <2>2, <2>6
<1>3. \A k \in 1..most : k \in Bad => k - 1 \in Bad
  <2>. HIDE DEF Good
  <2>. QED BY <1>2
<1>4. Bad = {}
  <2>. HIDE DEF Good
  <2>. QED BY <1>1, <1>3, UpTo
<1>. QED BY <1>4

\* What a recursive function of a number does, as long as it stays in S.
Total(f, most) == f = [k \in 0..most |-> f[k]]
Obeys(f, S, most, F) == \A k \in 1..most : f[k - 1] \in S => f[k] = F[<<k, f[k - 1]>>]

\* What such a recursive function gives is in the set.
LEMMA StaysInside ==
    ASSUME NEW S, NEW first \in S, NEW most \in Nat, NEW F \in [(1..most) \X S -> S], NEW after,
           Total(after, most), after[0] = first, Obeys(after, S, most, F)
    PROVE  after \in [0..most -> S] /\ Repeats(after, first, most, F)
<1> DEFINE Bad == {k \in 0..most : after[k] \notin S}
<1>2. Bad = {}
  <2>1. 0 \notin Bad
    OBVIOUS
  <2>2. ASSUME NEW k \in 1..most, k - 1 \notin Bad PROVE k \notin Bad
    <3>1. k - 1 \in 0..most /\ k \in 0..most
      OBVIOUS
    <3>. QED BY <2>2, <3>1 DEF Obeys
  <2>. HIDE DEF Bad
  <2>3. Bad \in SUBSET (0..most)
    BY DEF Bad
  <2>. QED BY <2>1, <2>2, <2>3, UpTo
<1>3. \A k \in 1..most : k - 1 \in 0..most
  OBVIOUS
<1>. QED BY <1>2, <1>3 DEF Repeats, Total, Obeys

\* A recursion of the model stays in a set when each call does.
LEMMA ReadingStays ==
    ASSUME NEW S, NEW first \in S, NEW most \in Nat,
           \A s \in S : s.calls # <<>> => ReadChild(s) \in S
    PROVE  Recursion(ReadChild, first, most) \in S
<1> DEFINE Step(s) == IF s.calls = <<>> THEN s ELSE ReadChild(s)
           F == [p \in (1..most) \X S |-> Step(p[2])]
           Solves(f) == f = [k \in 0..most |-> IF k = 0 THEN first ELSE Step(f[k - 1])]
           after == CHOOSE f : Solves(f)
<1>1. \A s \in S : Step(s) \in S
  OBVIOUS
<1>2. Recursion(ReadChild, first, most) = after[most]
  BY DEF Recursion
<1>3. \A s : Step(s) = IF s.calls = <<>> THEN s ELSE ReadChild(s)
  OBVIOUS
<1>. HIDE DEF Step
<1>4. F \in [(1..most) \X S -> S] /\ \A k \in 1..most, s \in S : F[<<k, s>>] = Step(s)
  <2>. HIDE DEF Solves, after
  <2>. QED BY <1>1
<1>. HIDE DEF F
<1>5. PICK g \in [0..most -> S] : Repeats(g, first, most, F)
  <2>. HIDE DEF Solves, after
  <2>. QED BY <1>4, Iterates
<1>6. Solves(g)
  <2>1. ASSUME NEW k \in 1..most PROVE g[k] = Step(g[k - 1])
    <3>1. g[k - 1] \in S
      OBVIOUS
    <3>2. g[k] = F[<<k, g[k - 1]>>]
      BY <1>5 DEF Repeats
    <3>. HIDE DEF after, Solves
    <3>. QED BY <1>4, <3>1, <3>2
  <2>2. g[0] = first
    BY <1>5 DEF Repeats
  <2>3. \A k \in 0..most : g[k] = IF k = 0 THEN first ELSE Step(g[k - 1])
    <3>1. \A k \in 0..most : k = 0 \/ k \in 1..most
      OBVIOUS
    <3>. HIDE DEF after, Solves
    <3>. QED BY <2>1, <2>2, <3>1
  <2>. HIDE DEF after
  <2>. QED BY <2>3
<1>7. Solves(after)
  <2>. HIDE DEF Solves
  <2>. QED BY <1>6
<1>. HIDE DEF after
<1>8. after = [k \in 0..most |-> after[k]] /\ after[0] = first /\ \A k \in 1..most : after[k] = Step(after[k - 1])
  <2>1. \A k \in 1..most : k \in 0..most /\ k # 0
    OBVIOUS
  <2>2. after = [k \in 0..most |-> IF k = 0 THEN first ELSE Step(after[k - 1])]
    BY <1>7
  <2>. HIDE DEF Solves
  <2>3. after = [k \in 0..most |-> after[k]]
    BY <2>2
  <2>4. \A k \in 0..most : after[k] = IF k = 0 THEN first ELSE Step(after[k - 1])
    BY <2>2
  <2>. QED BY <2>1, <2>3, <2>4
<1>. HIDE DEF Solves
<1>9. Obeys(after, S, most, F) /\ Total(after, most)
  BY <1>4, <1>8 DEF Obeys, Total
<1>10. after \in [0..most -> S]
  BY <1>4, <1>8, <1>9, StaysInside
<1>. QED BY <1>2, <1>10

\* The same for the calls that merge the plugin's instances (mutateSourceNodeWithPluginInfo).
LEMMA MutatingStays ==
    ASSUME NEW S, NEW first \in S, NEW most \in Nat,
           \A s \in S : s.calls # <<>> => MutateChild(s) \in S
    PROVE  Recursion(MutateChild, first, most) \in S
<1> DEFINE Step(s) == IF s.calls = <<>> THEN s ELSE MutateChild(s)
           F == [p \in (1..most) \X S |-> Step(p[2])]
           Solves(f) == f = [k \in 0..most |-> IF k = 0 THEN first ELSE Step(f[k - 1])]
           after == CHOOSE f : Solves(f)
<1>1. \A s \in S : Step(s) \in S
  OBVIOUS
<1>2. Recursion(MutateChild, first, most) = after[most]
  BY DEF Recursion
<1>3. \A s : Step(s) = IF s.calls = <<>> THEN s ELSE MutateChild(s)
  OBVIOUS
<1>. HIDE DEF Step
<1>4. F \in [(1..most) \X S -> S] /\ \A k \in 1..most, s \in S : F[<<k, s>>] = Step(s)
  <2>. HIDE DEF Solves, after
  <2>. QED BY <1>1
<1>. HIDE DEF F
<1>5. PICK g \in [0..most -> S] : Repeats(g, first, most, F)
  <2>. HIDE DEF Solves, after
  <2>. QED BY <1>4, Iterates
<1>6. Solves(g)
  <2>1. ASSUME NEW k \in 1..most PROVE g[k] = Step(g[k - 1])
    <3>1. g[k - 1] \in S
      OBVIOUS
    <3>2. g[k] = F[<<k, g[k - 1]>>]
      BY <1>5 DEF Repeats
    <3>. HIDE DEF after, Solves
    <3>. QED BY <1>4, <3>1, <3>2
  <2>2. g[0] = first
    BY <1>5 DEF Repeats
  <2>3. \A k \in 0..most : g[k] = IF k = 0 THEN first ELSE Step(g[k - 1])
    <3>1. \A k \in 0..most : k = 0 \/ k \in 1..most
      OBVIOUS
    <3>. HIDE DEF after, Solves
    <3>. QED BY <2>1, <2>2, <3>1
  <2>. HIDE DEF after
  <2>. QED BY <2>3
<1>7. Solves(after)
  <2>. HIDE DEF Solves
  <2>. QED BY <1>6
<1>. HIDE DEF after
<1>8. after = [k \in 0..most |-> after[k]] /\ after[0] = first /\ \A k \in 1..most : after[k] = Step(after[k - 1])
  <2>1. \A k \in 1..most : k \in 0..most /\ k # 0
    OBVIOUS
  <2>2. after = [k \in 0..most |-> IF k = 0 THEN first ELSE Step(after[k - 1])]
    BY <1>7
  <2>. HIDE DEF Solves
  <2>3. after = [k \in 0..most |-> after[k]]
    BY <2>2
  <2>4. \A k \in 0..most : after[k] = IF k = 0 THEN first ELSE Step(after[k - 1])
    BY <2>2
  <2>. QED BY <2>1, <2>3, <2>4
<1>. HIDE DEF Solves
<1>9. Obeys(after, S, most, F) /\ Total(after, most)
  BY <1>4, <1>8 DEF Obeys, Total
<1>10. after \in [0..most -> S]
  BY <1>4, <1>8, <1>9, StaysInside
<1>. QED BY <1>2, <1>10

\* How the elements that stay are collected.
Collects(f, seq, stay, most) ==
    f[0] = <<>> /\ \A k \in 1..most : f[k] = IF seq[k] \in stay THEN Append(f[k - 1], seq[k]) ELSE f[k - 1]

\* Kept collects the elements one after the other.
LEMMA KeptUnfolds ==
    ASSUME NEW S, NEW seq \in Seq(S), NEW stay
    PROVE  \E after \in [0..Len(seq) -> Seq(S)] :
              Kept(seq, stay) = after[Len(seq)] /\ Collects(after, seq, stay, Len(seq))
<1>0. PICK most \in Nat : most = Len(seq) /\ \A i \in 1..most : seq[i] \in S
  OBVIOUS
<1> DEFINE Step(i, s) == IF seq[i] \in stay THEN Append(s, seq[i]) ELSE s
           F == [p \in (1..most) \X Seq(S) |-> Step(p[1], p[2])]
           Solves(f) == f = [i \in 0..most |-> IF i = 0 THEN <<>> ELSE Step(i, f[i - 1])]
           after == CHOOSE f : Solves(f)
<1>1. \A i \in 1..most, s \in Seq(S) : Step(i, s) \in Seq(S)
  BY <1>0
<1>2. Kept(seq, stay) = after[most]
  BY <1>0 DEF Kept
<1>3. \A i, s : Step(i, s) = IF seq[i] \in stay THEN Append(s, seq[i]) ELSE s
  OBVIOUS
<1>. HIDE DEF Step
<1>4. F \in [(1..most) \X Seq(S) -> Seq(S)] /\ \A k \in 1..most, s \in Seq(S) : F[<<k, s>>] = Step(k, s)
  <2>. HIDE DEF Solves, after
  <2>. QED BY <1>1
<1>. HIDE DEF F
<1>e. <<>> \in Seq(S)
  OBVIOUS
<1>5. PICK g \in [0..most -> Seq(S)] : Repeats(g, <<>>, most, F)
  <2>. HIDE DEF Solves, after
  <2>. QED BY <1>e, <1>4, Iterates
<1>6. Solves(g)
  <2>1. ASSUME NEW k \in 1..most PROVE g[k] = Step(k, g[k - 1])
    <3>1. g[k - 1] \in Seq(S)
      OBVIOUS
    <3>2. g[k] = F[<<k, g[k - 1]>>]
      BY <1>5 DEF Repeats
    <3>. HIDE DEF after, Solves
    <3>. QED BY <1>4, <3>1, <3>2
  <2>2. g[0] = <<>>
    BY <1>5 DEF Repeats
  <2>3. \A k \in 0..most : g[k] = IF k = 0 THEN <<>> ELSE Step(k, g[k - 1])
    <3>1. \A k \in 0..most : k = 0 \/ k \in 1..most
      OBVIOUS
    <3>. HIDE DEF after, Solves
    <3>. QED BY <2>1, <2>2, <3>1
  <2>. HIDE DEF after
  <2>. QED BY <2>3
<1>7. Solves(after)
  <2>. HIDE DEF Solves
  <2>. QED BY <1>6
<1>. HIDE DEF after
<1>8. after = [k \in 0..most |-> after[k]] /\ after[0] = <<>> /\ \A k \in 1..most : after[k] = Step(k, after[k - 1])
  <2>1. \A k \in 1..most : k \in 0..most /\ k # 0
    OBVIOUS
  <2>2. after = [k \in 0..most |-> IF k = 0 THEN <<>> ELSE Step(k, after[k - 1])]
    BY <1>7
  <2>. HIDE DEF Solves
  <2>3. after = [k \in 0..most |-> after[k]]
    BY <2>2
  <2>4. \A k \in 0..most : after[k] = IF k = 0 THEN <<>> ELSE Step(k, after[k - 1])
    BY <2>2
  <2>5. after[0] = <<>>
    <3>1. 0 \in 0..most
      OBVIOUS
    <3>2. after[0] = IF 0 = 0 THEN <<>> ELSE Step(0, after[0 - 1])
      BY <2>4, <3>1, Zenon
    <3>. QED BY <3>2, Zenon
  <2>6. \A k \in 1..most : after[k] = Step(k, after[k - 1])
    BY <2>1, <2>4
  <2>. QED BY <2>3, <2>5, <2>6
<1>. HIDE DEF Solves
<1>9. Obeys(after, Seq(S), most, F) /\ Total(after, most)
  BY <1>4, <1>8 DEF Obeys, Total
<1>10. after \in [0..most -> Seq(S)]
  BY <1>e, <1>4, <1>8, <1>9, StaysInside
<1>11. Collects(after, seq, stay, most)
  BY <1>3, <1>8 DEF Collects
<1>. QED BY <1>0, <1>2, <1>10, <1>11

\* The elements of a sequence that stay, in their order: each once if each was there once.
OnceEach(s) == \A i, j \in 1..Len(s) : s[i] = s[j] => i = j

KeptFrom(kept, seq, stay) ==
    /\ \A i \in 1..Len(kept) : kept[i] \in stay /\ \E j \in 1..Len(seq) : kept[i] = seq[j]
    /\ OnceEach(seq) => OnceEach(kept)

\* What is kept was there, stays, and is there once if it was.
LEMMA KeptElements ==
    ASSUME NEW S, NEW seq \in Seq(S), NEW stay
    PROVE  Kept(seq, stay) \in Seq(S) /\ KeptFrom(Kept(seq, stay), seq, stay)
<1>0. PICK most \in Nat : most = Len(seq) /\ \A i \in 1..most : seq[i] \in S
  OBVIOUS
<1>1. PICK f \in [0..most -> Seq(S)] : Kept(seq, stay) = f[most] /\ Collects(f, seq, stay, most)
  BY <1>0, KeptUnfolds
<1> DEFINE Each(s, k) == \A i \in 1..Len(s) : s[i] \in stay /\ \E j \in 1..k : s[i] = seq[j]
           Good(k) == Each(f[k], k) /\ (OnceEach(seq) => OnceEach(f[k]))
           Bad == {k \in 0..most : ~Good(k)}
<1>2. Good(0)
  BY <1>1 DEF OnceEach, Collects
<1>3. ASSUME NEW s \in Seq(S), NEW k \in 1..most, Each(s, k - 1), OnceEach(seq) => OnceEach(s)
      PROVE  /\ Each(s, k)
             /\ seq[k] \in stay => Each(Append(s, seq[k]), k)
             /\ OnceEach(seq) => OnceEach(Append(s, seq[k]))
  <2>1. Each(s, k)
    BY <1>0, <1>3
  <2>2. PICK x \in S : x = seq[k]
    BY <1>0
  <2>3. PICK n \in Nat : n = Len(s)
    OBVIOUS
  <2>4. Append(s, x) \in Seq(S) /\ Len(Append(s, x)) = n + 1
        /\ (\A i \in 1..n : Append(s, x)[i] = s[i]) /\ Append(s, x)[n + 1] = x
    BY <2>3
  <2>5. \A i \in 1..(n + 1) : i \in 1..n \/ i = n + 1
    OBVIOUS
  <2>6. ASSUME x \in stay PROVE Each(Append(s, x), k)
    BY <1>0, <2>1, <2>2, <2>3, <2>4, <2>5, <2>6
  <2>7. ASSUME OnceEach(seq) PROVE OnceEach(Append(s, x))
    <3>1. \A i \in 1..n : s[i] # x
      <4>. SUFFICES ASSUME NEW i \in 1..n, s[i] = x PROVE FALSE
        OBVIOUS
      <4>1. PICK j \in 1..(k - 1) : s[i] = seq[j]
        BY <1>3, <2>3
      <4>. QED BY <1>0, <2>2, <2>7, <4>1 DEF OnceEach
    <3>2. \A i, j \in 1..n : s[i] = s[j] => i = j
      BY <1>3, <2>3, <2>7 DEF OnceEach
    <3>. QED BY <2>4, <2>5, <3>1, <3>2 DEF OnceEach
  <2>. QED BY <2>1, <2>2, <2>6, <2>7
<1>4. ASSUME NEW k \in 1..most, Good(k - 1) PROVE Good(k)
  <2>1. f[k - 1] \in Seq(S)
    OBVIOUS
  <2>2. f[k] = IF seq[k] \in stay THEN Append(f[k - 1], seq[k]) ELSE f[k - 1]
    BY <1>1 DEF Collects
  <2>. HIDE DEF Each
  <2>. QED BY <1>3, <1>4, <2>1, <2>2
<1>. HIDE DEF Good
<1>5. Bad = {}
  <2>1. \A k \in 1..most : k \in Bad => k - 1 \in Bad
    BY <1>4
  <2>2. 0 \notin Bad /\ Bad \in SUBSET (0..most)
    BY <1>2
  <2>. HIDE DEF Bad
  <2>. QED BY <2>1, <2>2, UpTo
<1>6. Good(most)
  <2>1. most \in 0..most
    OBVIOUS
  <2>2. most \notin Bad
    <3>. HIDE DEF Bad
    <3>. QED BY <1>5
  <2>. QED BY <2>1, <2>2
<1>7. f[most] \in Seq(S)
  OBVIOUS
<1>. QED BY <1>0, <1>1, <1>6, <1>7 DEF Good, KeptFrom

-----------------------------------------------------------------------------
(* The nodes below others.                                                   *)

\* Children are nodes.
ClosedHeap(heap) ==
    /\ Len(heap) \in Nat
    /\ \A n \in 1..Len(heap) : ChildrenOf(heap, n) \subseteq 1..Len(heap)

\* A set of nodes that has the children of all of them.
ShutIn(heap, T) == T \subseteq 1..Len(heap) /\ \A n \in T : ChildrenOf(heap, n) \subseteq T

\* The least such set that includes S.
LeastShut(heap, S) == {n \in 1..Len(heap) : \A T : S \subseteq T /\ ShutIn(heap, T) => n \in T}

\* The nodes below S are the least set with S that has the children of its nodes.
LEMMA DescendantsAreLeast ==
    ASSUME NEW heap, ClosedHeap(heap), NEW S \in SUBSET (1..Len(heap))
    PROVE  Descendants(heap, S) = LeastShut(heap, S)
<1> DEFINE nodes == 1..Len(heap)
           Next1(T) == T \cup UNION {ChildrenOf(heap, n) : n \in T}
           Solves(f) == f = [T \in SUBSET nodes |-> LET more == T \cup UNION {ChildrenOf(heap, n) : n \in T}
                              IN IF more = T THEN T ELSE f[more]]
           Reached == CHOOSE f : Solves(f)
           Least(T) == LeastShut(heap, T)
<1>0. Len(heap) \in Nat /\ \A n \in nodes : ChildrenOf(heap, n) \subseteq nodes
  BY DEF ClosedHeap
<1>1. Descendants(heap, S) = Reached[S]
  BY DEF Descendants
<1>2. \A f : Solves(f) <=> f = [T \in SUBSET nodes |-> IF Next1(T) = T THEN T ELSE f[Next1(T)]]
  OBVIOUS
<1>3. ASSUME NEW T \in SUBSET nodes
      PROVE  /\ Next1(T) \in SUBSET nodes /\ T \subseteq Next1(T)
             /\ Next1(T) = T => T = Least(T)
             /\ Least(Next1(T)) = Least(T)
  <2>1. Next1(T) \in SUBSET nodes /\ T \subseteq Next1(T)
    BY <1>0
  <2>2. ASSUME Next1(T) = T PROVE T = Least(T)
    <3>1. ShutIn(heap, T)
      BY <2>2 DEF ShutIn
    <3>. QED BY <3>1 DEF LeastShut
  <2>3. \A U : T \subseteq U /\ ShutIn(heap, U) <=> Next1(T) \subseteq U /\ ShutIn(heap, U)
    <3>1. ASSUME NEW U, T \subseteq U, ShutIn(heap, U) PROVE Next1(T) \subseteq U
      BY <3>1 DEF ShutIn
    <3>. QED BY <2>1, <3>1
  <2>4. Least(Next1(T)) = Least(T)
    <3>. HIDE DEF Next1
    <3>. QED BY <2>3 DEF LeastShut
  <2>. QED BY <2>1, <2>2, <2>4
<1>. HIDE DEF Next1, Solves
<1>4. Solves(Reached)
  <2>1. Solves([T \in SUBSET nodes |-> Least(T)])
    <3> DEFINE g == [T \in SUBSET nodes |-> Least(T)]
    <3>1. \A T \in SUBSET nodes : Least(T) = IF Next1(T) = T THEN T ELSE g[Next1(T)]
      <4>. HIDE DEF Least
      <4>. QED BY <1>3
    <3>2. g = [T \in SUBSET nodes |-> IF Next1(T) = T THEN T ELSE g[Next1(T)]]
      <4>. HIDE DEF Least
      <4>. QED BY <3>1
    <3>. HIDE DEF g
    <3>3. Solves(g)
      BY <1>2, <3>2
    <3>. QED BY <3>3 DEF g
  <2>. QED BY <2>1
<1>. HIDE DEF Reached, Least
<1>5. \A T \in SUBSET nodes : Reached[T] = IF Next1(T) = T THEN T ELSE Reached[Next1(T)]
  <2>1. Reached = [T \in SUBSET nodes |-> IF Next1(T) = T THEN T ELSE Reached[Next1(T)]]
    BY <1>2, <1>4
  <2>. HIDE DEF nodes
  <2>. QED BY <2>1
<1>6. IsFiniteSet(nodes) /\ Cardinality(nodes) = Len(heap)
  <2>1. 1 \in Int /\ Len(heap) \in Int
    BY <1>0
  <2>2. IsFiniteSet(nodes) /\ Cardinality(nodes) = IF 1 > Len(heap) THEN 0 ELSE Len(heap) - 1 + 1
    BY <2>1, FS_Interval
  <2>. QED BY <1>0, <2>2
<1> DEFINE Bad == {k \in 0..Len(heap) : \E T \in SUBSET nodes :
                       Cardinality(nodes \ T) <= k /\ Reached[T] # Least(T)}
<1>7. Bad = {}
  <2>1. 0 \notin Bad
    <3>. SUFFICES ASSUME NEW T \in SUBSET nodes, Cardinality(nodes \ T) <= 0 PROVE Reached[T] = Least(T)
      BY <1>0
    <3>1. IsFiniteSet(nodes \ T) /\ Cardinality(nodes \ T) \in Nat
      BY <1>6, FS_Difference, FS_CardinalityType
    <3>2. nodes \ T = {}
      BY <3>1, FS_EmptySet
    <3>3. T = nodes
      BY <3>2
    <3>4. Next1(T) = T
      BY <1>3, <3>3
    <3>. QED BY <1>3, <1>5, <3>4
  <2>2. ASSUME NEW k \in 1..Len(heap), k \in Bad PROVE k - 1 \in Bad
    <3>1. PICK T \in SUBSET nodes : Cardinality(nodes \ T) <= k /\ Reached[T] # Least(T)
      BY <2>2
    <3>2. Next1(T) # T
      BY <1>3, <1>5, <3>1
    <3>3. Reached[Next1(T)] # Least(Next1(T)) /\ Next1(T) \in SUBSET nodes
      BY <1>3, <1>5, <3>1, <3>2
    <3>4. PICK x \in Next1(T) : x \notin T
      BY <1>3, <3>2
    <3>5. nodes \ Next1(T) \subseteq (nodes \ T) \ {x} /\ x \in nodes \ T
      BY <1>3, <3>4
    <3>6. IsFiniteSet(nodes \ T) /\ Cardinality(nodes \ T) \in Nat
      BY <1>6, FS_Difference, FS_CardinalityType
    <3>7. IsFiniteSet((nodes \ T) \ {x}) /\ Cardinality((nodes \ T) \ {x}) = Cardinality(nodes \ T) - 1
      <4>1. PICK D : D = nodes \ T
        OBVIOUS
      <4>2. IsFiniteSet(D) /\ x \in D
        BY <3>5, <3>6, <4>1
      <4>3. IsFiniteSet(D \ {x}) /\ Cardinality(D \ {x}) = Cardinality(D) - 1
        BY <4>2, FS_RemoveElement
      <4>. QED BY <4>1, <4>3
    <3>8. Cardinality(nodes \ Next1(T)) <= Cardinality((nodes \ T) \ {x}) /\ IsFiniteSet(nodes \ Next1(T))
      BY <3>5, <3>7, FS_Subset
    <3>9. Cardinality(nodes \ Next1(T)) \in Nat
      BY <3>8, FS_CardinalityType
    <3>10. Cardinality(nodes \ Next1(T)) <= k - 1 /\ k - 1 \in 0..Len(heap)
      BY <1>0, <3>1, <3>6, <3>7, <3>8, <3>9
    <3>. QED BY <3>3, <3>10
  <2>3. Bad \in SUBSET (0..Len(heap))
    OBVIOUS
  <2>. HIDE DEF Bad
  <2>. QED BY <1>0, <2>1, <2>2, <2>3, UpTo
<1>8. Cardinality(nodes \ S) <= Len(heap) /\ Len(heap) \in 0..Len(heap)
  <2>1. nodes \ S \subseteq nodes
    OBVIOUS
  <2>. QED BY <1>0, <1>6, <2>1, FS_Subset
<1>. QED BY <1>1, <1>7, <1>8 DEF Least

-----------------------------------------------------------------------------
(* Heaps.                                                                    *)

\* Strings, and those the model names (the provers do not know these for strings).
Text == STRING \cup {NoFile, "game", "ProjectRoot", "DataModel", "Default", "absent", "malformed",
                     "none", "Shared", "Server", "Client"}

\* (The provers reason better of a set of flags when it has a name.)
Flags == BOOLEAN

NodeSet == [name : Text, className : Text, file : Text, children : Seq(Nat),
            pluginManaged : Flags, parent : Nat, virtualPath : Seq(Text),
            scriptContext : Text, types : {"none", "live", "freed"}]
Heaps == Seq(NodeSet)

\* Trees that are made of each other.
AreTrees(J) ==
    /\ J \subseteq [name : Text, className : Text, file : Text,
                    pluginManaged : Flags, children : Seq(J)]
    /\ SiblingsHaveNames => \A tree \in J : NamesApart(tree)
IsTree(tree) == \E J : tree \in J /\ AreTrees(J)

\* Children are nodes other than the root.
ListsNodes(heap, root) ==
    \A n \in 1..Len(heap) : \A i \in 1..Len(heap[n].children) :
        heap[n].children[i] \in 1..Len(heap) /\ heap[n].children[i] # root

\* Each is a child once.
ListsOnce(heap) ==
    \A n, m \in 1..Len(heap) :
        \A i \in 1..Len(heap[n].children), j \in 1..Len(heap[m].children) :
            heap[n].children[i] = heap[m].children[j] => n = m /\ i = j

ListsNamesApart(heap) ==
    \A n \in 1..Len(heap) : \A i, j \in 1..Len(heap[n].children) :
        heap[heap[n].children[i]].name = heap[heap[n].children[j]].name => i = j

\* The nodes are trees: each is a child once at most, and the root is none.
Forest(heap, root) ==
    /\ heap \in Heaps
    /\ root \in 1..Len(heap)
    /\ \A n \in 1..Len(heap) : heap[n].parent \in 0..Len(heap)
    /\ ListsNodes(heap, root)
    /\ ListsOnce(heap)
    /\ SiblingsHaveNames => ListsNamesApart(heap)

\* What the fields of a node are.
LEMMA HeapTypes ==
    ASSUME NEW heap \in Heaps, NEW n \in 1..Len(heap)
    PROVE  /\ Len(heap) \in Nat /\ n \in Nat
           /\ heap[n] \in NodeSet
           /\ heap[n].children \in Seq(Nat) /\ Len(heap[n].children) \in Nat
           /\ heap[n].name \in Text /\ heap[n].className \in Text /\ heap[n].file \in Text
           /\ heap[n].virtualPath \in Seq(Text) /\ heap[n].parent \in Nat
           /\ ChildrenOf(heap, n) = {heap[n].children[i] : i \in 1..Len(heap[n].children)}
<1>1. Len(heap) \in Nat /\ n \in Nat /\ heap[n] \in NodeSet
  BY DEF Heaps
<1>2. heap[n].children \in Seq(Nat)
  BY <1>1 DEF NodeSet
<1>3. Len(heap[n].children) \in Nat /\ DOMAIN heap[n].children = 1..Len(heap[n].children)
  BY <1>2
<1>. QED BY <1>1, <1>2, <1>3 DEF NodeSet, ChildrenOf, Range

\* The children of a forest's nodes are its nodes.
LEMMA ForestIsClosed ==
    ASSUME NEW heap, NEW root, Forest(heap, root)
    PROVE  ClosedHeap(heap) /\ Len(heap) \in Nat
<1>1. heap \in Heaps
  BY DEF Forest
<1>2. Len(heap) \in Nat
  BY <1>1 DEF Heaps
<1>3. ASSUME NEW n \in 1..Len(heap) PROVE ChildrenOf(heap, n) \subseteq 1..Len(heap)
  <2>1. ChildrenOf(heap, n) = {heap[n].children[i] : i \in 1..Len(heap[n].children)}
    BY <1>1, HeapTypes
  <2>2. ListsNodes(heap, root)
    BY DEF Forest
  <2>. QED BY <2>1, <2>2 DEF ListsNodes
<1>. QED BY <1>2, <1>3 DEF ClosedHeap

\* A heap with no more children than a forest is one.
LEMMA ForestShrinks ==
    ASSUME NEW heap, NEW root, Forest(heap, root), NEW new \in Heaps, Len(new) = Len(heap),
           \A n \in 1..Len(heap) :
              /\ new[n].name = heap[n].name
              /\ new[n].parent \in 0..Len(heap)
              /\ OnceEach(new[n].children)
              /\ \A i \in 1..Len(new[n].children) :
                    \E j \in 1..Len(heap[n].children) : new[n].children[i] = heap[n].children[j]
    PROVE  Forest(new, root)
<1>1. /\ heap \in Heaps /\ root \in 1..Len(heap)
      /\ ListsNodes(heap, root) /\ ListsOnce(heap) /\ (SiblingsHaveNames => ListsNamesApart(heap))
  BY DEF Forest
<1>2. ASSUME NEW n \in 1..Len(heap), NEW i \in 1..Len(new[n].children)
      PROVE  new[n].children[i] \in 1..Len(heap) /\ new[n].children[i] # root
  <2>1. PICK j \in 1..Len(heap[n].children) : new[n].children[i] = heap[n].children[j]
    OBVIOUS
  <2>. QED BY <1>1, <2>1 DEF ListsNodes
<1>3. ASSUME NEW n \in 1..Len(heap), NEW m \in 1..Len(heap),
             NEW i \in 1..Len(new[n].children), NEW k \in 1..Len(new[m].children),
             new[n].children[i] = new[m].children[k]
      PROVE  n = m /\ i = k
  <2>1. PICK j \in 1..Len(heap[n].children) : new[n].children[i] = heap[n].children[j]
    OBVIOUS
  <2>2. PICK l \in 1..Len(heap[m].children) : new[m].children[k] = heap[m].children[l]
    OBVIOUS
  <2>3. heap[n].children[j] = heap[m].children[l]
    BY <1>3, <2>1, <2>2
  <2>4. n = m
    BY <1>1, <2>3 DEF ListsOnce
  <2>. QED BY <1>3, <2>4 DEF OnceEach
<1>4. ASSUME SiblingsHaveNames, NEW n \in 1..Len(heap),
             NEW i \in 1..Len(new[n].children), NEW k \in 1..Len(new[n].children),
             new[new[n].children[i]].name = new[new[n].children[k]].name
      PROVE  i = k
  <2>1. PICK j \in 1..Len(heap[n].children) : new[n].children[i] = heap[n].children[j]
    OBVIOUS
  <2>2. PICK l \in 1..Len(heap[n].children) : new[n].children[k] = heap[n].children[l]
    OBVIOUS
  <2>3. heap[heap[n].children[j]].name = heap[heap[n].children[l]].name
    BY <1>2, <1>4, <2>1, <2>2
  <2>4. j = l
    BY <1>1, <1>4, <2>3 DEF ListsNamesApart
  <2>. QED BY <2>1, <2>2, <2>4 DEF OnceEach
<1>5. ListsNodes(new, root)
  BY <1>2 DEF ListsNodes
<1>6. ListsOnce(new)
  BY <1>3 DEF ListsOnce
<1>7. SiblingsHaveNames => ListsNamesApart(new)
  BY <1>4 DEF ListsNamesApart
<1>. QED BY <1>1, <1>5, <1>6, <1>7 DEF Forest

\* The children of a node of a forest are there once each.
LEMMA ForestOnceEach ==
    ASSUME NEW heap, NEW root, Forest(heap, root), NEW n \in 1..Len(heap)
    PROVE  OnceEach(heap[n].children)
BY DEF Forest, ListsOnce, OnceEach

-----------------------------------------------------------------------------
(* Allocation.                                                               *)

Fresh(node, name) ==
    node \in NodeSet /\ node.name = name /\ node.children = <<>> /\ node.parent = 0

\* A new node has no children and no parent.
LEMMA NodeType ==
    ASSUME NEW name \in Text, NEW className \in Text, NEW file \in Text, NEW managed \in Flags
    PROVE  Fresh(Node(name, className, file, managed), name)
<1>1. <<>> \in Seq(Nat) /\ <<>> \in Seq(Text) /\ 0 \in Nat
  OBVIOUS
<1>2. "Shared" \in Text
  BY DEF Text
<1>3. Node(name, className, file, managed) \in NodeSet
  BY <1>1, <1>2, Zenon DEF Node, NodeSet, Null
<1>. QED BY <1>3 DEF Fresh, Node, Null

\* What the heap is once a node was added.
Added(new, heap, n, node, top) ==
    /\ new \in Heaps
    /\ Len(new) = top
    /\ new[top] = node
    /\ new[n] = [heap[n] EXCEPT !.children = Append(@, top)]
    /\ \A k \in 1..Len(heap) : k # n => new[k] = heap[k]

\* AddChild appends the node and its place, and leaves the other nodes alone.
LEMMA AddChildFields ==
    ASSUME NEW heap \in Heaps, NEW n \in 1..Len(heap), NEW node \in NodeSet,
           NEW top \in Nat, top = Len(heap) + 1
    PROVE  Added(AddChild(heap, n, node), heap, n, node, top)
<1> DEFINE new == [heap EXCEPT ![n].children = Append(@, top)]
<1>1. Len(heap) \in Nat /\ heap[n] \in NodeSet
  BY DEF Heaps
<1>2. Append(heap[n].children, top) \in Seq(Nat)
  BY <1>1, HeapTypes
<1>3. [heap[n] EXCEPT !.children = Append(@, top)] \in NodeSet
  BY <1>1, <1>2 DEF NodeSet
<1>4. new = [heap EXCEPT ![n] = [heap[n] EXCEPT !.children = Append(@, top)]]
  OBVIOUS
<1>5. new \in Heaps /\ Len(new) = Len(heap) /\ new[n] = [heap[n] EXCEPT !.children = Append(@, top)]
      /\ \A k \in 1..Len(heap) : k # n => new[k] = heap[k]
  <2>1. PICK changed \in NodeSet : changed = [heap[n] EXCEPT !.children = Append(@, top)]
    BY <1>3
  <2>2. new = [heap EXCEPT ![n] = changed]
    BY <1>4, <2>1
  <2>. HIDE DEF new
  <2>3. new \in Seq(NodeSet) /\ Len(new) = Len(heap) /\ new[n] = changed
        /\ \A k \in 1..Len(heap) : k # n => new[k] = heap[k]
    BY <2>2 DEF Heaps
  <2>. QED BY <2>1, <2>3 DEF Heaps
<1>6. AddChild(heap, n, node) = Append(new, node)
  BY DEF AddChild
<1>. HIDE DEF new
<1>. QED BY <1>1, <1>5, <1>6 DEF Heaps, Added

\* A forest stays one when a node gets a child of another name than those it has.
LEMMA AddChildForest ==
    ASSUME NEW heap, NEW root, Forest(heap, root), NEW n \in 1..Len(heap), NEW node \in NodeSet,
           node.children = <<>>, node.parent = 0,
           SiblingsHaveNames => \A i \in 1..Len(heap[n].children) : heap[heap[n].children[i]].name # node.name
    PROVE  Forest(AddChild(heap, n, node), root)
<1>1. heap \in Heaps /\ root \in 1..Len(heap) /\ Len(heap) \in Nat
  BY DEF Forest, Heaps
<1>2. PICK top \in Nat : top = Len(heap) + 1
  BY <1>1
<1>0. PICK new : new = AddChild(heap, n, node) /\ Added(new, heap, n, node, top)
  BY <1>1, <1>2, AddChildFields
<1>3. /\ new \in Heaps
      /\ Len(new) = top /\ new[top] = node
      /\ new[n] = [heap[n] EXCEPT !.children = Append(@, top)]
      /\ \A k \in 1..Len(heap) : k # n => new[k] = heap[k]
  BY <1>0 DEF Added
<1>4. \A k \in 1..top : k \in 1..Len(heap) \/ k = top
  BY <1>1, <1>2
<1>5. \A k \in 1..Len(heap) : k # top /\ k \in 1..top
  BY <1>1, <1>2
<1>6. PICK len \in Nat : len = Len(heap[n].children)
  BY <1>1, HeapTypes
<1>7. /\ new[n].name = heap[n].name /\ new[n].parent = heap[n].parent
      /\ new[n].children = Append(heap[n].children, top)
  <2>1. heap[n] \in NodeSet
    BY <1>1, HeapTypes
  <2>. QED BY <1>3, <2>1 DEF NodeSet
<1>8. \A k \in 1..Len(heap) : new[k].name = heap[k].name /\ new[k].parent = heap[k].parent
  BY <1>3, <1>7
<1>9. /\ Len(new[n].children) = len + 1 /\ new[n].children[len + 1] = top
      /\ \A i \in 1..len : new[n].children[i] = heap[n].children[i]
  <2>1. heap[n].children \in Seq(Nat)
    BY <1>1, HeapTypes
  <2>. QED BY <1>2, <1>6, <1>7, <2>1
<1>10. \A i \in 1..(len + 1) : i \in 1..len \/ i = len + 1
  OBVIOUS
<1> DEFINE New(k, i) == k = n /\ i = len + 1 /\ new[k].children[i] = top
           Old(k, i) == /\ k \in 1..Len(heap) /\ i \in 1..Len(heap[k].children)
                        /\ new[k].children[i] = heap[k].children[i]
                        /\ heap[k].children[i] \in 1..Len(heap) /\ heap[k].children[i] # root
                        /\ new[k].children[i] # top
\* A child is the new node, the last of n, or was a child there.
<1>11. ASSUME NEW k \in 1..top, NEW i \in 1..Len(new[k].children)
       PROVE  New(k, i) \/ Old(k, i)
  <2>0. \A x \in 1..Len(heap) : \A y \in 1..Len(heap[x].children) :
          heap[x].children[y] \in 1..Len(heap) /\ heap[x].children[y] # root
    BY DEF Forest, ListsNodes
  <2>1. CASE k = top
    BY <1>3, <2>1
  <2>2. CASE k = n
    <3>1. i \in 1..len \/ i = len + 1
      BY <1>9, <1>10, <2>2
    <3>2. CASE i \in 1..len
      BY <1>5, <1>6, <1>9, <2>0, <2>2, <3>2
    <3>. QED BY <1>9, <2>2, <3>1, <3>2
  <2>3. CASE k \in 1..Len(heap) /\ k # n
    <3>1. new[k] = heap[k]
      BY <1>3, <2>3
    <3>. QED BY <1>5, <2>0, <2>3, <3>1
  <2>. QED BY <1>4, <2>1, <2>2, <2>3
<1>12. ASSUME NEW k \in 1..top, NEW i \in 1..Len(new[k].children)
       PROVE  new[k].children[i] \in 1..top /\ new[k].children[i] # root
  <2>1. top \in 1..top /\ root # top
    BY <1>1, <1>2
  <2>2. CASE New(k, i)
    BY <2>1, <2>2
  <2>3. CASE Old(k, i)
    BY <1>5, <2>3
  <2>. QED BY <1>11, <2>2, <2>3
<1>13. ASSUME NEW k \in 1..top, NEW m \in 1..top,
              NEW i \in 1..Len(new[k].children), NEW j \in 1..Len(new[m].children),
              new[k].children[i] = new[m].children[j]
       PROVE  k = m /\ i = j
  <2>1. (New(k, i) /\ New(m, j)) \/ (Old(k, i) /\ Old(m, j))
    <3>1. New(k, i) \/ Old(k, i)
      BY <1>11
    <3>2. New(m, j) \/ Old(m, j)
      BY <1>11
    <3>3. ~(New(k, i) /\ Old(m, j)) /\ ~(Old(k, i) /\ New(m, j))
      BY <1>13
    <3>. HIDE DEF New, Old
    <3>. QED BY <3>1, <3>2, <3>3
  <2>2. CASE Old(k, i) /\ Old(m, j)
    <3>1. heap[k].children[i] = heap[m].children[j]
      BY <1>13, <2>2
    <3>. QED BY <2>2, <3>1 DEF Forest, ListsOnce
  <2>. QED BY <2>1, <2>2
<1>14. ASSUME SiblingsHaveNames, NEW k \in 1..top,
              NEW i \in 1..Len(new[k].children), NEW j \in 1..Len(new[k].children),
              new[new[k].children[i]].name = new[new[k].children[j]].name
       PROVE  i = j
  <2>1. ASSUME NEW a, NEW b, Old(n, a), New(n, b) PROVE new[new[n].children[a]].name # new[new[n].children[b]].name
    <3>1. new[new[n].children[b]] = node
      BY <1>3, <2>1
    <3>2. new[new[n].children[a]].name = heap[heap[n].children[a]].name
      BY <1>8, <2>1
    <3>. QED BY <1>14, <2>1, <3>1, <3>2
  <2>2. (New(k, i) /\ New(k, j)) \/ (Old(k, i) /\ Old(k, j))
    <3>1. New(k, i) \/ Old(k, i)
      BY <1>11
    <3>2. New(k, j) \/ Old(k, j)
      BY <1>11
    <3>. HIDE DEF Old
    <3>. QED BY <1>14, <2>1, <3>1, <3>2
  <2>3. CASE Old(k, i) /\ Old(k, j)
    <3>1. heap[heap[k].children[i]].name = heap[heap[k].children[j]].name
      BY <1>8, <1>14, <2>3
    <3>. QED BY <1>14, <2>3, <3>1 DEF Forest, ListsNamesApart
  <2>. QED BY <2>2, <2>3
<1>15. \A k \in 1..top : new[k].parent \in 0..top
  <2>1. \A k \in 1..Len(heap) : heap[k].parent \in 0..Len(heap)
    BY DEF Forest
  <2>. QED BY <1>1, <1>2, <1>3, <1>4, <1>8, <2>1
<1>16. root \in 1..top
  BY <1>1, <1>2
<1>17. Forest(new, root)
  <2>1. Len(new) = top /\ new \in Heaps
    BY <1>3
  <2>. HIDE DEF New, Old
  <2>2. ListsNodes(new, root)
    BY <1>12, <2>1 DEF ListsNodes
  <2>3. ListsOnce(new)
    BY <1>13, <2>1 DEF ListsOnce
  <2>4. SiblingsHaveNames => ListsNamesApart(new)
    BY <1>14, <2>1 DEF ListsNamesApart
  <2>. QED BY <2>1, <2>2, <2>3, <2>4, <1>15, <1>16 DEF Forest
<1>. QED BY <1>0, <1>17

-----------------------------------------------------------------------------
(* Reading sourcemap.json.                                                   *)

\* What is to be called next: the calls a call makes, then the others.
Follows(next, a, b) ==
    \A i \in 1..Len(next) :
        \/ i \in 1..Len(a) /\ next[i] = a[i]
        \/ \E c \in 2..Len(b) : c \in 1..Len(b) /\ c = i - Len(a) + 1 /\ next[i] = b[c]

\* None is forgotten.
Remain(next, a, b) ==
    /\ \A i \in 1..Len(a) : \E k \in 1..Len(next) : next[k] = a[i]
    /\ \A c \in 2..Len(b) : \E k \in 1..Len(next) : next[k] = b[c]

\* Calls that are put before the others.
LEMMA CallsFollow ==
    ASSUME NEW S, NEW a \in Seq(S), NEW b \in Seq(S), b # <<>>
    PROVE  \E next \in Seq(S) : next = a \o Tail(b) /\ Follows(next, a, b) /\ Remain(next, a, b)
<1>1. PICK m \in Nat : m = Len(a)
  OBVIOUS
<1>2. PICK k \in Nat : k = Len(b) /\ k > 0
  OBVIOUS
<1>3. PICK t \in Seq(S) : t = Tail(b) /\ Len(t) = k - 1 /\ \A j \in 1..(k - 1) : t[j] = b[j + 1]
  <2>1. Tail(b) \in Seq(S) /\ Len(Tail(b)) = k - 1
    BY <1>2
  <2>2. \A j \in 1..(k - 1) : Tail(b)[j] = b[j + 1]
    BY <1>2
  <2>. QED BY <2>1, <2>2
<1>4. PICK next \in Seq(S) :
         /\ next = a \o t /\ Len(next) = m + (k - 1)
         /\ \A i \in 1..(m + (k - 1)) : next[i] = IF i <= m THEN a[i] ELSE t[i - m]
  <2>1. a \o t \in Seq(S)
    OBVIOUS
  <2>2. Len(a \o t) = m + (k - 1)
    BY <1>1, <1>2, <1>3
  <2>3. ASSUME NEW i \in 1..(m + (k - 1)) PROVE (a \o t)[i] = IF i <= m THEN a[i] ELSE t[i - m]
    BY <1>1, <1>2, <1>3
  <2>. QED BY <2>1, <2>2, <2>3
<1>5. ASSUME NEW i \in 1..(m + (k - 1))
      PROVE  \/ i \in 1..m /\ next[i] = a[i]
             \/ \E c \in 2..k : c \in 1..k /\ c = i - m + 1 /\ next[i] = b[c]
  <2>1. CASE i <= m
    BY <1>4, <2>1
  <2>2. CASE i > m
    <3>1. i - m \in 1..(k - 1) /\ ~(i <= m)
      BY <1>2, <2>2
    <3>2. next[i] = t[i - m]
      BY <1>4, <3>1
    <3>3. PICK c \in 2..k : c \in 1..k /\ c = i - m + 1
      BY <1>2, <3>1
    <3>4. t[i - m] = b[i - m + 1]
      BY <1>3, <3>1
    <3>. QED BY <3>2, <3>3, <3>4
  <2>. QED BY <2>1, <2>2
<1>7. Follows(next, a, b)
  BY <1>1, <1>2, <1>4, <1>5 DEF Follows
<1>8. ASSUME NEW i \in 1..m PROVE \E j \in 1..(m + (k - 1)) : next[j] = a[i]
  <2>1. i \in 1..(m + (k - 1)) /\ i <= m
    BY <1>2
  <2>2. next[i] = a[i]
    BY <1>4, <2>1
  <2>. QED BY <2>1, <2>2
<1>9. ASSUME NEW c \in 2..k PROVE \E j \in 1..(m + (k - 1)) : next[j] = b[c]
  <2>1. PICK j \in 1..(m + (k - 1)) : j = c + m - 1 /\ ~(j <= m)
    BY <1>2
  <2>2. next[j] = t[j - m]
    BY <1>4, <2>1
  <2>3. c - 1 \in 1..(k - 1) /\ j - m = c - 1 /\ c - 1 + 1 = c
    BY <2>1
  <2>4. t[c - 1] = b[c]
    BY <1>3, <2>3
  <2>. QED BY <2>2, <2>3, <2>4
<1>10. Remain(next, a, b)
  BY <1>1, <1>2, <1>4, <1>8, <1>9 DEF Remain
<1>. QED BY <1>3, <1>4, <1>7, <1>10

\* The first element of a sequence.
LEMMA FirstOf ==
    ASSUME NEW S, NEW seq \in Seq(S), seq # <<>>
    PROVE  Head(seq) = seq[1] /\ 1 \in 1..Len(seq) /\ seq[1] \in S
<1>1. PICK m \in Nat : m = Len(seq) /\ m > 0
  OBVIOUS
<1>. QED BY <1>1

\* An element that is appended is the last one.
LEMMA AppendedLast ==
    ASSUME NEW S, NEW seq \in Seq(S), NEW x \in S
    PROVE  /\ Append(seq, x) \in Seq(S)
           /\ \A k \in 1..Len(Append(seq, x)) :
                (k \in 1..Len(seq) /\ Append(seq, x)[k] = seq[k]) \/ Append(seq, x)[k] = x
<1>1. PICK m \in Nat : m = Len(seq)
  OBVIOUS
<1>2. /\ Append(seq, x) \in Seq(S) /\ Len(Append(seq, x)) = m + 1
      /\ \A i \in 1..m : Append(seq, x)[i] = seq[i]
      /\ Append(seq, x)[m + 1] = x
  <2>1. Append(seq, x) \in Seq(S)
    OBVIOUS
  <2>2. Len(Append(seq, x)) = m + 1 /\ Append(seq, x)[m + 1] = x
    BY <1>1
  <2>3. \A i \in 1..m : Append(seq, x)[i] = seq[i]
    BY <1>1
  <2>. QED BY <2>1, <2>2, <2>3
<1>3. \A i \in 1..(m + 1) : i \in 1..m \/ i = m + 1
  OBVIOUS
<1>. QED BY <1>1, <1>2, <1>3

CallsFor(own, n, json) ==
    /\ Len(own) = Len(json.children) /\ Len(own) \in Nat
    /\ \A i \in 1..Len(own) : own[i].parent = n /\ own[i].json = json.children[i]
    /\ SiblingsHaveNames => NamesApart(json)

\* The calls for the children of a tree.
LEMMA ChildCallsOf ==
    ASSUME NEW J, AreTrees(J), NEW json \in J, NEW n \in Nat
    PROVE  /\ ChildCalls(n, json) \in Seq([parent : Nat, json : J])
           /\ CallsFor(ChildCalls(n, json), n, json)
<1>1. json.children \in Seq(J) /\ (SiblingsHaveNames => NamesApart(json))
  BY DEF AreTrees
<1>2. PICK m \in Nat : m = Len(json.children) /\ \A i \in 1..m : json.children[i] \in J
  BY <1>1
<1>3. ChildCalls(n, json) = [i \in 1..m |-> [parent |-> n, json |-> json.children[i]]]
  BY <1>2 DEF ChildCalls
<1>. QED BY <1>1, <1>2, <1>3 DEF CallsFor

\* A node is read from a tree.
LEMMA ReadNodeType ==
    ASSUME NEW J, AreTrees(J), NEW json \in J
    PROVE  Fresh(ReadNode(json), json.name)
<1>1. /\ json.name \in Text /\ json.className \in Text /\ json.file \in Text
      /\ json.pluginManaged \in Flags
  BY DEF AreTrees
<1>2. PICK name \in Text, className \in Text, file \in Text, managed \in Flags :
         /\ name = json.name /\ className = json.className /\ file = json.file
         /\ managed = json.pluginManaged
  BY <1>1
<1>3. ReadNode(json) = Node(name, className, file, managed)
  BY <1>2 DEF ReadNode
<1>. QED BY <1>2, <1>3, NodeType

\* The calls to be made are for children no node has yet.
NewNames(heap, calls) ==
    /\ \A i, j \in 1..Len(calls) :
          calls[i].parent = calls[j].parent /\ calls[i].json.name = calls[j].json.name => i = j
    /\ \A i \in 1..Len(calls) : \A k \in 1..Len(heap[calls[i].parent].children) :
          heap[heap[calls[i].parent].children[k]].name # calls[i].json.name

ReadStates(J) ==
    {s \in [heap : Heaps, calls : Seq([parent : Nat, json : J])] :
        /\ Forest(s.heap, 1)
        /\ \A i \in 1..Len(s.calls) : s.calls[i].parent \in 1..Len(s.heap)
        /\ SiblingsHaveNames => NewNames(s.heap, s.calls)}

\* Reading one more instance leaves a forest (SourceNode::fromJson).
LEMMA ReadChildStays ==
    ASSUME NEW J, AreTrees(J), NEW s \in ReadStates(J), s.calls # <<>>
    PROVE  ReadChild(s) \in ReadStates(J)
<1>1. PICK heap \in Heaps, calls \in Seq([parent : Nat, json : J]) :
         /\ heap = s.heap /\ calls = s.calls /\ Forest(heap, 1) /\ calls # <<>>
         /\ \A i \in 1..Len(calls) : calls[i].parent \in 1..Len(heap)
         /\ SiblingsHaveNames => NewNames(heap, calls)
  BY DEF ReadStates
<1>2. PICK top \in Nat : top = Len(heap) + 1
  BY <1>1 DEF Heaps
<1>c. Head(calls) = calls[1] /\ 1 \in 1..Len(calls) /\ calls[1] \in [parent : Nat, json : J]
  BY <1>1, FirstOf
<1>3. PICK p \in 1..Len(heap), json \in J : calls[1].parent = p /\ calls[1].json = json
  BY <1>1, <1>c
<1>4. Len(heap) \in Nat /\ p \in Nat
  BY HeapTypes
<1>d. PICK node : node = ReadNode(json) /\ Fresh(node, json.name)
  BY ReadNodeType
<1>5. node \in NodeSet /\ node.name = json.name /\ node.children = <<>> /\ node.parent = 0
  BY <1>d DEF Fresh
<1>e. PICK new : new = AddChild(heap, p, node) /\ Added(new, heap, p, node, top)
  BY <1>2, <1>5, AddChildFields
<1>6. /\ new \in Heaps
      /\ Len(new) = top /\ new[top] = node
      /\ new[p] = [heap[p] EXCEPT !.children = Append(@, top)]
      /\ \A k \in 1..Len(heap) : k # p => new[k] = heap[k]
  BY <1>e DEF Added
<1>7. Forest(new, 1)
  <2>1. ASSUME SiblingsHaveNames, NEW i \in 1..Len(heap[p].children)
        PROVE  heap[heap[p].children[i]].name # node.name
    <3>1. NewNames(heap, calls)
      BY <1>1, <2>1
    <3>. QED BY <1>c, <1>3, <1>5, <2>1, <3>1 DEF NewNames
  <2>2. Forest(heap, 1)
    BY <1>1
  <2>3. Forest(AddChild(heap, p, node), 1)
    BY <1>5, <2>1, <2>2, AddChildForest
  <2>. QED BY <1>e, <2>3
<1>f. PICK own \in Seq([parent : Nat, json : J]) : own = ChildCalls(top, json) /\ CallsFor(own, top, json)
  BY ChildCallsOf
<1>8. /\ Len(own) \in Nat /\ Len(own) = Len(json.children)
      /\ \A i \in 1..Len(own) : own[i].parent = top /\ own[i].json = json.children[i]
      /\ SiblingsHaveNames => NamesApart(json)
  BY <1>f DEF CallsFor
<1>g. PICK next \in Seq([parent : Nat, json : J]) : next = own \o Tail(calls) /\ Follows(next, own, calls)
  BY <1>1, CallsFollow
<1>9. \A i \in 1..Len(next) :
         \/ i \in 1..Len(own) /\ next[i] = own[i]
         \/ \E c \in 2..Len(calls) :
               c \in 1..Len(calls) /\ c = i - Len(own) + 1 /\ next[i] = calls[c]
  BY <1>g DEF Follows
<1>10. ReadChild(s) = [heap |-> new, calls |-> next]
  BY <1>1, <1>2, <1>3, <1>c, <1>d, <1>e, <1>f, <1>g DEF ReadChild
<1> DEFINE Own(i) == /\ i \in 1..Len(own) /\ next[i] = own[i]
                     /\ next[i].parent = top /\ next[i].json = json.children[i]
           Other(i, c) == /\ c \in 2..Len(calls) /\ c \in 1..Len(calls) /\ c = i - Len(own) + 1
                          /\ next[i] = calls[c] /\ next[i].parent \in 1..Len(heap)
                          /\ next[i].parent # top
<1>a. ASSUME NEW i \in 1..Len(next) PROVE Own(i) \/ \E c \in 2..Len(calls) : Other(i, c)
  <2>1. CASE i \in 1..Len(own) /\ next[i] = own[i]
    BY <1>8, <2>1
  <2>2. ASSUME NEW c \in 2..Len(calls), c \in 1..Len(calls), c = i - Len(own) + 1, next[i] = calls[c]
        PROVE  Other(i, c)
    <3>1. c = i - Len(own) + 1 /\ next[i] = calls[c] /\ c \in 1..Len(calls)
      BY <2>2
    <3>2. next[i].parent \in 1..Len(heap)
      BY <1>1, <3>1
    <3>3. \A k \in 1..Len(heap) : k # top
      BY <1>2, <1>4
    <3>. QED BY <3>1, <3>2, <3>3
  <2>. QED BY <1>9, <2>1, <2>2
<1>11. \A i \in 1..Len(next) : next[i].parent \in 1..top
  <2>1. (\A k \in 1..Len(heap) : k \in 1..top) /\ top \in 1..top
    BY <1>2, <1>4
  <2>. QED BY <1>a, <2>1
<1>12. ASSUME SiblingsHaveNames PROVE NewNames(new, next)
  <2>1. NewNames(heap, calls)
    BY <1>1, <1>12
  <2>2. ASSUME NEW i \in 1..Len(next), NEW j \in 1..Len(next),
               next[i].parent = next[j].parent, next[i].json.name = next[j].json.name
        PROVE  i = j
    <3>1. CASE Own(i) /\ Own(j)
      <4>1. json.children[i].name = json.children[j].name
        BY <2>2, <3>1
      <4>. QED BY <1>8, <1>12, <3>1, <4>1 DEF NamesApart
    <3>2. ASSUME NEW c \in 2..Len(calls), NEW d \in 2..Len(calls), Other(i, c), Other(j, d)
          PROVE  i = j
      <4>1. /\ calls[c].parent = calls[d].parent /\ calls[c].json.name = calls[d].json.name
            /\ c \in 1..Len(calls) /\ d \in 1..Len(calls)
        BY <2>2, <3>2
      <4>2. c = d
        BY <2>1, <4>1 DEF NewNames
      <4>3. i \in Int /\ j \in Int /\ Len(own) \in Nat
        BY <1>8
      <4>. QED BY <3>2, <4>2, <4>3
    <3>3. (Own(i) /\ Own(j)) \/ \E c, d \in 2..Len(calls) : Other(i, c) /\ Other(j, d)
      <4>1. Own(i) \/ \E c \in 2..Len(calls) : Other(i, c)
        BY <1>a
      <4>2. Own(j) \/ \E c \in 2..Len(calls) : Other(j, c)
        BY <1>a
      <4>. QED BY <2>2, <4>1, <4>2
    <3>. QED BY <3>1, <3>2, <3>3
  <2>3. ASSUME NEW i \in 1..Len(next), NEW k \in 1..Len(new[next[i].parent].children)
        PROVE  new[new[next[i].parent].children[k]].name # next[i].json.name
    <3>1. CASE Own(i)
      <4>1. new[next[i].parent].children = <<>>
        BY <1>5, <1>6, <3>1
      <4>. QED BY <2>3, <4>1
    <3>2. CASE \E c \in 2..Len(calls) : Other(i, c)
      <4>1. PICK c \in 2..Len(calls) : c \in 1..Len(calls) /\ next[i] = calls[c]
        BY <3>2
      <4>2. PICK q \in 1..Len(heap) : q = next[i].parent
        BY <1>1, <4>1
      <4>3. \A m \in 1..Len(heap) : new[m].name = heap[m].name
        <5>1. heap[p] \in NodeSet
          BY HeapTypes
        <5>. QED BY <1>6, <5>1 DEF NodeSet
      <4>4. \A x \in 1..Len(heap[q].children) :
               heap[q].children[x] \in 1..Len(heap) /\ heap[heap[q].children[x]].name # next[i].json.name
        <5>1. ListsNodes(heap, 1)
          BY <1>1 DEF Forest
        <5>. QED BY <2>1, <4>1, <4>2, <5>1 DEF NewNames, ListsNodes
      <4>5. CASE q # p
        <5>1. new[q] = heap[q]
          BY <1>6, <4>5
        <5>2. k \in 1..Len(heap[q].children) /\ new[next[i].parent].children[k] = heap[q].children[k]
          BY <2>3, <4>2, <5>1
        <5>. QED BY <4>3, <4>4, <5>2
      <4>6. CASE q = p
        <5>1. PICK kids \in Seq(Nat) : kids = heap[p].children /\ heap[p] \in NodeSet
          BY HeapTypes
        <5>2. new[q].children = Append(kids, top) /\ heap[q].children = kids
          BY <1>6, <4>6, <5>1 DEF NodeSet
        <5>6. \A x \in 1..Len(Append(kids, top)) :
                (x \in 1..Len(kids) /\ Append(kids, top)[x] = kids[x]) \/ Append(kids, top)[x] = top
          BY AppendedLast
        <5>3. \/ k \in 1..Len(heap[q].children) /\ new[q].children[k] = heap[q].children[k]
              \/ new[q].children[k] = top
          BY <2>3, <4>2, <4>6, <5>1, <5>2, <5>6
        <5>4. CASE new[q].children[k] = top
          <6>0. /\ calls[c].parent = calls[1].parent /\ c # 1 /\ calls[1].json = json
                /\ next[i] = calls[c] /\ c \in 1..Len(calls) /\ 1 \in 1..Len(calls)
            BY <1>c, <1>3, <4>1, <4>2, <4>6
          <6>1. next[i].json.name # json.name
            BY <2>1, <6>0 DEF NewNames
          <6>. QED BY <1>5, <1>6, <4>2, <5>4, <6>1
        <5>5. CASE k \in 1..Len(heap[q].children) /\ new[q].children[k] = heap[q].children[k]
          BY <4>2, <4>3, <4>4, <5>5
        <5>. QED BY <5>3, <5>4, <5>5
      <4>. QED BY <4>5, <4>6
    <3>. QED BY <1>a, <3>1, <3>2
  <2>. QED BY <2>2, <2>3 DEF NewNames
<1>. QED BY <1>6, <1>7, <1>9, <1>10, <1>11, <1>12 DEF ReadStates

\* The tree of a file is a forest.
LEMMA FromJsonForest ==
    ASSUME NEW json, IsTree(json)
    PROVE  Forest(FromJson(json), 1)
<1>1. PICK J : json \in J /\ AreTrees(J)
  BY DEF IsTree
<1>a. PICK node : node = ReadNode(json) /\ Fresh(node, json.name)
  BY <1>1, ReadNodeType
<1>2. node \in NodeSet /\ node.children = <<>> /\ node.parent = 0
  BY <1>a DEF Fresh
<1>b. PICK own \in Seq([parent : Nat, json : J]) : own = ChildCalls(1, json) /\ CallsFor(own, 1, json)
  <2>1. 1 \in Nat
    OBVIOUS
  <2>. QED BY <1>1, <2>1, ChildCallsOf
<1>3. /\ \A i \in 1..Len(own) : own[i].parent = 1 /\ own[i].json = json.children[i]
      /\ Len(own) = Len(json.children)
      /\ SiblingsHaveNames => NamesApart(json)
  BY <1>b DEF CallsFor
<1>4. <<node>> \in Heaps /\ Len(<<node>>) = 1 /\ <<node>>[1] = node
  BY <1>2 DEF Heaps
<1>5. PICK heap \in Heaps : heap = <<node>> /\ Len(heap) = 1 /\ heap[1] = node
  BY <1>4
<1>6. \A n \in 1..1 : n = 1
  OBVIOUS
<1>7. Forest(heap, 1)
  <2>1. \A n \in 1..Len(heap) : heap[n] = node /\ 1..Len(heap[n].children) = {}
    BY <1>2, <1>5, <1>6
  <2>2. ListsNodes(heap, 1) /\ ListsOnce(heap) /\ ListsNamesApart(heap)
    BY <2>1 DEF ListsNodes, ListsOnce, ListsNamesApart
  <2>3. \A n \in 1..Len(heap) : heap[n].parent \in 0..Len(heap)
    BY <1>2, <1>5, <2>1
  <2>4. 1 \in 1..Len(heap)
    BY <1>5
  <2>. QED BY <1>5, <2>2, <2>3, <2>4, Zenon DEF Forest
<1>8. SiblingsHaveNames => NewNames(heap, own)
  <2>. SUFFICES ASSUME SiblingsHaveNames PROVE NewNames(heap, own)
    OBVIOUS
  <2>1. ASSUME NEW i \in 1..Len(own), NEW j \in 1..Len(own), own[i].json.name = own[j].json.name
        PROVE  i = j
    BY <1>3, <2>1 DEF NamesApart
  <2>2. ASSUME NEW i \in 1..Len(own) PROVE heap[own[i].parent].children = <<>>
    BY <1>2, <1>3, <1>5
  <2>3. 1..Len(<<>>) = {}
    OBVIOUS
  <2>. QED BY <2>1, <2>2, <2>3 DEF NewNames
<1>9. [heap |-> heap, calls |-> own] \in ReadStates(J)
  <2>1. \A i \in 1..Len(own) : own[i].parent \in 1..Len(heap)
    BY <1>3, <1>5
  <2>. QED BY <1>7, <1>8, <2>1 DEF ReadStates
<1>10. Recursion(ReadChild, [heap |-> heap, calls |-> own], MaxNodes) \in ReadStates(J)
  <2>1. \A s \in ReadStates(J) : s.calls # <<>> => ReadChild(s) \in ReadStates(J)
    BY <1>1, ReadChildStays
  <2>. QED BY <1>9, <2>1, MaxNodesAssumption, ReadingStays
<1>11. FromJson(json) = Recursion(ReadChild, [heap |-> heap, calls |-> own], MaxNodes).heap
  BY <1>a, <1>b, <1>5 DEF FromJson, Reading
<1>. QED BY <1>10, <1>11 DEF ReadStates

-----------------------------------------------------------------------------
(* What is done to a heap.                                                   *)

Types == {"none", "live", "freed"}

\* A node that differs in its types at most, and a heap of such nodes.
SameNode(new, node) ==
    /\ new \in NodeSet
    /\ new.name = node.name /\ new.className = node.className
    /\ new.file = node.file /\ new.children = node.children
    /\ new.parent = node.parent /\ new.virtualPath = node.virtualPath

SameNodes(new, heap) ==
    /\ new \in Heaps /\ Len(new) = Len(heap)
    /\ \A n \in 1..Len(heap) : SameNode(new[n], heap[n])

\* Only the types of a node change.
LEMMA TypesChange ==
    ASSUME NEW node \in NodeSet, NEW t \in Types, NEW new, new = [node EXCEPT !.types = t]
    PROVE  SameNode(new, node) /\ new.types = t
BY DEF NodeSet, Types, SameNode

\* A heap whose nodes are replaced is one.
LEMMA Replaced ==
    ASSUME NEW most \in Nat, NEW new, new = [n \in 1..most |-> new[n]],
           \A n \in 1..most : new[n] \in NodeSet
    PROVE  new \in Heaps /\ Len(new) = most
<1>1. new \in [1..most -> NodeSet]
  OBVIOUS
<1>. QED BY <1>1 DEF Heaps

\* clearCachedTypes forgets the types of the nodes below S and nothing else.
LEMMA ClearCachedTypesOf ==
    ASSUME NEW heap \in Heaps, NEW S
    PROVE  /\ SameNodes(ClearCachedTypes(heap, S), heap)
           /\ \A n \in 1..Len(heap) :
                ClearCachedTypes(heap, S)[n].types =
                    IF n \in Descendants(heap, S) THEN "none" ELSE heap[n].types
<1>1. PICK most \in Nat : most = Len(heap)
  BY DEF Heaps
<1> DEFINE below == Descendants(heap, S)
           new == [n \in 1..most |-> IF n \in below THEN [heap[n] EXCEPT !.types = "none"] ELSE heap[n]]
<1>2. ClearCachedTypes(heap, S) = new
  BY <1>1 DEF ClearCachedTypes
<1>. HIDE DEF below
<1>3. ASSUME NEW n \in 1..most
      PROVE  /\ new[n] \in NodeSet
             /\ SameNode(new[n], heap[n])
             /\ new[n].types = IF n \in below THEN "none" ELSE heap[n].types
  <2>1. heap[n] \in NodeSet /\ heap[n].types \in Types
    BY <1>1, HeapTypes DEF NodeSet, Types
  <2>2. "none" \in Types
    BY DEF Types
  <2>3. CASE n \in below
    <3>1. new[n] = [heap[n] EXCEPT !.types = "none"]
      BY <2>3
    <3>. HIDE DEF new
    <3>. QED BY <2>1, <2>2, <2>3, <3>1, TypesChange DEF SameNode
  <2>4. CASE n \notin below
    <3>1. new[n] = heap[n]
      BY <2>4
    <3>. HIDE DEF new
    <3>. QED BY <2>1, <2>4, <3>1 DEF SameNode
  <2>. QED BY <2>3, <2>4
<1>4. new = [n \in 1..most |-> new[n]]
  OBVIOUS
<1>. HIDE DEF new
<1>5. new \in Heaps /\ Len(new) = most
  BY <1>3, <1>4, Replaced
<1>. QED BY <1>1, <1>2, <1>3, <1>5 DEF SameNodes, below

\* The nodes of S get types and nothing else changes.
LEMMA TypedOf ==
    ASSUME NEW heap \in Heaps, NEW S
    PROVE  /\ SameNodes(Typed(heap, S), heap)
           /\ \A n \in 1..Len(heap) :
                Typed(heap, S)[n].types = IF n \in S THEN "live" ELSE heap[n].types
<1>1. PICK most \in Nat : most = Len(heap)
  BY DEF Heaps
<1> DEFINE new == [n \in 1..most |-> IF n \in S THEN [heap[n] EXCEPT !.types = "live"] ELSE heap[n]]
<1>2. Typed(heap, S) = new
  BY <1>1 DEF Typed
<1>3. ASSUME NEW n \in 1..most
      PROVE  /\ new[n] \in NodeSet
             /\ SameNode(new[n], heap[n])
             /\ new[n].types = IF n \in S THEN "live" ELSE heap[n].types
  <2>1. heap[n] \in NodeSet /\ heap[n].types \in Types
    BY <1>1, HeapTypes DEF NodeSet, Types
  <2>2. "live" \in Types
    BY DEF Types
  <2>3. CASE n \in S
    <3>1. new[n] = [heap[n] EXCEPT !.types = "live"]
      BY <2>3
    <3>. HIDE DEF new
    <3>. QED BY <2>1, <2>2, <2>3, <3>1, TypesChange DEF SameNode
  <2>4. CASE n \notin S
    <3>1. new[n] = heap[n]
      BY <2>4
    <3>. HIDE DEF new
    <3>. QED BY <2>1, <2>4, <3>1 DEF SameNode
  <2>. QED BY <2>3, <2>4
<1>4. new = [n \in 1..most |-> new[n]]
  OBVIOUS
<1>. HIDE DEF new
<1>5. new \in Heaps /\ Len(new) = most
  BY <1>3, <1>4, Replaced
<1>. QED BY <1>1, <1>2, <1>3, <1>5 DEF SameNodes

\* The heap that is left when instanceTypes is cleared.
FreedHeap(heap) == [n \in 1..Len(heap) |-> [heap[n] EXCEPT !.types = Freed(@)]]

\* Clearing instanceTypes changes types only.
LEMMA FreedOf ==
    ASSUME NEW heap \in Heaps
    PROVE  SameNodes(FreedHeap(heap), heap)
<1>1. PICK most \in Nat : most = Len(heap)
  BY DEF Heaps
<1> DEFINE new == [n \in 1..most |-> [heap[n] EXCEPT !.types = Freed(@)]]
<1>2. FreedHeap(heap) = new
  BY <1>1 DEF FreedHeap
<1>3. ASSUME NEW n \in 1..most
      PROVE  /\ new[n] \in NodeSet
             /\ SameNode(new[n], heap[n])
  <2>1. heap[n] \in NodeSet /\ heap[n].types \in Types
    BY <1>1, HeapTypes DEF NodeSet, Types
  <2>2. PICK t \in Types : t = Freed(heap[n].types)
    BY <2>1 DEF Freed, Types
  <2>3. new[n] = [heap[n] EXCEPT !.types = t]
    BY <2>2
  <2>. HIDE DEF new
  <2>. QED BY <2>1, <2>3, TypesChange DEF SameNode
<1>4. new = [n \in 1..most |-> new[n]]
  OBVIOUS
<1>. HIDE DEF new
<1>5. new \in Heaps /\ Len(new) = most
  BY <1>3, <1>4, Replaced
<1>. QED BY <1>1, <1>2, <1>3, <1>5 DEF SameNodes

\* A forest whose types change is one.
LEMMA SameNodesForest ==
    ASSUME NEW heap, NEW root, Forest(heap, root), NEW new, SameNodes(new, heap)
    PROVE  Forest(new, root)
<1>1. /\ new \in Heaps /\ Len(new) = Len(heap)
      /\ \A n \in 1..Len(heap) : /\ new[n].name = heap[n].name /\ new[n].parent = heap[n].parent
                                 /\ new[n].children = heap[n].children
  BY DEF SameNodes, SameNode
<1>2. \A n \in 1..Len(heap) : heap[n].parent \in 0..Len(heap) /\ OnceEach(heap[n].children)
  BY ForestOnceEach DEF Forest
<1>. QED BY <1>1, <1>2, ForestShrinks

\* The same nodes are below others.
LEMMA SameNodesBelow ==
    ASSUME NEW heap, NEW root, Forest(heap, root), NEW new, SameNodes(new, heap),
           NEW S \in SUBSET (1..Len(heap))
    PROVE  Descendants(new, S) = Descendants(heap, S)
<1>1. Forest(new, root)
  BY SameNodesForest
<1>2. ClosedHeap(heap) /\ ClosedHeap(new) /\ Len(new) = Len(heap)
  BY <1>1, ForestIsClosed DEF SameNodes
<1>3. \A n \in 1..Len(heap) : ChildrenOf(new, n) = ChildrenOf(heap, n)
  BY DEF SameNodes, SameNode, ChildrenOf
<1>4. \A T : ShutIn(new, T) <=> ShutIn(heap, T)
  BY <1>2, <1>3 DEF ShutIn
<1>5. LeastShut(new, S) = LeastShut(heap, S)
  BY <1>2, <1>4 DEF LeastShut
<1>. QED BY <1>2, <1>5, DescendantsAreLeast

-----------------------------------------------------------------------------
(* The studio plugin's instances.                                            *)

\* What stays of a node's children.
Shrinks(new, node) ==
    /\ new \in NodeSet /\ new.name = node.name /\ new.parent = node.parent
    /\ OnceEach(new.children)
    /\ \A i \in 1..Len(new.children) : \E j \in 1..Len(node.children) : new.children[i] = node.children[j]

\* A forest whose nodes lose children is one.
LEMMA ShrunkForest ==
    ASSUME NEW heap, NEW root, Forest(heap, root), NEW new, NEW most \in Nat, most = Len(heap),
           new = [n \in 1..most |-> new[n]],
           \A n \in 1..most : Shrinks(new[n], heap[n])
    PROVE  Forest(new, root) /\ Len(new) = most
<1>1. new \in Heaps /\ Len(new) = most
  BY Replaced DEF Shrinks
<1>2. \A n \in 1..Len(heap) :
         /\ new[n].name = heap[n].name
         /\ new[n].parent \in 0..Len(heap)
         /\ OnceEach(new[n].children)
         /\ \A i \in 1..Len(new[n].children) :
               \E j \in 1..Len(heap[n].children) : new[n].children[i] = heap[n].children[j]
  BY DEF Shrinks, Forest
<1>3. Len(new) = Len(heap)
  BY <1>1
<1>. QED BY <1>1, <1>2, <1>3, ForestShrinks

\* A node whose types change loses no child.
LEMMA SameShrinks ==
    ASSUME NEW heap, NEW root, Forest(heap, root), NEW n \in 1..Len(heap), NEW new,
           SameNode(new, heap[n])
    PROVE  Shrinks(new, heap[n])
<1>1. OnceEach(heap[n].children)
  BY ForestOnceEach
<1>. QED BY <1>1 DEF SameNode, Shrinks

\* A node loses the children that are not kept.
LEMMA KeptShrinks ==
    ASSUME NEW heap, NEW root, Forest(heap, root), NEW n \in 1..Len(heap), NEW stay, NEW new \in NodeSet,
           new.name = heap[n].name, new.parent = heap[n].parent,
           new.children = Kept(heap[n].children, stay)
    PROVE  Shrinks(new, heap[n])
<1>1. OnceEach(heap[n].children) /\ heap[n].children \in Seq(Nat)
  BY ForestOnceEach, HeapTypes DEF Forest
<1>2. PICK kids \in Seq(Nat) :
         /\ kids = Kept(heap[n].children, stay) /\ OnceEach(kids)
         /\ \A i \in 1..Len(kids) : \E j \in 1..Len(heap[n].children) : kids[i] = heap[n].children[j]
  <2>1. PICK seq \in Seq(Nat) : seq = heap[n].children
    BY <1>1
  <2>2. Kept(seq, stay) \in Seq(Nat) /\ KeptFrom(Kept(seq, stay), seq, stay)
    BY KeptElements
  <2>. QED BY <1>1, <2>1, <2>2 DEF KeptFrom
<1>. QED BY <1>2 DEF Shrinks

\* A node that follows the plugin's instance leaves a forest.
LEMMA HydratedForest ==
    ASSUME NEW heap, NEW root, Forest(heap, root), NEW n \in 1..Len(heap),
           NEW J, AreTrees(J), NEW info \in J
    PROVE  Forest(Hydrated(heap, n, info), root) /\ Len(Hydrated(heap, n, info)) = Len(heap)
<1>1. heap \in Heaps
  BY DEF Forest
<1>2. PICK most \in Nat : most = Len(heap)
  BY <1>1 DEF Heaps
<1> DEFINE names == {info.children[i].name : i \in 1..Len(info.children)}
           gone == {c \in ChildrenOf(heap, n) : IsPruned(heap, c, names)}
           stay == ChildrenOf(heap, n) \ gone
<1>3. PICK clear : clear = ClearCachedTypes(heap, gone) /\ SameNodes(clear, heap)
  BY <1>1, ClearCachedTypesOf
<1>4. PICK file : file = IF heap[n].pluginManaged \/ info.file # NoFile THEN info.file ELSE clear[n].file
  OBVIOUS
<1>5. PICK className : className = IF heap[n].pluginManaged THEN info.className ELSE clear[n].className
  OBVIOUS
<1>6. PICK kids : kids = Kept(clear[n].children, stay)
  OBVIOUS
<1>7. Hydrated(heap, n, info) = [clear EXCEPT ![n].file = file, ![n].className = className, ![n].children = kids]
  BY <1>3, <1>4, <1>5, <1>6 DEF Hydrated
<1>. HIDE DEF stay
<1>8. /\ clear \in Heaps /\ Len(clear) = most /\ clear[n] \in NodeSet /\ SameNode(clear[n], heap[n])
      /\ clear = [m \in 1..most |-> clear[m]]
  <2>1. clear \in Heaps /\ Len(clear) = most /\ SameNode(clear[n], heap[n])
    BY <1>2, <1>3 DEF SameNodes
  <2>2. clear[n] \in NodeSet
    BY <2>1 DEF SameNode
  <2>3. clear = [m \in 1..most |-> clear[m]]
    BY <2>1 DEF Heaps
  <2>. QED BY <2>1, <2>2, <2>3
<1>9. file \in Text /\ className \in Text
  <2>1. clear[n].file \in Text /\ clear[n].className \in Text
    BY <1>8 DEF NodeSet
  <2>2. info.file \in Text /\ info.className \in Text
    BY DEF AreTrees
  <2>. QED BY <1>4, <1>5, <2>1, <2>2, Zenon
<1>10. kids \in Seq(Nat) /\ kids = Kept(heap[n].children, stay)
  <2>1. heap[n].children \in Seq(Nat) /\ clear[n].children = heap[n].children
    BY <1>1, <1>8, HeapTypes DEF SameNode
  <2>. QED BY <1>6, <2>1, KeptElements
<1>11. PICK new : new = [clear[n] EXCEPT !.file = file, !.className = className, !.children = kids]
  OBVIOUS
<1>12. new \in NodeSet /\ new.name = heap[n].name /\ new.parent = heap[n].parent /\ new.children = kids
  <2>1. PICK node \in NodeSet : node = clear[n]
    BY <1>8
  <2>2. new \in NodeSet /\ new.name = node.name /\ new.parent = node.parent /\ new.children = kids
    <3>1. new = [node EXCEPT !.file = file, !.className = className, !.children = kids]
      BY <1>11, <2>1
    <3>. QED BY <1>9, <1>10, <3>1 DEF NodeSet
  <2>. QED BY <1>8, <2>1, <2>2 DEF SameNode
<1>13. Hydrated(heap, n, info) = [m \in 1..most |-> IF m = n THEN new ELSE clear[m]]
  BY <1>7, <1>8, <1>11
<1> DEFINE result == [m \in 1..most |-> IF m = n THEN new ELSE clear[m]]
<1>14. ASSUME NEW m \in 1..most PROVE Shrinks(result[m], heap[m])
  <2>1. CASE m = n
    <3>1. Shrinks(new, heap[n])
      BY <1>10, <1>12, KeptShrinks
    <3>. QED BY <2>1, <3>1
  <2>2. CASE m # n
    <3>1. SameNode(clear[m], heap[m])
      BY <1>2, <1>3 DEF SameNodes
    <3>2. Shrinks(clear[m], heap[m])
      BY <1>2, <3>1, SameShrinks
    <3>. QED BY <2>2, <3>2
  <2>. QED BY <2>1, <2>2
<1>15. result = [m \in 1..most |-> result[m]]
  OBVIOUS
<1>. HIDE DEF result
<1>16. Forest(result, root) /\ Len(result) = most
  BY <1>2, <1>14, <1>15, ShrunkForest
<1>. QED BY <1>2, <1>13, <1>16 DEF result

\* A child of that name is found, if there is one.
LEMMA FindChildOf ==
    ASSUME NEW heap, NEW root, Forest(heap, root), NEW p \in 1..Len(heap), NEW name
    PROVE  \/ /\ FindChild(heap, p, name) = Null
              /\ \A i \in 1..Len(heap[p].children) : heap[heap[p].children[i]].name # name
           \/ FindChild(heap, p, name) # Null /\ FindChild(heap, p, name) \in 1..Len(heap)
<1> DEFINE at == {i \in 1..Len(heap[p].children) : heap[heap[p].children[i]].name = name}
           first == CHOOSE i \in at : \A j \in at : i <= j
<1>1. heap \in Heaps /\ ListsNodes(heap, root) /\ Len(heap[p].children) \in Nat /\ Len(heap) \in Nat
  BY HeapTypes DEF Forest
<1>2. FindChild(heap, p, name) = IF at = {} THEN Null ELSE heap[p].children[first]
  BY DEF FindChild
<1>3. CASE at = {}
  <2>1. \A i \in 1..Len(heap[p].children) : heap[heap[p].children[i]].name # name
    BY <1>3
  <2>. QED BY <1>2, <1>3, <2>1
<1>4. CASE at # {}
  <2>1. at \subseteq Nat
    BY <1>1
  <2>2. PICK i \in at : \A j \in at : ~ <<j, i>> \in OpToRel(<, Nat)
    BY <1>4, <2>1, WFMin, NatLessThanWellFounded, Zenon
  <2>3. \A j \in at : i <= j
    <3>1. ASSUME NEW j \in at, j < i PROVE FALSE
      <4>1. <<j, i>> \in OpToRel(<, Nat)
        BY <2>1, <3>1 DEF OpToRel
      <4>. QED BY <2>2, <4>1
    <3>. QED BY <2>1, <3>1
  <2>4. first \in at
    <3>. HIDE DEF at
    <3>. QED BY <2>3
  <2>5. heap[p].children[first] \in 1..Len(heap)
    <3>. HIDE DEF first
    <3>. QED BY <1>1, <2>4 DEF ListsNodes
  <2>6. FindChild(heap, p, name) = heap[p].children[first]
    BY <1>2, <1>4
  <2>. HIDE DEF first, at
  <2>. QED BY <1>1, <2>5, <2>6 DEF Null
<1>. QED BY <1>3, <1>4

MutateStates(J, root) ==
    {s \in [heap : Heaps, updated : Flags, calls : Seq([parent : Nat, json : J])] :
        /\ Forest(s.heap, root)
        /\ \A i \in 1..Len(s.calls) : s.calls[i].parent \in 1..Len(s.heap)}

\* Merging one more of the plugin's instances leaves a forest.
LEMMA MutateChildStays ==
    ASSUME NEW J, AreTrees(J), NEW root, NEW s \in MutateStates(J, root), s.calls # <<>>
    PROVE  MutateChild(s) \in MutateStates(J, root)
<1>1. PICK heap \in Heaps, calls \in Seq([parent : Nat, json : J]) :
         /\ heap = s.heap /\ calls = s.calls /\ Forest(heap, root) /\ calls # <<>>
         /\ \A i \in 1..Len(calls) : calls[i].parent \in 1..Len(heap)
  BY DEF MutateStates
<1>2. PICK top \in Nat : top = Len(heap) + 1
  BY <1>1 DEF Heaps
<1>3. Head(calls) = calls[1] /\ 1 \in 1..Len(calls) /\ calls[1] \in [parent : Nat, json : J]
  BY <1>1, FirstOf
<1>4. PICK p \in 1..Len(heap), info \in J : calls[1].parent = p /\ calls[1].json = info
  BY <1>1, <1>3
<1>5. Len(heap) \in Nat
  BY DEF Heaps
<1> DEFINE existing == FindChild(heap, p, info.name)
<1>6. PICK child : child = IF existing = Null THEN Len(heap) + 1 ELSE existing
  OBVIOUS
<1>7. PICK found : found = IF existing # Null THEN heap
                           ELSE AddChild(heap, p, Node(info.name, info.className, NoFile, TRUE))
  OBVIOUS
<1>8. /\ Forest(found, root) /\ child \in 1..Len(found) /\ child \in Nat
      /\ Len(heap) <= Len(found) /\ Len(found) \in Nat
  <2>1. CASE existing # Null
    <3>1. existing \in 1..Len(heap)
      BY <1>1, <2>1, FindChildOf
    <3>. HIDE DEF existing
    <3>. QED BY <1>1, <1>5, <1>6, <1>7, <2>1, <3>1
  <2>2. CASE existing = Null
    <3>1. \A i \in 1..Len(heap[p].children) : heap[heap[p].children[i]].name # info.name
      BY <1>1, <2>2, FindChildOf
    <3>2. info.name \in Text /\ info.className \in Text
      BY DEF AreTrees
    <3>3. NoFile \in Text /\ TRUE \in Flags
      BY DEF Text, Flags
    <3>a. PICK node : node = Node(info.name, info.className, NoFile, TRUE) /\ Fresh(node, info.name)
      BY <3>2, <3>3, NodeType
    <3>4. node \in NodeSet /\ node.name = info.name /\ node.children = <<>> /\ node.parent = 0
      BY <3>a DEF Fresh
    <3>5. PICK new : new = AddChild(heap, p, node) /\ Added(new, heap, p, node, top)
      BY <1>2, <3>4, AddChildFields
    <3>6. Forest(AddChild(heap, p, node), root)
      <4>1. \A i \in 1..Len(heap[p].children) : heap[heap[p].children[i]].name # node.name
        BY <3>1, <3>4
      <4>2. Forest(heap, root)
        BY <1>1
      <4>. QED BY <3>4, <4>1, <4>2, AddChildForest
    <3>7. found = new /\ child = top
      BY <1>2, <1>6, <1>7, <2>2, <3>a, <3>5
    <3>8. Len(new) = top
      BY <3>5 DEF Added
    <3>. QED BY <1>2, <1>5, <3>5, <3>6, <3>7, <3>8
  <2>. QED BY <2>1, <2>2
<1>9. PICK after : after = Hydrated(found, child, info)
  OBVIOUS
<1>10. Forest(after, root) /\ Len(after) = Len(found)
  BY <1>8, <1>9, HydratedForest
<1>11. PICK own \in Seq([parent : Nat, json : J]) : own = ChildCalls(child, info) /\ CallsFor(own, child, info)
  BY <1>8, ChildCallsOf
<1>12. PICK next \in Seq([parent : Nat, json : J]) : next = own \o Tail(calls) /\ Follows(next, own, calls)
  BY <1>1, CallsFollow
<1>13. PICK updated \in Flags : updated = (s.updated \/ after # s.heap)
  BY Zenon DEF Flags
<1>14. MutateChild(s) = [heap |-> after, updated |-> updated, calls |-> next]
  <2>1. s.heap = heap /\ s.calls = calls /\ Head(calls).parent = p /\ Head(calls).json = info
    BY <1>1, <1>3, <1>4
  <2>. QED BY <1>6, <1>7, <1>9, <1>11, <1>12, <1>13, <2>1, Zenon DEF MutateChild
<1>15. ASSUME NEW i \in 1..Len(next) PROVE next[i].parent \in 1..Len(after)
  <2>1. CASE i \in 1..Len(own) /\ next[i] = own[i]
    BY <1>8, <1>10, <1>11, <2>1 DEF CallsFor
  <2>2. CASE \E c \in 2..Len(calls) : c \in 1..Len(calls) /\ c = i - Len(own) + 1 /\ next[i] = calls[c]
    <3>1. PICK c \in 1..Len(calls) : next[i] = calls[c]
      BY <2>2
    <3>2. next[i].parent \in 1..Len(heap)
      BY <1>1, <3>1
    <3>3. Len(after) = Len(found)
      BY <1>10
    <3>4. 1..Len(heap) \subseteq 1..Len(found)
      BY <1>5, <1>8
    <3>. QED BY <3>2, <3>3, <3>4
  <2>. QED BY <1>12, <2>1, <2>2 DEF Follows
<1>16. after \in Heaps
  BY <1>10 DEF Forest
<1> DEFINE new == [heap |-> after, updated |-> updated, calls |-> next]
<1>17. /\ new \in [heap : Heaps, updated : Flags, calls : Seq([parent : Nat, json : J])]
       /\ new.heap = after /\ new.calls = next
  BY <1>16
<1>. HIDE DEF new
<1>18. new \in MutateStates(J, root)
  BY <1>10, <1>15, <1>17 DEF MutateStates
<1>. QED BY <1>14, <1>18 DEF new

\* A tree the plugin's is merged into is a forest.
LEMMA MutateForest ==
    ASSUME NEW heap, NEW root, Forest(heap, root), NEW info, IsTree(info)
    PROVE  Forest(Mutate(heap, root, info).heap, root)
<1>1. PICK J : info \in J /\ AreTrees(J)
  BY DEF IsTree
<1>2. root \in 1..Len(heap) /\ root \in Nat
  BY HeapTypes DEF Forest
<1>3. PICK self : self = Hydrated(heap, root, info)
  OBVIOUS
<1>4. Forest(self, root) /\ Len(self) = Len(heap) /\ self \in Heaps
  <2>1. Forest(self, root) /\ Len(self) = Len(heap)
    BY <1>1, <1>2, <1>3, HydratedForest
  <2>. QED BY <2>1 DEF Forest
<1>5. PICK own \in Seq([parent : Nat, json : J]) : own = ChildCalls(root, info) /\ CallsFor(own, root, info)
  BY <1>1, <1>2, ChildCallsOf
<1>6. PICK updated \in Flags : updated = (self # heap)
  BY Zenon DEF Flags
<1> DEFINE first == [heap |-> self, updated |-> updated, calls |-> own]
<1>7. first \in MutateStates(J, root)
  <2>1. \A i \in 1..Len(own) : own[i].parent \in 1..Len(self)
    BY <1>2, <1>4, <1>5 DEF CallsFor
  <2>. QED BY <1>4, <2>1 DEF MutateStates
<1>. HIDE DEF first
<1>8. Recursion(MutateChild, first, MaxNodes) \in MutateStates(J, root)
  <2>1. \A s \in MutateStates(J, root) : s.calls # <<>> => MutateChild(s) \in MutateStates(J, root)
    BY <1>1, MutateChildStays
  <2>. QED BY <1>7, <2>1, MaxNodesAssumption, MutatingStays
<1>9. Mutate(heap, root, info) = Recursion(MutateChild, first, MaxNodes)
  BY <1>3, <1>5, <1>6, Zenon DEF Mutate, first
<1>. QED BY <1>8, <1>9 DEF MutateStates

\* A tree the plugin's instances left is a forest.
LEMMA ClearedForest ==
    ASSUME NEW heap, NEW root, Forest(heap, root)
    PROVE  Forest(ClearPluginManaged(heap, root), root)
<1>1. heap \in Heaps
  BY DEF Forest
<1>2. PICK most \in Nat : most = Len(heap)
  BY <1>1 DEF Heaps
<1> DEFINE own == {n \in 1..most : ~heap[n].pluginManaged}
           kept == [n \in 1..most |-> [heap[n] EXCEPT !.children = Kept(@, own)]]
           stay == Subtree(kept, root)
           before == Subtree(heap, root)
           result == [n \in 1..most |->
                        IF n \in stay THEN kept[n]
                        ELSE IF n \in before THEN [heap[n] EXCEPT !.types = "none"] ELSE heap[n]]
<1>3. ClearPluginManaged(heap, root) = result
  BY <1>2 DEF ClearPluginManaged
<1>4. ASSUME NEW n \in 1..most PROVE Shrinks(kept[n], heap[n])
  <2>. HIDE DEF own
  <2>1. PICK kids : kids = Kept(heap[n].children, own)
    OBVIOUS
  <2>2. kids \in Seq(Nat) /\ heap[n] \in NodeSet
    BY <1>1, <1>2, <2>1, HeapTypes, KeptElements
  <2>3. PICK new : new = [heap[n] EXCEPT !.children = kids]
    OBVIOUS
  <2>4. kept[n] = new
    BY <2>1, <2>3
  <2>5. new \in NodeSet /\ new.name = heap[n].name /\ new.parent = heap[n].parent /\ new.children = kids
    BY <2>2, <2>3 DEF NodeSet
  <2>. HIDE DEF kept
  <2>. QED BY <1>2, <2>1, <2>4, <2>5, KeptShrinks
<1>. HIDE DEF kept, stay, before
<1>5. ASSUME NEW n \in 1..most PROVE Shrinks(result[n], heap[n])
  <2>1. heap[n] \in NodeSet /\ "none" \in Types
    BY <1>1, <1>2, HeapTypes DEF Types
  <2>2. CASE n \in stay
    <3>1. result[n] = kept[n]
      BY <2>2
    <3>. HIDE DEF result
    <3>. QED BY <1>4, <3>1
  <2>3. CASE n \notin stay /\ n \in before
    <3>1. result[n] = [heap[n] EXCEPT !.types = "none"]
      BY <2>3
    <3>. HIDE DEF result
    <3>2. SameNode(result[n], heap[n])
      BY <2>1, <3>1, TypesChange
    <3>. QED BY <1>2, <3>2, SameShrinks
  <2>4. CASE n \notin stay /\ n \notin before
    <3>1. result[n] = heap[n]
      BY <2>4
    <3>. HIDE DEF result
    <3>2. SameNode(result[n], heap[n])
      BY <2>1, <3>1 DEF SameNode
    <3>. QED BY <1>2, <3>2, SameShrinks
  <2>. QED BY <2>2, <2>3, <2>4
<1>6. result = [n \in 1..most |-> result[n]]
  OBVIOUS
<1>. HIDE DEF result
<1>7. Forest(result, root)
  BY <1>2, <1>5, <1>6, ShrunkForest
<1>. QED BY <1>3, <1>7

-----------------------------------------------------------------------------
(* Writing the paths.                                                        *)

\* The states of the recursion, one after the other.
Writes(after, first, most) ==
    /\ after[0] = first
    /\ \A k \in 1..most : after[k] = IF after[k - 1].calls = <<>> THEN after[k - 1]
                                     ELSE WriteNode(after[k - 1])

\* Writing paths goes from state to state.
LEMMA WritingUnfolds ==
    ASSUME NEW first, NEW most \in Nat
    PROVE  \E after : Recursion(WriteNode, first, most) = after[most] /\ Writes(after, first, most)
<1> DEFINE Step(s) == IF s.calls = <<>> THEN s ELSE WriteNode(s)
           Chain(f, k) == f[0] = first /\ \A j \in 1..k : f[j] = Step(f[j - 1])
           Good(k) == \E f : Chain(f, k)
           Bad == {k \in 0..most : ~Good(k)}
           Solves(f) == f = [k \in 0..most |-> IF k = 0 THEN first ELSE Step(f[k - 1])]
           after == CHOOSE f : Solves(f)
<1>1. Recursion(WriteNode, first, most) = after[most]
  BY DEF Recursion
<1>2. \A s : Step(s) = IF s.calls = <<>> THEN s ELSE WriteNode(s)
  OBVIOUS
<1>. HIDE DEF Step
<1>3. 0 \notin Bad
  <2> DEFINE f == [j \in 0..0 |-> first]
  <2>1. f[0] = first /\ 1..0 = {}
    OBVIOUS
  <2>2. Good(0)
    <3>. HIDE DEF f
    <3>. QED BY <2>1
  <2>. HIDE DEF Good
  <2>. QED BY <2>2
<1>4. ASSUME NEW k \in 1..most, Good(k - 1) PROVE Good(k)
  <2>1. PICK f : Chain(f, k - 1)
    BY <1>4
  <2> DEFINE g == [j \in 0..k |-> IF j = k THEN Step(f[k - 1]) ELSE f[j]]
  <2>2. g[k] = Step(f[k - 1]) /\ \A j \in 0..(k - 1) : g[j] = f[j]
    OBVIOUS
  <2>. HIDE DEF g
  <2>3. g[0] = first
    BY <2>1, <2>2
  <2>4. ASSUME NEW j \in 1..k PROVE g[j] = Step(g[j - 1])
    <3>1. CASE j = k
      <4>1. g[j - 1] = f[k - 1]
        BY <2>2, <3>1
      <4>. QED BY <2>2, <3>1, <4>1
    <3>2. CASE j \in 1..(k - 1)
      <4>1. g[j - 1] = f[j - 1] /\ g[j] = f[j]
        BY <2>2, <3>2
      <4>2. f[j] = Step(f[j - 1])
        BY <2>1, <3>2
      <4>. QED BY <4>1, <4>2
    <3>. QED BY <3>1, <3>2
  <2>. QED BY <2>3, <2>4
<1>5. Good(most)
  <2>. HIDE DEF Good
  <2>1. \A k \in 1..most : k \in Bad => k - 1 \in Bad
    BY <1>4
  <2>2. Bad = {}
    BY <1>3, <2>1, UpTo
  <2>. QED BY <2>2
<1>6. PICK f : Chain(f, most)
  BY <1>5
<1> DEFINE g == [k \in 0..most |-> f[k]]
<1>7. Solves(g)
  <2>1. ASSUME NEW k \in 0..most PROVE g[k] = IF k = 0 THEN first ELSE Step(g[k - 1])
    <3>1. CASE k = 0
      BY <1>6, <3>1
    <3>2. CASE k \in 1..most
      <4>1. k - 1 \in 0..most /\ f[k] = Step(f[k - 1]) /\ k # 0
        BY <1>6, <3>2
      <4>2. g[k] = f[k] /\ g[k - 1] = f[k - 1]
        BY <4>1
      <4>. HIDE DEF g
      <4>. QED BY <4>1, <4>2
    <3>. QED BY <3>1, <3>2
  <2>2. g = [k \in 0..most |-> g[k]]
    OBVIOUS
  <2>. HIDE DEF g, after, Chain, Good, Bad
  <2>. QED BY <2>1, <2>2
<1>8. Solves(after)
  <2>. HIDE DEF Solves, g
  <2>. QED BY <1>7
<1>. HIDE DEF after
<1>9. Writes(after, first, most)
  <2>1. \A k \in 1..most : k \in 0..most /\ k # 0
    OBVIOUS
  <2>2. after = [k \in 0..most |-> IF k = 0 THEN first ELSE Step(after[k - 1])]
    BY <1>8
  <2>. HIDE DEF Solves
  <2>3. \A k \in 0..most : after[k] = IF k = 0 THEN first ELSE Step(after[k - 1])
    BY <2>2
  <2>4. after[0] = first
    <3>1. 0 \in 0..most
      OBVIOUS
    <3>2. after[0] = IF 0 = 0 THEN first ELSE Step(after[0 - 1])
      BY <2>3, <3>1, Zenon
    <3>. QED BY <3>2, Zenon
  <2>5. \A k \in 1..most : after[k] = Step(after[k - 1])
    BY <2>1, <2>3
  <2>. QED BY <1>2, <2>4, <2>5 DEF Writes
<1>. QED BY <1>1, <1>9

-----------------------------------------------------------------------------

\* In a forest a node is the child of one node, and the root of none.
LEMMA OneParent ==
    ASSUME NEW heap, NEW root, Forest(heap, root), NEW a \in 1..Len(heap), NEW b \in 1..Len(heap), NEW c,
           c \in ChildrenOf(heap, a)
    PROVE  /\ c # root /\ c \in 1..Len(heap)
           /\ c \in ChildrenOf(heap, b) => a = b
<1>1. heap \in Heaps /\ ListsNodes(heap, root) /\ ListsOnce(heap)
  BY DEF Forest
<1>0. /\ ChildrenOf(heap, a) = {heap[a].children[i] : i \in 1..Len(heap[a].children)}
      /\ ChildrenOf(heap, b) = {heap[b].children[i] : i \in 1..Len(heap[b].children)}
  BY <1>1, HeapTypes
<1>2. PICK i \in 1..Len(heap[a].children) : heap[a].children[i] = c
  BY <1>0
<1>3. ASSUME c \in ChildrenOf(heap, b) PROVE a = b
  <2>1. PICK j \in 1..Len(heap[b].children) : heap[b].children[j] = c
    BY <1>0, <1>3
  <2>. QED BY <1>1, <1>2, <2>1 DEF ListsOnce
<1>. QED BY <1>1, <1>2, <1>3 DEF ListsNodes

\* A heap whose nodes are elsewhere at most.
Moved(new, heap) ==
    /\ new \in Heaps /\ Len(new) = Len(heap)
    /\ \A n \in 1..Len(heap) :
         /\ new[n].name = heap[n].name /\ new[n].file = heap[n].file
         /\ new[n].children = heap[n].children
         /\ new[n].parent \in 0..Len(heap)

\* Where n is: under a node of V, or the root.
Place(h, heap, root, V, n, parent, path) ==
    /\ parent \in 0..Len(heap)
    /\ n = root => Len(path) = 1
    /\ n # root => /\ parent \in V /\ n \in ChildrenOf(heap, parent)
                   /\ path = Append(h[parent].virtualPath, heap[n].name)

Placed(h, heap, root, V) ==
    \A n \in V : Place(h, heap, root, V, n, h[n].parent, h[n].virtualPath)

\* The maps have the nodes of V.
Mapped(h, V, virtual, real) ==
    /\ DOMAIN virtual = {h[n].virtualPath : n \in V}
    /\ \A path \in DOMAIN virtual : virtual[path] \in V /\ h[virtual[path]].virtualPath = path
    /\ DOMAIN real = {h[n].file : n \in V} \ {NoFile}
    /\ \A file \in DOMAIN real : real[file] \in V /\ h[real[file]].file = file

Calls == [node : Nat, parent : Nat, path : Seq(Text), context : Text]

\* The calls to be made are for other nodes, each once.
Waiting(h, heap, root, V, calls) ==
    /\ \A i \in 1..Len(calls) :
         /\ calls[i].node \in LeastShut(heap, {root}) /\ calls[i].node \notin V
         /\ Place(h, heap, root, V, calls[i].node, calls[i].parent, calls[i].path)
    /\ \A i, j \in 1..Len(calls) : calls[i].node = calls[j].node => i = j

\* The root and what is below V is in V, or is waited for.
Reached(heap, root, V, calls) ==
    /\ root \in V \/ \E i \in 1..Len(calls) : calls[i].node = root
    /\ \A v \in V : \A c \in ChildrenOf(heap, v) : c \in V \/ \E i \in 1..Len(calls) : calls[i].node = c

\* What holds when the nodes of V have been written.
Wrote(s, heap, root, V) ==
    /\ Moved(s.heap, heap)
    /\ V \subseteq LeastShut(heap, {root})
    /\ Placed(s.heap, heap, root, V)
    /\ Mapped(s.heap, V, s.virtual, s.real)
    /\ s.calls \in Seq(Calls)
    /\ Waiting(s.heap, heap, root, V, s.calls)
    /\ Reached(heap, root, V, s.calls)

\* The node that is written next.
Moves(new, h, n, parent, path) ==
    /\ \A m \in 1..Len(h) : m # n => new[m] = h[m]
    /\ new[n].parent = parent /\ new[n].virtualPath = path

CallsBelow(own, h, n, path) ==
    /\ Len(own) = Len(h[n].children)
    /\ \A i \in 1..Len(own) : /\ own[i].node = h[n].children[i] /\ own[i].parent = n
                              /\ own[i].path = Append(path, h[h[n].children[i]].name)

\* What scriptContext is.
LEMMA ContextsAreText ==
    ASSUME NEW node \in NodeSet, NEW above \in Text
    PROVE  OwnContext(node, above) \in Text /\ ChildContext(node, above) \in Text
<1>1. "Server" \in Text /\ "Client" \in Text
  BY DEF Text
<1>. QED BY <1>1 DEF OwnContext, ChildContext

WritesNode(s, heap, call, calls, own, new, next) ==
    /\ Moved(new, heap)
    /\ Moves(new, s.heap, call.node, call.parent, call.path)
    /\ CallsBelow(own, heap, call.node, call.path)
    /\ Follows(next, own, calls) /\ Remain(next, own, calls)
    /\ WriteNode(s).heap = new /\ WriteNode(s).calls = next
    /\ WriteNode(s).virtual = Put(s.virtual, call.path, call.node)
    /\ WriteNode(s).real = IF heap[call.node].file = NoFile THEN s.real
                           ELSE Put(s.real, heap[call.node].file, call.node)

\* One call of writePathsToMap writes the node it is for and calls its children.
LEMMA WriteNodeDoes ==
    ASSUME NEW heap, NEW root, Forest(heap, root), NEW s, Moved(s.heap, heap), NEW calls \in Seq(Calls),
           s.calls = calls, calls # <<>>, calls[1].node \in 1..Len(heap), calls[1].parent \in 0..Len(heap)
    PROVE  \E own \in Seq(Calls), next \in Seq(Calls), new \in Heaps :
              WritesNode(s, heap, calls[1], calls, own, new, next)
<1>1. PICK h \in Heaps : h = s.heap
  BY DEF Moved
<1>2. PICK most \in Nat : most = Len(heap) /\ most = Len(h)
  BY <1>1 DEF Moved, Heaps
<1>3. Head(calls) = calls[1] /\ 1 \in 1..Len(calls) /\ calls[1] \in Calls
  BY FirstOf
<1>4. PICK n \in 1..most, parent \in 0..most, path \in Seq(Text), context \in Text :
         /\ calls[1].node = n /\ calls[1].parent = parent
         /\ calls[1].path = path /\ calls[1].context = context
  BY <1>2, <1>3 DEF Calls
<1>5. h[n] \in NodeSet /\ heap[n] \in NodeSet /\ heap[n].children = h[n].children /\ heap[n].file = h[n].file
  BY <1>1, <1>2, HeapTypes DEF Moved, Forest
<1>a. parent \in Nat
  BY <1>2
<1>6. PICK mine \in Text, theirs \in Text :
         mine = OwnContext(h[n], context) /\ theirs = ChildContext(h[n], context)
  BY <1>5, ContextsAreText
<1> DEFINE place == [h[n] EXCEPT !.virtualPath = path, !.parent = parent, !.scriptContext = mine]
           new == [h EXCEPT ![n].virtualPath = path, ![n].parent = parent, ![n].scriptContext = mine]
           kids == h[n].children
           own == [i \in 1..Len(kids) |->
                     [node |-> kids[i], parent |-> n, path |-> Append(path, h[kids[i]].name), context |-> theirs]]
<1>7. place \in NodeSet /\ place.virtualPath = path /\ place.parent = parent
      /\ place.name = h[n].name /\ place.file = h[n].file /\ place.children = h[n].children
  BY <1>5, <1>6, <1>a DEF NodeSet
<1>8. new = [h EXCEPT ![n] = place]
  OBVIOUS
<1>. HIDE DEF place, new
<1>9. new \in Heaps /\ Len(new) = most /\ new[n] = place /\ \A m \in 1..most : m # n => new[m] = h[m]
  BY <1>2, <1>7, <1>8 DEF Heaps
<1>10. Moved(new, heap)
  <2>1. ASSUME NEW m \in 1..Len(heap)
        PROVE  /\ new[m].name = heap[m].name /\ new[m].file = heap[m].file
               /\ new[m].children = heap[m].children
               /\ new[m].parent \in 0..Len(heap)
    <3>1. /\ h[m].name = heap[m].name /\ h[m].file = heap[m].file
          /\ h[m].children = heap[m].children
          /\ h[m].parent \in 0..Len(heap)
      BY <1>1 DEF Moved
    <3>. QED BY <1>2, <1>7, <1>9, <3>1
  <2>. QED BY <1>2, <1>9, <2>1 DEF Moved
<1>11. Moves(new, h, n, parent, path)
  BY <1>2, <1>7, <1>9 DEF Moves
<1>12. own \in Seq(Calls) /\ CallsBelow(own, heap, n, path)
  <2>1. PICK len \in Nat : len = Len(kids)
    BY <1>2, HeapTypes
  <2>2. ASSUME NEW i \in 1..len
        PROVE  /\ kids[i] \in Nat /\ kids[i] \in 1..most /\ h[kids[i]].name = heap[kids[i]].name
               /\ Append(path, h[kids[i]].name) \in Seq(Text)
    <3>1. kids[i] \in 1..most
      BY <1>2, <1>5, <2>1 DEF Forest, ListsNodes
    <3>2. h[kids[i]].name \in Text /\ h[kids[i]].name = heap[kids[i]].name
      BY <1>1, <1>2, <3>1, HeapTypes DEF Moved
    <3>3. Append(path, h[kids[i]].name) \in Seq(Text)
      BY <3>2
    <3>. QED BY <1>2, <3>1, <3>2, <3>3
  <2>3. ASSUME NEW i \in 1..len
        PROVE  /\ own[i] \in Calls /\ own[i].node = heap[n].children[i] /\ own[i].parent = n
               /\ own[i].path = Append(path, heap[heap[n].children[i]].name)
    <3>1. own[i] = [node |-> kids[i], parent |-> n, path |-> Append(path, h[kids[i]].name), context |-> theirs]
      BY <2>1
    <3>2. n \in Nat
      BY <1>2
    <3>. HIDE DEF own
    <3>. QED BY <1>5, <1>6, <2>2, <3>1, <3>2 DEF Calls
  <2>4. own = [i \in 1..len |-> own[i]]
    BY <2>1
  <2>5. Len(heap[n].children) = len
    BY <1>5, <2>1
  <2>. HIDE DEF own, kids
  <2>6. own \in [1..len -> Calls]
    BY <2>3, <2>4
  <2>7. own \in Seq(Calls) /\ Len(own) = len
    BY <2>6
  <2>. QED BY <2>3, <2>5, <2>7 DEF CallsBelow
<1>13. PICK next \in Seq(Calls) : next = own \o Tail(calls) /\ Follows(next, own, calls) /\ Remain(next, own, calls)
  <2>. HIDE DEF own
  <2>. QED BY <1>12, CallsFollow
<1>14. WriteNode(s) = [heap |-> new, virtual |-> Put(s.virtual, path, n),
                       real |-> IF h[n].file = NoFile THEN s.real ELSE Put(s.real, h[n].file, n),
                       calls |-> next]
  <2>1. Head(s.calls).node = n /\ Head(s.calls).parent = parent /\ Head(s.calls).path = path
        /\ Head(s.calls).context = context /\ s.heap = h /\ s.calls = calls
    BY <1>1, <1>3, <1>4
  <2>2. own = [i \in 1..Len(h[n].children) |->
                  [node |-> h[n].children[i], parent |-> n,
                   path |-> Append(path, h[h[n].children[i]].name),
                   context |-> ChildContext(h[n], context)]]
    BY <1>6
  <2>3. new = [h EXCEPT ![n].virtualPath = path, ![n].parent = parent,
                        ![n].scriptContext = OwnContext(h[n], context)]
    BY <1>6 DEF new
  <2>. HIDE DEF own
  <2>. QED BY <1>13, <2>1, <2>2, <2>3 DEF WriteNode
<1>. HIDE DEF own
<1>15. /\ WriteNode(s).heap = new /\ WriteNode(s).calls = next
       /\ WriteNode(s).virtual = Put(s.virtual, path, n)
       /\ WriteNode(s).real = IF heap[n].file = NoFile THEN s.real ELSE Put(s.real, heap[n].file, n)
  BY <1>5, <1>14
<1>16. WritesNode(s, heap, calls[1], calls, own, new, next)
  BY <1>1, <1>4, <1>10, <1>11, <1>12, <1>13, <1>15 DEF WritesNode
<1>. QED BY <1>9, <1>12, <1>13, <1>16

\* The nodes of the tree have their children in it.
LEMMA LeastShutIsShut ==
    ASSUME NEW heap, NEW root, Forest(heap, root)
    PROVE  /\ root \in LeastShut(heap, {root})
           /\ LeastShut(heap, {root}) \subseteq 1..Len(heap)
           /\ \A n \in LeastShut(heap, {root}) : ChildrenOf(heap, n) \subseteq LeastShut(heap, {root})
<1>1. root \in 1..Len(heap)
  BY DEF Forest
<1>2. ClosedHeap(heap)
  BY ForestIsClosed
<1>3. ASSUME NEW n \in LeastShut(heap, {root}), NEW c \in ChildrenOf(heap, n)
      PROVE  c \in LeastShut(heap, {root})
  <2>1. c \in 1..Len(heap)
    BY <1>2 DEF ClosedHeap, LeastShut
  <2>2. ASSUME NEW T, {root} \subseteq T, ShutIn(heap, T) PROVE c \in T
    <3>1. n \in T
      BY <2>2 DEF LeastShut
    <3>. QED BY <2>2, <3>1 DEF ShutIn
  <2>. QED BY <2>1, <2>2 DEF LeastShut
<1>. QED BY <1>1, <1>3 DEF LeastShut

PutIn(new, map, key, n) ==
    /\ DOMAIN new = DOMAIN map \cup {key}
    /\ new[key] = n
    /\ \A k \in DOMAIN map : k # key => new[k] = map[k]

\* Put changes the entry of its key only.
LEMMA PutMaps ==
    ASSUME NEW map, NEW key, NEW n
    PROVE  PutIn(Put(map, key, n), map, key, n)
BY DEF Put, PutIn

\* One call more was made.
LEMMA WroteNext ==
    ASSUME NEW heap, NEW root, Forest(heap, root), NEW V, NEW s, Wrote(s, heap, root, V), s.calls # <<>>
    PROVE  \E n \in 1..Len(heap) : n \notin V /\ Wrote(WriteNode(s), heap, root, V \cup {n})
<1>1. PICK calls \in Seq(Calls) : calls = s.calls /\ calls # <<>>
  BY DEF Wrote
<1>2. PICK h : h = s.heap
  OBVIOUS
<1>3. /\ Moved(h, heap) /\ V \subseteq LeastShut(heap, {root}) /\ Placed(h, heap, root, V)
      /\ Mapped(h, V, s.virtual, s.real) /\ Waiting(h, heap, root, V, calls)
      /\ Reached(heap, root, V, calls)
  BY <1>1, <1>2 DEF Wrote
<1>4. /\ LeastShut(heap, {root}) \subseteq 1..Len(heap) /\ root \in LeastShut(heap, {root})
      /\ \A m \in LeastShut(heap, {root}) : ChildrenOf(heap, m) \subseteq LeastShut(heap, {root})
  BY LeastShutIsShut
<1>5. 1 \in 1..Len(calls)
  BY <1>1, FirstOf
<1>6. PICK n \in 1..Len(heap), parent \in 0..Len(heap), path \in Seq(Text) :
         /\ n = calls[1].node /\ parent = calls[1].parent /\ path = calls[1].path
         /\ n \in LeastShut(heap, {root}) /\ n \notin V
         /\ Place(h, heap, root, V, n, parent, path)
  <2>1. calls[1].path \in Seq(Text)
    <3>1. calls[1] \in Calls
      BY <1>5
    <3>. QED BY <3>1 DEF Calls
  <2>2. /\ calls[1].node \in LeastShut(heap, {root}) /\ calls[1].node \notin V
        /\ Place(h, heap, root, V, calls[1].node, calls[1].parent, calls[1].path)
    BY <1>3, <1>5 DEF Waiting
  <2>3. calls[1].parent \in 0..Len(heap)
    BY <2>2 DEF Place
  <2>. QED BY <1>4, <2>1, <2>2, <2>3
<1>7. PICK own \in Seq(Calls), next \in Seq(Calls), new \in Heaps :
         WritesNode(s, heap, calls[1], calls, own, new, next)
  <2>1. parent \in 0..Len(heap)
    BY <1>6 DEF Place
  <2>. QED BY <1>1, <1>2, <1>3, <1>6, <2>1, WriteNodeDoes
<1>8. /\ Moved(new, heap) /\ Moves(new, h, n, parent, path) /\ CallsBelow(own, heap, n, path)
      /\ Follows(next, own, calls) /\ Remain(next, own, calls)
      /\ WriteNode(s).heap = new /\ WriteNode(s).calls = next
      /\ WriteNode(s).virtual = Put(s.virtual, path, n)
      /\ WriteNode(s).real = IF heap[n].file = NoFile THEN s.real ELSE Put(s.real, heap[n].file, n)
  BY <1>2, <1>6, <1>7 DEF WritesNode
<1> DEFINE W == V \cup {n}
<1>9. \A v \in V : v \in 1..Len(heap) /\ v # n /\ new[v] = h[v]
  BY <1>3, <1>4, <1>6, <1>8 DEF Moves, Moved
<1>10. new[n].parent = parent /\ new[n].virtualPath = path
  BY <1>8 DEF Moves
\* A node that has its place keeps it.
<1>11. ASSUME NEW m, NEW q, NEW p, Place(h, heap, root, V, m, q, p)
       PROVE  Place(new, heap, root, W, m, q, p)
  <2>1. CASE m = root
    BY <1>11, <2>1 DEF Place
  <2>2. CASE m # root
    <3>1. q \in 0..Len(heap) /\ q \in V /\ m \in ChildrenOf(heap, q) /\ p = Append(h[q].virtualPath, heap[m].name)
      BY <1>11, <2>2 DEF Place
    <3>2. new[q] = h[q]
      BY <1>9, <3>1
    <3>. QED BY <2>2, <3>1, <3>2 DEF Place
  <2>. QED BY <2>1, <2>2
<1>12. Placed(new, heap, root, W)
  <2>1. ASSUME NEW m \in V PROVE Place(new, heap, root, W, m, new[m].parent, new[m].virtualPath)
    <3>1. Place(h, heap, root, V, m, h[m].parent, h[m].virtualPath)
      BY <1>3 DEF Placed
    <3>2. Place(new, heap, root, W, m, h[m].parent, h[m].virtualPath)
      BY <1>11, <3>1
    <3>. QED BY <1>9, <3>2
  <2>2. Place(new, heap, root, W, n, new[n].parent, new[n].virtualPath)
    BY <1>6, <1>10, <1>11
  <2>. QED BY <2>1, <2>2 DEF Placed
\* A child of n was neither written nor waited for.
<1>13. ASSUME NEW c \in ChildrenOf(heap, n)
       PROVE  c # root /\ c \notin W /\ \A i \in 1..Len(calls) : calls[i].node # c
  <2>1. c # root
    BY OneParent
  <2>2. \A q \in V : c \notin ChildrenOf(heap, q)
    BY <1>6, <1>9, OneParent
  <2>3. c \notin V
    BY <1>3, <2>1, <2>2 DEF Placed, Place
  <2>4. \A i \in 1..Len(calls) : calls[i].node # c
    BY <1>3, <2>1, <2>2 DEF Waiting, Place
  <2>5. c # n
    BY <1>6, <2>1, <2>2 DEF Place
  <2>. QED BY <2>1, <2>3, <2>4, <2>5
<1>14. /\ ChildrenOf(heap, n) = {heap[n].children[i] : i \in 1..Len(heap[n].children)}
       /\ Len(own) = Len(heap[n].children)
       /\ \A i \in 1..Len(own) :
            /\ own[i].node = heap[n].children[i] /\ own[i].node \in ChildrenOf(heap, n) /\ own[i].parent = n
            /\ own[i].path = Append(path, heap[own[i].node].name)
  <2>1. h[n].children = heap[n].children
    BY <1>3 DEF Moved
  <2>2. heap \in Heaps
    BY DEF Forest
  <2>3. ChildrenOf(heap, n) = {heap[n].children[i] : i \in 1..Len(heap[n].children)}
    BY <2>2, HeapTypes
  <2>. QED BY <1>8, <2>1, <2>3 DEF CallsBelow
<1> DEFINE Own(i) == i \in 1..Len(own) /\ next[i] = own[i] /\ next[i].node \in ChildrenOf(heap, n)
           Other(i, c) == /\ c \in 2..Len(calls) /\ c \in 1..Len(calls) /\ c = i - Len(own) + 1
                          /\ next[i] = calls[c] /\ next[i].node # n
<1>15. ASSUME NEW i \in 1..Len(next) PROVE Own(i) \/ \E c \in 2..Len(calls) : Other(i, c)
  <2>1. CASE i \in 1..Len(own) /\ next[i] = own[i]
    BY <1>14, <2>1
  <2>2. ASSUME NEW c \in 2..Len(calls), c \in 1..Len(calls), c = i - Len(own) + 1, next[i] = calls[c]
        PROVE  Other(i, c)
    <3>1. calls[c].node # n
      <4>1. c # 1
        BY <2>2
      <4>2. \A k, j \in 1..Len(calls) : calls[k].node = calls[j].node => k = j
        BY <1>3 DEF Waiting
      <4>. QED BY <1>5, <1>6, <2>2, <4>1, <4>2
    <3>. QED BY <2>2, <3>1
  <2>. QED BY <1>8, <2>1, <2>2 DEF Follows
<1>16. Waiting(new, heap, root, W, next)
  <2>1. ASSUME NEW i \in 1..Len(next)
        PROVE  /\ next[i].node \in LeastShut(heap, {root}) /\ next[i].node \notin W
               /\ Place(new, heap, root, W, next[i].node, next[i].parent, next[i].path)
    <3>1. CASE Own(i)
      <4>1. next[i].node \in LeastShut(heap, {root}) /\ next[i].node \notin W /\ next[i].node # root
        BY <1>4, <1>6, <1>13, <3>1
      <4>2. /\ next[i].parent = n /\ next[i].path = Append(path, heap[next[i].node].name)
            /\ next[i].node \in ChildrenOf(heap, n)
        BY <1>14, <3>1
      <4>3. n \in 0..Len(heap) /\ n \in W
        BY <1>6
      <4>. QED BY <1>10, <4>1, <4>2, <4>3 DEF Place
    <3>2. ASSUME NEW c \in 2..Len(calls), Other(i, c)
          PROVE  /\ next[i].node \in LeastShut(heap, {root}) /\ next[i].node \notin W
                 /\ Place(new, heap, root, W, next[i].node, next[i].parent, next[i].path)
      <4>1. /\ calls[c].node \in LeastShut(heap, {root}) /\ calls[c].node \notin V
            /\ Place(h, heap, root, V, calls[c].node, calls[c].parent, calls[c].path)
        BY <1>3, <3>2 DEF Waiting
      <4>. QED BY <1>11, <3>2, <4>1
    <3>. HIDE DEF W
    <3>. QED BY <1>15, <3>1, <3>2
  <2>2. ASSUME NEW i \in 1..Len(next), NEW j \in 1..Len(next), next[i].node = next[j].node PROVE i = j
    <3>1. CASE Own(i) /\ Own(j)
      <4>1. heap[n].children[i] = heap[n].children[j]
        BY <1>14, <2>2, <3>1
      <4>2. OnceEach(heap[n].children)
        BY <1>6, ForestOnceEach
      <4>. QED BY <1>14, <3>1, <4>1, <4>2 DEF OnceEach
    <3>2. ASSUME NEW c \in 2..Len(calls), NEW d \in 2..Len(calls), Other(i, c), Other(j, d)
          PROVE  i = j
      <4>1. c = d
        BY <1>3, <2>2, <3>2 DEF Waiting
      <4>2. i \in Int /\ j \in Int /\ Len(own) \in Nat
        OBVIOUS
      <4>. QED BY <3>2, <4>1, <4>2
    <3>3. ASSUME NEW a \in 1..Len(next), NEW b \in 1..Len(next), NEW c \in 2..Len(calls), Own(a), Other(b, c)
          PROVE  next[a].node # next[b].node
      BY <1>13, <3>3
    <3>4. Own(i) \/ \E c \in 2..Len(calls) : Other(i, c)
      BY <1>15
    <3>5. Own(j) \/ \E c \in 2..Len(calls) : Other(j, c)
      BY <1>15
    <3>. HIDE DEF Own, Other
    <3>. QED BY <2>2, <3>1, <3>2, <3>3, <3>4, <3>5
  <2>. HIDE DEF W
  <2>. QED BY <2>1, <2>2 DEF Waiting
\* What was waited for still is, but n.
<1>17. ASSUME NEW i \in 1..Len(calls) PROVE calls[i].node \in W \/ \E k \in 1..Len(next) : next[k].node = calls[i].node
  <2>1. CASE i = 1
    BY <1>6, <2>1
  <2>2. CASE i # 1
    <3>1. i \in 2..Len(calls)
      BY <2>2
    <3>. QED BY <1>8, <3>1 DEF Remain
  <2>. QED BY <2>1, <2>2
<1>18. Reached(heap, root, W, next)
  <2>1. root \in W \/ \E i \in 1..Len(next) : next[i].node = root
    BY <1>3, <1>17 DEF Reached
  <2>2. ASSUME NEW v \in V, NEW c \in ChildrenOf(heap, v)
        PROVE  c \in W \/ \E i \in 1..Len(next) : next[i].node = c
    <3>1. c \in V \/ \E i \in 1..Len(calls) : calls[i].node = c
      BY <1>3 DEF Reached
    <3>2. CASE c \in V
      BY <1>17, <3>2
    <3>3. CASE \E i \in 1..Len(calls) : calls[i].node = c
      BY <1>17, <3>3
    <3>. QED BY <3>1, <3>2, <3>3
  <2>3. ASSUME NEW c \in ChildrenOf(heap, n)
        PROVE  \E i \in 1..Len(next) : next[i].node = c
    <3>1. PICK i \in 1..Len(own) : own[i].node = c
      <4>1. PICK i \in 1..Len(heap[n].children) : heap[n].children[i] = c
        BY <1>14
      <4>2. i \in 1..Len(own) /\ own[i].node = c
        BY <1>14, <4>1
      <4>. QED BY <4>2
    <3>. QED BY <1>8, <3>1 DEF Remain
  <2>. QED BY <2>1, <2>2, <2>3 DEF Reached
<1>19. Mapped(new, W, WriteNode(s).virtual, WriteNode(s).real)
  <2>1. /\ DOMAIN s.virtual = {h[m].virtualPath : m \in V}
        /\ \A p \in DOMAIN s.virtual : s.virtual[p] \in V /\ h[s.virtual[p]].virtualPath = p
        /\ DOMAIN s.real = {h[m].file : m \in V} \ {NoFile}
        /\ \A file \in DOMAIN s.real : s.real[file] \in V /\ h[s.real[file]].file = file
    BY <1>3 DEF Mapped
  <2>2. PICK virtual : virtual = WriteNode(s).virtual /\ PutIn(virtual, s.virtual, path, n)
    BY <1>8, PutMaps
  <2>3. /\ DOMAIN virtual = DOMAIN s.virtual \cup {path} /\ virtual[path] = n
        /\ \A p \in DOMAIN s.virtual : p # path => virtual[p] = s.virtual[p]
    BY <2>2 DEF PutIn
  <2>4. DOMAIN virtual = {new[m].virtualPath : m \in W}
    <3>1. {new[m].virtualPath : m \in V} = {h[m].virtualPath : m \in V}
      BY <1>9
    <3>2. {new[m].virtualPath : m \in W} = {new[m].virtualPath : m \in V} \cup {new[n].virtualPath}
      OBVIOUS
    <3>. QED BY <1>10, <2>1, <2>3, <3>1, <3>2
  <2>5. ASSUME NEW p \in DOMAIN virtual PROVE virtual[p] \in W /\ new[virtual[p]].virtualPath = p
    <3>1. CASE p = path
      BY <1>10, <2>3, <3>1
    <3>2. CASE p # path
      <4>1. PICK m \in V : m = virtual[p] /\ h[m].virtualPath = p
        BY <2>1, <2>3, <3>2
      <4>. QED BY <1>9, <4>1
    <3>. QED BY <3>1, <3>2
  <2>6. PICK real : real = WriteNode(s).real
    OBVIOUS
  <2>7. new[n].file = heap[n].file
    BY <1>8 DEF Moved
  <2>9. {new[m].file : m \in W} = {h[m].file : m \in V} \cup {heap[n].file}
    <3>1. {new[m].file : m \in V} = {h[m].file : m \in V}
      BY <1>9
    <3>2. {new[m].file : m \in W} = {new[m].file : m \in V} \cup {new[n].file}
      OBVIOUS
    <3>. QED BY <2>7, <3>1, <3>2
  <2>8. /\ DOMAIN real = {new[m].file : m \in W} \ {NoFile}
        /\ \A file \in DOMAIN real : real[file] \in W /\ new[real[file]].file = file
    <3>1. CASE heap[n].file = NoFile
      <4>1. real = s.real
        BY <1>8, <2>6, <3>1
      <4>2. DOMAIN real = {new[m].file : m \in W} \ {NoFile}
        BY <2>1, <2>9, <3>1, <4>1
      <4>3. \A file \in DOMAIN real : real[file] \in W /\ new[real[file]].file = file
        BY <1>9, <2>1, <4>1
      <4>. QED BY <4>2, <4>3
    <3>2. CASE heap[n].file # NoFile
      <4>1. /\ DOMAIN real = DOMAIN s.real \cup {heap[n].file} /\ real[heap[n].file] = n
            /\ \A f \in DOMAIN s.real : f # heap[n].file => real[f] = s.real[f]
        <5>1. real = Put(s.real, heap[n].file, n)
          BY <1>8, <2>6, <3>2
        <5>2. PutIn(real, s.real, heap[n].file, n)
          BY <5>1, PutMaps
        <5>. QED BY <5>2 DEF PutIn
      <4>2. DOMAIN real = {new[m].file : m \in W} \ {NoFile}
        BY <2>1, <2>9, <3>2, <4>1
      <4>3. ASSUME NEW file \in DOMAIN real PROVE real[file] \in W /\ new[real[file]].file = file
        <5>1. CASE file = heap[n].file
          BY <2>7, <4>1, <5>1
        <5>2. CASE file # heap[n].file
          <6>1. PICK m \in V : m = real[file] /\ h[m].file = file
            BY <2>1, <4>1, <5>2
          <6>. QED BY <1>9, <6>1
        <5>. QED BY <5>1, <5>2
      <4>. QED BY <4>2, <4>3
    <3>. QED BY <3>1, <3>2
  <2>. QED BY <2>2, <2>4, <2>5, <2>6, <2>8 DEF Mapped
<1>20. Wrote(WriteNode(s), heap, root, W)
  <2>1. W \subseteq LeastShut(heap, {root})
    BY <1>3, <1>6
  <2>2. WriteNode(s).calls = next /\ WriteNode(s).heap = new /\ Moved(new, heap)
    BY <1>8
  <2>. HIDE DEF W
  <2>. QED BY <1>12, <1>16, <1>18, <1>19, <2>1, <2>2 DEF Wrote
<1>. QED BY <1>6, <1>20

\* At first nothing is written and the root is waited for.
LEMMA FirstCall ==
    ASSUME NEW heap, NEW root, Forest(heap, root), NEW s, NEW call \in Calls,
           s.heap = heap, DOMAIN s.virtual = {}, DOMAIN s.real = {}, s.calls = <<call>>,
           call.node = root, call.parent = heap[root].parent, Len(call.path) = 1
    PROVE  Wrote(s, heap, root, {})
<1>1. Moved(heap, heap)
  BY DEF Forest, Moved
<1>2. Placed(heap, heap, root, {}) /\ Mapped(heap, {}, s.virtual, s.real)
  BY DEF Placed, Mapped
<1>3. root \in LeastShut(heap, {root}) /\ heap[root].parent \in 0..Len(heap)
  BY LeastShutIsShut DEF Forest
<1>a. <<call>> \in Seq(Calls) /\ Len(<<call>>) = 1
  OBVIOUS
<1>b. <<call>>[1] = call
  OBVIOUS
<1>4. PICK calls \in Seq(Calls) : calls = <<call>> /\ Len(calls) = 1 /\ calls[1] = call
  BY <1>a, <1>b, Zenon
<1>5. \A i \in 1..Len(calls) : i = 1
  BY <1>4
<1>6. Waiting(heap, heap, root, {}, calls)
  BY <1>3, <1>4, <1>5 DEF Waiting, Place
<1>7. Reached(heap, root, {}, calls)
  BY <1>4 DEF Reached
<1>. QED BY <1>1, <1>2, <1>4, <1>6, <1>7 DEF Wrote

\* When no call is left the whole tree was written.
LEMMA NoneLeft ==
    ASSUME NEW heap, NEW root, Forest(heap, root), NEW V, NEW s, Wrote(s, heap, root, V), s.calls = <<>>
    PROVE  V = LeastShut(heap, {root})
<1>1. V \subseteq LeastShut(heap, {root}) /\ Reached(heap, root, V, <<>>)
  BY DEF Wrote
<1>2. \A i \in 1..Len(<<>>) : FALSE
  OBVIOUS
<1>3. root \in V /\ \A v \in V : ChildrenOf(heap, v) \subseteq V
  BY <1>1, <1>2 DEF Reached
<1>4. ShutIn(heap, V)
  BY <1>1, <1>3, LeastShutIsShut DEF ShutIn
<1>. QED BY <1>1, <1>3, <1>4 DEF LeastShut

\* With as many calls as there are nodes the whole tree is written.
LEMMA WriteEnds ==
    ASSUME NEW heap, NEW root, Forest(heap, root), NEW first, Wrote(first, heap, root, {})
    PROVE  Wrote(Recursion(WriteNode, first, Len(heap)), heap, root, LeastShut(heap, {root}))
<1>1. PICK most \in Nat : most = Len(heap)
  BY ForestIsClosed
<1>2. PICK after : Recursion(WriteNode, first, most) = after[most] /\ Writes(after, first, most)
  BY WritingUnfolds
<1> DEFINE Counts(s, V, k) == s.calls # <<>> => IsFiniteSet(V) /\ Cardinality(V) = k
           Good(k) == \E V : Wrote(after[k], heap, root, V) /\ Counts(after[k], V, k)
           Bad == {k \in 0..most : ~Good(k)}
<1>3. Good(0)
  <2>1. after[0] = first /\ IsFiniteSet({}) /\ Cardinality({}) = 0
    BY <1>2, FS_EmptySet DEF Writes
  <2>. QED BY <2>1
<1>4. ASSUME NEW k \in 1..most, Good(k - 1) PROVE Good(k)
  <2>1. PICK V : Wrote(after[k - 1], heap, root, V) /\ Counts(after[k - 1], V, k - 1)
    BY <1>4
  <2>2. CASE after[k - 1].calls = <<>>
    <3>1. after[k] = after[k - 1]
      BY <1>2, <2>2 DEF Writes
    <3>. QED BY <2>1, <2>2, <3>1
  <2>3. CASE after[k - 1].calls # <<>>
    <3>1. after[k] = WriteNode(after[k - 1])
      BY <1>2, <2>3 DEF Writes
    <3>2. PICK n \in 1..Len(heap) : n \notin V /\ Wrote(after[k], heap, root, V \cup {n})
      BY <2>1, <2>3, <3>1, WroteNext
    <3>3. IsFiniteSet(V) /\ Cardinality(V) = k - 1
      BY <2>1, <2>3
    <3>4. IsFiniteSet(V \cup {n}) /\ Cardinality(V \cup {n}) = k - 1 + 1
      BY <3>2, <3>3, FS_AddElement
    <3>. QED BY <3>2, <3>4
  <2>. QED BY <2>2, <2>3
<1>. HIDE DEF Good
<1>5. Good(most)
  <2>1. \A k \in 1..most : k \in Bad => k - 1 \in Bad
    BY <1>4
  <2>2. 0 \notin Bad
    BY <1>3
  <2>3. Bad = {}
    BY <2>1, <2>2, UpTo
  <2>. QED BY <2>3
<1>6. PICK V : Wrote(after[most], heap, root, V) /\ Counts(after[most], V, most)
  BY <1>5 DEF Good
<1>7. after[most].calls = <<>>
  <2>. SUFFICES ASSUME after[most].calls # <<>> PROVE FALSE
    OBVIOUS
  <2>1. PICK n \in 1..Len(heap) : n \notin V /\ Wrote(WriteNode(after[most]), heap, root, V \cup {n})
    BY <1>6, WroteNext
  <2>2. IsFiniteSet(V) /\ Cardinality(V) = most
    BY <1>6
  <2>3. IsFiniteSet(V \cup {n}) /\ Cardinality(V \cup {n}) = most + 1
    BY <2>1, <2>2, FS_AddElement
  <2>4. V \cup {n} \subseteq 1..most
    BY <1>1, <2>1, LeastShutIsShut DEF Wrote
  <2>5. IsFiniteSet(1..most) /\ Cardinality(1..most) = IF 1 > most THEN 0 ELSE most - 1 + 1
    <3>1. 1 \in Int /\ most \in Int
      OBVIOUS
    <3>. QED BY <3>1, FS_Interval
  <2>6. Cardinality(V \cup {n}) <= Cardinality(1..most)
    BY <2>4, <2>5, FS_Subset
  <2>. QED BY <2>3, <2>5, <2>6
<1>8. V = LeastShut(heap, {root})
  BY <1>6, <1>7, NoneLeft
<1>. QED BY <1>1, <1>2, <1>6, <1>8

\* The paths of a tree are written to empty maps.
LEMMA PathsAreWritten ==
    ASSUME NEW heap, NEW root, Forest(heap, root), NEW paths, paths.heap = heap,
           DOMAIN paths.virtual = {}, DOMAIN paths.real = {}
    PROVE  Wrote(WritePathsToMap(paths, root), heap, root, Tree(heap, root))
<1>1. heap \in Heaps /\ root \in 1..Len(heap) /\ Len(heap) \in Nat
  BY HeapTypes DEF Forest
<1>2. PICK call : call = [node |-> root, parent |-> heap[root].parent, path |-> RootPath(heap, root), context |-> "Shared"]
  OBVIOUS
<1>3. RootPath(heap, root) \in Seq(Text) /\ Len(RootPath(heap, root)) = 1
  <2>1. "game" \in Text /\ "ProjectRoot" \in Text
    BY DEF Text
  <2>2. <<"game">> \in Seq(Text) /\ <<"ProjectRoot">> \in Seq(Text)
    BY <2>1
  <2>. QED BY <2>2 DEF RootPath
<1>4. call \in Calls /\ call.node = root /\ call.parent = heap[root].parent /\ Len(call.path) = 1
  <2>1. "Shared" \in Text /\ heap[root].parent \in Nat /\ root \in Nat
    BY <1>1, HeapTypes DEF Text
  <2>. QED BY <1>2, <1>3, <2>1 DEF Calls
<1> DEFINE first == [heap |-> paths.heap, virtual |-> paths.virtual, real |-> paths.real, calls |-> <<call>>]
<1>5. first.heap = heap /\ DOMAIN first.virtual = {} /\ DOMAIN first.real = {} /\ first.calls = <<call>>
  OBVIOUS
<1>6. WritePathsToMap(paths, root) = Recursion(WriteNode, first, Len(heap))
  BY <1>2 DEF WritePathsToMap
<1>. HIDE DEF first
<1>7. Wrote(first, heap, root, {})
  BY <1>4, <1>5, FirstCall
<1>8. Tree(heap, root) = LeastShut(heap, {root})
  <2>1. root # Null /\ {root} \in SUBSET (1..Len(heap)) /\ ClosedHeap(heap)
    BY <1>1, ForestIsClosed DEF Null
  <2>. QED BY <2>1, DescendantsAreLeast DEF Tree, Subtree
<1>. QED BY <1>6, <1>7, <1>8, WriteEnds

\* Sequences that end are equal when their beginnings and their ends are.
LEMMA AppendEqual ==
    ASSUME NEW S, NEW a \in Seq(S), NEW b \in Seq(S), NEW x \in S, NEW y \in S, Append(a, x) = Append(b, y)
    PROVE  a = b /\ x = y
<1>1. PICK n \in Nat, m \in Nat : n = Len(a) /\ m = Len(b)
  OBVIOUS
<1>2. Append(a, x) \in Seq(S) /\ Len(Append(a, x)) = n + 1 /\ Append(a, x)[n + 1] = x
      /\ \A i \in 1..n : Append(a, x)[i] = a[i]
  BY <1>1
<1>3. Append(b, y) \in Seq(S) /\ Len(Append(b, y)) = m + 1 /\ Append(b, y)[m + 1] = y
      /\ \A i \in 1..m : Append(b, y)[i] = b[i]
  BY <1>1
<1>4. n = m /\ x = y /\ \A i \in 1..n : a[i] = b[i]
  BY <1>2, <1>3
<1>5. a = [i \in 1..n |-> a[i]] /\ b = [i \in 1..m |-> b[i]]
  BY <1>1
<1>. QED BY <1>4, <1>5

PathsApart(h, V) == \A a, b \in V : h[a].virtualPath = h[b].virtualPath => a = b

\* Nodes whose siblings have other names have other paths.
LEMMA PlacesApart ==
    ASSUME NEW heap, NEW root, Forest(heap, root), ListsNamesApart(heap),
           NEW h \in Heaps, Len(h) = Len(heap), NEW V \in SUBSET (1..Len(heap)), Placed(h, heap, root, V)
    PROVE  PathsApart(h, V)
<1> DEFINE path == [n \in V |-> h[n].virtualPath]
           len == [n \in V |-> Len(h[n].virtualPath)]
           up == [n \in V |-> h[n].parent]
<1>1. \A n \in V : path[n] = h[n].virtualPath /\ len[n] = Len(path[n]) /\ up[n] = h[n].parent
  OBVIOUS
<1>. HIDE DEF path, up, len
<1>2. \A n \in V : path[n] \in Seq(Text) /\ len[n] \in Nat /\ heap[n].name \in Text
  <2>. SUFFICES ASSUME NEW n \in V
                PROVE  path[n] \in Seq(Text) /\ len[n] \in Nat /\ heap[n].name \in Text
    OBVIOUS
  <2>1. n \in 1..Len(heap) /\ n \in 1..Len(h) /\ heap \in Heaps
    BY DEF Forest
  <2>2. h[n].virtualPath \in Seq(Text) /\ heap[n].name \in Text
    BY <2>1, HeapTypes
  <2>3. PICK seq \in Seq(Text) : seq = path[n] /\ Len(seq) = len[n]
    BY <1>1, <2>2
  <2>4. Len(seq) \in Nat
    OBVIOUS
  <2>. QED BY <2>2, <2>3, <2>4, Zenon
<1>3. \A n \in V : n = root => len[n] = 1
  <2>. SUFFICES ASSUME NEW n \in V, n = root PROVE len[n] = 1
    OBVIOUS
  <2>1. Len(h[n].virtualPath) = 1
    BY DEF Placed, Place
  <2>. QED BY <1>1, <2>1
<1>4. \A n \in V : n # root => /\ up[n] \in V /\ n \in ChildrenOf(heap, up[n])
                               /\ path[n] = Append(path[up[n]], heap[n].name)
  <2>. SUFFICES ASSUME NEW n \in V, n # root
                PROVE  /\ up[n] \in V /\ n \in ChildrenOf(heap, up[n])
                       /\ path[n] = Append(path[up[n]], heap[n].name)
    OBVIOUS
  <2>1. PICK u : u = h[n].parent
    OBVIOUS
  <2>2. u \in V /\ n \in ChildrenOf(heap, u) /\ h[n].virtualPath = Append(h[u].virtualPath, heap[n].name)
    BY <2>1 DEF Placed, Place
  <2>3. up[n] = u /\ path[u] = h[u].virtualPath /\ path[n] = h[n].virtualPath
    BY <1>1, <2>1, <2>2
  <2>. QED BY <2>2, <2>3
<1>5. \A n \in V : n # root => len[n] = len[up[n]] + 1
  <2>. SUFFICES ASSUME NEW n \in V, n # root PROVE len[n] = len[up[n]] + 1
    OBVIOUS
  <2>1. PICK above \in Seq(Text), name \in Text : above = path[up[n]] /\ name = heap[n].name
    BY <1>2, <1>4
  <2>2. Len(Append(above, name)) = Len(above) + 1
    OBVIOUS
  <2>. QED BY <1>1, <1>4, <2>1, <2>2
<1>6. \A n \in V : len[n] >= 1 /\ (n # root => len[n] >= 2)
  <2>1. ASSUME NEW n \in V, n # root PROVE \E u \in V : len[n] = len[u] + 1
    BY <1>4, <1>5, <2>1
  <2>2. ASSUME NEW n \in V PROVE len[n] >= 1
    <3>1. CASE n = root
      BY <1>3, <3>1
    <3>2. CASE n # root
      <4>1. PICK u \in V : len[n] = len[u] + 1
        BY <2>1, <3>2
      <4>2. len[u] \in Nat
        BY <1>2
      <4>. QED BY <4>1, <4>2
    <3>. QED BY <3>1, <3>2
  <2>3. ASSUME NEW n \in V, n # root PROVE len[n] >= 2
    <3>1. PICK u \in V : len[n] = len[u] + 1
      BY <2>1, <2>3
    <3>2. len[u] \in Nat /\ len[u] >= 1
      BY <1>2, <2>2
    <3>. QED BY <3>1, <3>2
  <2>. QED BY <2>2, <2>3
<1>7. SUFFICES ASSUME NEW x \in V, NEW y \in V, path[x] = path[y] PROVE x = y
  BY <1>1 DEF PathsApart
<1>8. PICK most \in Nat : most = len[x]
  BY <1>2
<1> DEFINE Bad == {k \in 0..most : \E a, b \in V : len[a] = k /\ path[a] = path[b] /\ a # b}
<1>9. 0 \notin Bad
  BY <1>2, <1>6
<1>10. ASSUME NEW k \in 1..most, k \in Bad PROVE k - 1 \in Bad
  <2>1. PICK a \in V, b \in V : len[a] = k /\ len[b] = k /\ path[a] = path[b] /\ a # b
    BY <1>1, <1>10
  <2>2. a # root /\ b # root
    BY <1>3, <1>6, <2>1
  <2>3. path[up[a]] = path[up[b]] /\ heap[a].name = heap[b].name
    <3>1. PICK p \in Seq(Text), q \in Seq(Text), m \in Text, n \in Text :
             p = path[up[a]] /\ q = path[up[b]] /\ m = heap[a].name /\ n = heap[b].name
      BY <1>2, <1>4, <2>2
    <3>2. Append(p, m) = Append(q, n)
      BY <1>4, <2>1, <2>2, <3>1
    <3>3. p = q /\ m = n
      BY <3>2, AppendEqual
    <3>. QED BY <3>1, <3>3
  <2>4. up[a] # up[b]
    <3>. SUFFICES ASSUME up[a] = up[b] PROVE FALSE
      OBVIOUS
    <3>1. PICK p \in 1..Len(heap) : a \in ChildrenOf(heap, p) /\ b \in ChildrenOf(heap, p)
      BY <1>4, <2>2
    <3>2. ChildrenOf(heap, p) = {heap[p].children[i] : i \in 1..Len(heap[p].children)}
      BY HeapTypes DEF Forest
    <3>3. PICK i \in 1..Len(heap[p].children), j \in 1..Len(heap[p].children) :
             heap[p].children[i] = a /\ heap[p].children[j] = b
      BY <3>1, <3>2
    <3>. QED BY <2>1, <2>3, <3>3 DEF ListsNamesApart
  <2>5. PICK c \in V, d \in V : c = up[a] /\ d = up[b]
    BY <1>4, <2>2
  <2>6. len[c] = k - 1
    <3>1. len[c] \in Nat /\ len[a] = len[c] + 1
      BY <1>2, <1>5, <2>2, <2>5
    <3>. QED BY <2>1, <3>1
  <2>. QED BY <2>3, <2>4, <2>5, <2>6
<1>11. Bad = {}
  <2>1. Bad \in SUBSET (0..most)
    OBVIOUS
  <2>. HIDE DEF Bad
  <2>. QED BY <1>9, <1>10, <2>1, UpTo
<1>12. most \in 0..most
  OBVIOUS
<1>. QED BY <1>7, <1>8, <1>11, <1>12

-----------------------------------------------------------------------------
(* Platforms.                                                                *)

\* The maps are those of the tree.
MapsOfTree(p) ==
    LET V == Tree(p.heap, p.root) IN
    /\ Mapped(p.heap, V, p.virtual, p.real)
    /\ \A n \in V : \A c \in ChildrenOf(p.heap, n) : p.heap[c].parent = n
    /\ SiblingsHaveNames => PathsApart(p.heap, V)

\* A platform with a tree, and one without.
Loads(p) == Forest(p.heap, p.root) /\ p.root # Null
LoadsNone(p) == p.root = Null /\ p.heap \in Heaps /\ Len(p.heap) = 0

\* The tree is the least set with the root that has the children of its nodes.
LEMMA TreeIsLeast ==
    ASSUME NEW heap, NEW root, Forest(heap, root)
    PROVE  /\ Tree(heap, root) = LeastShut(heap, {root}) /\ Tree(heap, root) = Descendants(heap, {root})
           /\ root \in Tree(heap, root) /\ Tree(heap, root) \subseteq 1..Len(heap)
           /\ \A n \in Tree(heap, root) : ChildrenOf(heap, n) \subseteq Tree(heap, root)
<1>1. root # Null /\ {root} \in SUBSET (1..Len(heap)) /\ ClosedHeap(heap)
  BY ForestIsClosed DEF Null, Forest
<1>2. Tree(heap, root) = Descendants(heap, {root})
  BY <1>1 DEF Tree, Subtree
<1>3. Descendants(heap, {root}) = LeastShut(heap, {root})
  BY <1>1, DescendantsAreLeast
<1>4. PICK V : V = LeastShut(heap, {root})
  OBVIOUS
<1>5. root \in V /\ V \subseteq 1..Len(heap) /\ \A n \in V : ChildrenOf(heap, n) \subseteq V
  BY <1>4, LeastShutIsShut
<1>6. Tree(heap, root) = V
  BY <1>2, <1>3, <1>4
<1>. QED BY <1>2, <1>4, <1>5, <1>6, Zenon

\* The nodes of a heap that are elsewhere are the same tree.
LEMMA MovedForest ==
    ASSUME NEW heap, NEW root, Forest(heap, root), NEW new, Moved(new, heap)
    PROVE  Forest(new, root) /\ Tree(new, root) = Tree(heap, root)
<1>1. /\ new \in Heaps /\ Len(new) = Len(heap)
      /\ \A n \in 1..Len(heap) : /\ new[n].name = heap[n].name /\ new[n].parent \in 0..Len(heap)
                                 /\ new[n].children = heap[n].children
  BY DEF Moved
<1>2. \A n \in 1..Len(heap) : OnceEach(heap[n].children)
  BY ForestOnceEach
<1>3. Forest(new, root)
  BY <1>1, <1>2, ForestShrinks
<1>4. \A n \in 1..Len(heap) : ChildrenOf(new, n) = ChildrenOf(heap, n)
  BY <1>1 DEF ChildrenOf
<1>5. \A T : ShutIn(new, T) <=> ShutIn(heap, T)
  BY <1>1, <1>4 DEF ShutIn
<1>6. LeastShut(new, {root}) = LeastShut(heap, {root})
  BY <1>1, <1>5 DEF LeastShut
<1>. QED BY <1>3, <1>6, TreeIsLeast

\* Rebuilt maps are those of the tree (rebuildPathMaps).
Rebuilds(q, p) == Loads(q) /\ q.root = p.root /\ MapsOfTree(q)

\* The maps that rebuildPathMaps makes are those of the tree.
LEMMA RebuiltMaps ==
    ASSUME NEW p, Loads(p)
    PROVE  Rebuilds(RebuildPathMaps(p), p)
<1>1. PICK heap, root : heap = p.heap /\ root = p.root
  OBVIOUS
<1>2. Forest(heap, root) /\ root # Null /\ heap \in Heaps /\ root \in 1..Len(heap)
  BY <1>1 DEF Loads, Forest
<1>3. PICK w : w = WritePathsToMap(MapsCleared(p), root)
  OBVIOUS
<1>4. Wrote(w, heap, root, Tree(heap, root))
  <2>1. MapsCleared(p).heap = heap
    BY <1>1 DEF MapsCleared
  <2>2. DOMAIN MapsCleared(p).virtual = {} /\ DOMAIN MapsCleared(p).real = {}
    BY DEF MapsCleared, NoMap
  <2>. QED BY <1>2, <1>3, <2>1, <2>2, PathsAreWritten
<1>5. PICK q : q = RebuildPathMaps(p)
  OBVIOUS
<1>6. q.heap = w.heap /\ q.root = root /\ q.virtual = w.virtual /\ q.real = w.real
  BY <1>1, <1>2, <1>3, <1>5 DEF RebuildPathMaps
<1>7. Moved(w.heap, heap) /\ Placed(w.heap, heap, root, Tree(heap, root))
      /\ Mapped(w.heap, Tree(heap, root), w.virtual, w.real)
  BY <1>4 DEF Wrote
<1>8. Forest(w.heap, root) /\ Tree(w.heap, root) = Tree(heap, root)
  BY <1>2, <1>7, MovedForest
<1>9. ASSUME NEW n \in Tree(heap, root), NEW c \in ChildrenOf(w.heap, n) PROVE w.heap[c].parent = n
  <2>1. n \in 1..Len(heap) /\ c \in ChildrenOf(heap, n)
    BY <1>2, <1>7, <1>9, TreeIsLeast DEF Moved, ChildrenOf
  <2>2. c \in Tree(heap, root) /\ c # root
    <3>1. ChildrenOf(heap, n) \subseteq Tree(heap, root)
      BY <1>2, <1>9, TreeIsLeast
    <3>. QED BY <1>2, <2>1, <3>1, OneParent
  <2>3. w.heap[c].parent \in Tree(heap, root) /\ c \in ChildrenOf(heap, w.heap[c].parent)
    BY <1>7, <2>2 DEF Placed, Place
  <2>4. w.heap[c].parent \in 1..Len(heap)
    BY <1>2, <2>3, TreeIsLeast
  <2>. QED BY <1>2, <2>1, <2>3, <2>4, OneParent
<1>10. ASSUME SiblingsHaveNames PROVE PathsApart(w.heap, Tree(heap, root))
  <2>1. ListsNamesApart(heap) /\ w.heap \in Heaps /\ Len(w.heap) = Len(heap)
    BY <1>2, <1>7, <1>10 DEF Forest, Moved
  <2>2. Tree(heap, root) \in SUBSET (1..Len(heap))
    BY <1>2, TreeIsLeast
  <2>. QED BY <1>2, <1>7, <2>1, <2>2, PlacesApart
<1>11. MapsOfTree(q)
  BY <1>6, <1>7, <1>8, <1>9, <1>10 DEF MapsOfTree
<1>12. Rebuilds(q, p)
  BY <1>1, <1>2, <1>6, <1>8, <1>11 DEF Rebuilds, Loads
<1>. QED BY <1>5, <1>12

-----------------------------------------------------------------------------
(* What is saved.                                                            *)

\* What is written of a node, given what is written of those one level down.
KeptChildren(heap, m, depth) ==
    IF depth = 0 THEN <<>>
    ELSE Kept(heap[m].children, {c \in 1..Len(heap) : ContainsFilePaths(heap, c)})

WrittenNode(heap, m, depth, below) ==
    Json(heap[m].name, heap[m].className, heap[m].file, Persisted(heap[m]),
         [i \in 1..Len(KeptChildren(heap, m, depth)) |-> below[KeptChildren(heap, m, depth)[i]]])

Level(heap, depth, below) == [m \in 1..Len(heap) |-> WrittenNode(heap, m, depth, below)]

\* At depth 0 no children are written.
LEMMA NothingBelow ==
    ASSUME NEW heap, NEW f, NEW g
    PROVE  Level(heap, 0, f) = Level(heap, 0, g)
<1>1. ASSUME NEW m PROVE WrittenNode(heap, m, 0, f) = WrittenNode(heap, m, 0, g)
  <2>1. KeptChildren(heap, m, 0) = <<>>
    BY DEF KeptChildren
  <2>2. 1..Len(<<>>) = {}
    OBVIOUS
  <2>3. [i \in 1..Len(<<>>) |-> f[<<>>[i]]] = [i \in 1..Len(<<>>) |-> g[<<>>[i]]]
    BY <2>2
  <2>. QED BY <2>1, <2>3 DEF WrittenNode
<1>. QED BY <1>1 DEF Level

\* toJson writes a tree level by level.
LEMMA ToJsonUnfolds ==
    ASSUME NEW heap, Len(heap) \in Nat, NEW n
    PROVE  \E f : /\ ToJson(heap, n) = f[Len(heap)][n]
                  /\ \A k \in 0..Len(heap) : f[k] = Level(heap, k, f[k - 1])
<1>0. PICK most \in Nat : most = Len(heap)
  OBVIOUS
<1> DEFINE Step(k, f) == Level(heap, k, f)
           Chain(f, k) == \A j \in 0..k : f[j] = Step(j, f[j - 1])
           Good(k) == \E f : Chain(f, k)
           Bad == {k \in 0..most : ~Good(k)}
           Solves(f) == f = [k \in 0..most |-> Step(k, f[k - 1])]
           written == CHOOSE f : Solves(f)
<1>1. ToJson(heap, n) = written[most][n]
  BY <1>0 DEF ToJson, Level, WrittenNode, KeptChildren
<1>2. \A f, g : Step(0, f) = Step(0, g)
  BY NothingBelow
<1>a. \A k, f : Step(k, f) = Level(heap, k, f)
  OBVIOUS
<1>. HIDE DEF Step
<1>3. 0 \notin Bad
  <2> DEFINE f == [j \in 0..0 |-> Step(0, 0)]
  <2>1. f[0] = Step(0, f[0 - 1])
    <3>1. f[0] = Step(0, 0)
      OBVIOUS
    <3>. HIDE DEF f
    <3>. QED BY <1>2, <3>1
  <2>2. Good(0)
    <3>. HIDE DEF f
    <3>1. \A j \in 0..0 : j = 0
      OBVIOUS
    <3>2. Chain(f, 0)
      BY <2>1, <3>1
    <3>. QED BY <3>2
  <2>. HIDE DEF Good
  <2>. QED BY <2>2
<1>4. ASSUME NEW k \in 1..most, Good(k - 1) PROVE Good(k)
  <2>1. PICK f : Chain(f, k - 1)
    BY <1>4
  <2> DEFINE g == [j \in 0..k |-> IF j = k THEN Step(k, f[k - 1]) ELSE f[j]]
  <2>2. g[k] = Step(k, f[k - 1]) /\ \A j \in 0..(k - 1) : g[j] = f[j]
    OBVIOUS
  <2>. HIDE DEF g
  <2>4. ASSUME NEW j \in 0..k PROVE g[j] = Step(j, g[j - 1])
    <3>1. CASE j = k
      <4>1. g[j - 1] = f[k - 1]
        BY <2>2, <3>1
      <4>. QED BY <2>2, <3>1, <4>1
    <3>2. CASE j \in 1..(k - 1)
      <4>1. g[j - 1] = f[j - 1] /\ g[j] = f[j]
        BY <2>2, <3>2
      <4>2. f[j] = Step(j, f[j - 1])
        BY <2>1, <3>2
      <4>. QED BY <4>1, <4>2
    <3>3. CASE j = 0
      <4>1. g[0] = f[0] /\ f[0] = Step(0, f[0 - 1])
        BY <2>1, <2>2
      <4>. QED BY <1>2, <3>3, <4>1
    <3>. QED BY <3>1, <3>2, <3>3
  <2>. QED BY <2>4
<1>5. Good(most)
  <2>. HIDE DEF Good
  <2>1. \A k \in 1..most : k \in Bad => k - 1 \in Bad
    BY <1>4
  <2>2. Bad = {}
    BY <1>3, <2>1, UpTo
  <2>. QED BY <2>2
<1>6. PICK f : Chain(f, most)
  BY <1>5
<1> DEFINE g == [k \in 0..most |-> f[k]]
<1>7. Solves(g)
  <2>1. ASSUME NEW k \in 0..most PROVE g[k] = Step(k, g[k - 1])
    <3>1. CASE k = 0
      <4>1. g[0] = f[0] /\ f[0] = Step(0, f[0 - 1])
        BY <1>6
      <4>. HIDE DEF g
      <4>. QED BY <1>2, <3>1, <4>1
    <3>2. CASE k \in 1..most
      <4>1. k - 1 \in 0..most /\ f[k] = Step(k, f[k - 1])
        BY <1>6, <3>2
      <4>2. g[k] = f[k] /\ g[k - 1] = f[k - 1]
        BY <4>1
      <4>. HIDE DEF g
      <4>. QED BY <4>1, <4>2
    <3>. QED BY <3>1, <3>2
  <2>2. g = [k \in 0..most |-> g[k]]
    OBVIOUS
  <2>. HIDE DEF g, written, Chain, Good, Bad
  <2>. QED BY <2>1, <2>2
<1>8. Solves(written)
  <2>. HIDE DEF Solves, g
  <2>. QED BY <1>7
<1>. HIDE DEF written
<1>9. \A k \in 0..most : written[k] = Step(k, written[k - 1])
  <2>2. written = [k \in 0..most |-> Step(k, written[k - 1])]
    BY <1>8
  <2>. HIDE DEF Solves
  <2>. QED BY <2>2
<1>. QED BY <1>0, <1>1, <1>9, <1>a

\* What is saved of a tree is a tree (toJson).
LEMMA SavedIsTree ==
    ASSUME NEW heap, NEW root, Forest(heap, root)
    PROVE  IsTree(ToJson(heap, root))
<1>1. heap \in Heaps /\ ClosedHeap(heap)
  BY ForestIsClosed DEF Forest
<1>2. PICK most \in Nat : most = Len(heap)
  BY <1>1 DEF Heaps
<1>3. PICK f : /\ ToJson(heap, root) = f[most][root]
               /\ \A k \in 0..most : f[k] = Level(heap, k, f[k - 1])
  BY <1>2, ToJsonUnfolds
<1> DEFINE J == {f[k][m] : k \in 0..most, m \in 1..most}
<1>4. ASSUME NEW k \in 0..most, NEW m \in 1..most
      PROVE  /\ f[k][m] \in [name : Text, className : Text, file : Text, pluginManaged : Flags, children : Seq(J)]
             /\ f[k][m].name = heap[m].name
             /\ SiblingsHaveNames => NamesApart(f[k][m])
  <2>1. PICK kept \in Seq(Nat) : /\ kept = KeptChildren(heap, m, k) /\ OnceEach(kept)
                                 /\ \A i \in 1..Len(kept) : k # 0 /\ \E j \in 1..Len(heap[m].children) : kept[i] = heap[m].children[j]
    <3>1. CASE k = 0
      <4>1. KeptChildren(heap, m, k) = <<>>
        BY <3>1 DEF KeptChildren
      <4>2. <<>> \in Seq(Nat) /\ 1..Len(<<>>) = {}
        OBVIOUS
      <4>3. OnceEach(<<>>)
        BY <4>2 DEF OnceEach
      <4>. QED BY <4>1, <4>2, <4>3
    <3>2. CASE k # 0
      <4>1. PICK stay : KeptChildren(heap, m, k) = Kept(heap[m].children, stay)
        BY <3>2 DEF KeptChildren
      <4>2. heap[m].children \in Seq(Nat) /\ OnceEach(heap[m].children)
        BY <1>1, <1>2, HeapTypes, ForestOnceEach
      <4>3. PICK kids : kids = Kept(heap[m].children, stay)
        OBVIOUS
      <4>4. kids \in Seq(Nat) /\ KeptFrom(kids, heap[m].children, stay)
        BY <4>2, <4>3, KeptElements
      <4>. QED BY <3>2, <4>1, <4>2, <4>3, <4>4 DEF KeptFrom
    <3>. QED BY <3>1, <3>2
  <2>2. PICK len \in Nat : len = Len(kept)
    OBVIOUS
  <2>3. ASSUME NEW i \in 1..len PROVE kept[i] \in 1..most /\ k - 1 \in 0..most
    <3>1. k # 0 /\ \E j \in 1..Len(heap[m].children) : kept[i] = heap[m].children[j]
      BY <2>1, <2>2
    <3>. QED BY <1>2, <3>1 DEF Forest, ListsNodes
  <2> DEFINE children == [i \in 1..len |-> f[k - 1][kept[i]]]
  <2>4. children \in Seq(J) /\ Len(children) = len /\ \A i \in 1..len : children[i] = f[k - 1][kept[i]]
    <3>1. \A i \in 1..len : f[k - 1][kept[i]] \in J
      BY <2>3
    <3>2. \A i \in 1..len : children[i] = f[k - 1][kept[i]]
      OBVIOUS
    <3>3. children \in [1..len -> J]
      <4>. HIDE DEF J
      <4>. QED BY <3>1
    <3>4. children \in Seq(J) /\ Len(children) = len
      <4>. HIDE DEF J, children
      <4>. QED BY <3>3
    <3>. QED BY <3>2, <3>4
  <2>5. f[k][m] = Json(heap[m].name, heap[m].className, heap[m].file, Persisted(heap[m]), children)
    <3>1. f[k][m] = WrittenNode(heap, m, k, f[k - 1])
      BY <1>2, <1>3 DEF Level
    <3>. QED BY <2>1, <2>2, <3>1 DEF WrittenNode
  <2>6. heap[m].name \in Text /\ heap[m].className \in Text /\ heap[m].file \in Text
        /\ Persisted(heap[m]) \in Flags
    <3>1. heap[m] \in NodeSet
      BY <1>1, <1>2, HeapTypes
    <3>. QED BY <3>1 DEF NodeSet, Persisted
  <2>7. f[k][m].name = heap[m].name /\ f[k][m].children = children
    BY <2>5 DEF Json
  <2>. HIDE DEF J, children
  <2>8. f[k][m] \in [name : Text, className : Text, file : Text, pluginManaged : Flags, children : Seq(J)]
    <3>1. PICK name \in Text, className \in Text, file \in Text, managed \in Flags, below \in Seq(J) :
             /\ name = heap[m].name /\ className = heap[m].className /\ file = heap[m].file
             /\ managed = Persisted(heap[m]) /\ below = children
      BY <2>4, <2>6, Zenon
    <3>2. f[k][m] = [name |-> name, className |-> className, file |-> file, pluginManaged |-> managed, children |-> below]
      BY <2>5, <3>1, Zenon DEF Json
    <3>3. [name |-> name, className |-> className, file |-> file, pluginManaged |-> managed, children |-> below]
            \in [name : Text, className : Text, file : Text, pluginManaged : Flags, children : Seq(J)]
      OBVIOUS
    <3>. QED BY <3>2, <3>3, Zenon
  <2>9. ASSUME SiblingsHaveNames PROVE NamesApart(f[k][m])
    <3>1. ListsNamesApart(heap)
      BY <2>9 DEF Forest
    <3>2. ASSUME NEW i \in 1..len PROVE children[i].name = heap[kept[i]].name
      <4>1. kept[i] \in 1..most /\ k - 1 \in 0..most
        BY <2>3
      <4>2. f[k - 1] = Level(heap, k - 1, f[k - 1 - 1])
        BY <1>3, <4>1
      <4>3. f[k - 1][kept[i]] = WrittenNode(heap, kept[i], k - 1, f[k - 1 - 1])
        BY <1>2, <4>1, <4>2 DEF Level
      <4>. QED BY <2>4, <4>3 DEF WrittenNode, Json
    <3>3. ASSUME NEW i \in 1..len, NEW j \in 1..len, children[i].name = children[j].name PROVE i = j
      <4>1. heap[kept[i]].name = heap[kept[j]].name
        BY <3>2, <3>3
      <4>2. PICK a \in 1..Len(heap[m].children), b \in 1..Len(heap[m].children) :
               kept[i] = heap[m].children[a] /\ kept[j] = heap[m].children[b]
        BY <2>1, <2>2
      <4>3. a = b
        BY <1>2, <3>1, <4>1, <4>2 DEF ListsNamesApart
      <4>. QED BY <2>1, <2>2, <4>2, <4>3 DEF OnceEach
    <3>. QED BY <2>4, <2>7, <3>3 DEF NamesApart
  <2>. QED BY <2>7, <2>8, <2>9
<1>5. root \in 1..most /\ most \in 0..most
  BY <1>2 DEF Forest
<1>6. ToJson(heap, root) \in J
  BY <1>3, <1>5
<1>7. AreTrees(J)
  <2>1. \A t \in J : \E k \in 0..most, m \in 1..most : t = f[k][m]
    OBVIOUS
  <2>. HIDE DEF J
  <2>2. ASSUME NEW t \in J
        PROVE  /\ t \in [name : Text, className : Text, file : Text, pluginManaged : Flags, children : Seq(J)]
               /\ SiblingsHaveNames => NamesApart(t)
    BY <1>4, <2>1
  <2>. QED BY <2>2 DEF AreTrees
<1>. QED BY <1>6, <1>7 DEF IsTree

-----------------------------------------------------------------------------
(* What the handlers leave.                                                  *)

\* A platform has a tree, or no nodes at all.
IsPlatform(p) ==
    \E heap, root, virtual, real :
        p = [heap |-> heap, root |-> root, virtual |-> virtual, real |-> real]

Ready(p) == IsPlatform(p) /\ (Loads(p) \/ LoadsNone(p))

\* Without a root there is no tree.
LEMMA NoTreeHasNoNodes ==
    ASSUME NEW p, LoadsNone(p)
    PROVE  Tree(p.heap, p.root) = {}
BY DEF LoadsNone, Tree

\* Nodes that differ in their types are the same tree, in the same maps.
LEMMA SameNodesMaps ==
    ASSUME NEW p, Ready(p), NEW q, IsPlatform(q), SameNodes(q.heap, p.heap), q.root = p.root,
           q.virtual = p.virtual, q.real = p.real
    PROVE  Ready(q) /\ Tree(q.heap, q.root) = Tree(p.heap, p.root) /\ (MapsOfTree(p) => MapsOfTree(q))
<1>1. CASE LoadsNone(p)
  <2>1. LoadsNone(q)
    BY <1>1 DEF LoadsNone, SameNodes
  <2>2. Tree(p.heap, p.root) = {} /\ Tree(q.heap, q.root) = {}
    BY <1>1, <2>1, NoTreeHasNoNodes
  <2>. QED BY <2>1, <2>2 DEF Ready, MapsOfTree, Mapped, PathsApart
<1>2. CASE Loads(p)
  <2>1. PICK heap, new, root : heap = p.heap /\ new = q.heap /\ root = p.root
    OBVIOUS
  <2>2. Forest(heap, root) /\ root # Null /\ SameNodes(new, heap)
    BY <1>2, <2>1 DEF Loads
  <2>3. Forest(new, root)
    BY <2>2, SameNodesForest
  <2>4. {root} \in SUBSET (1..Len(heap))
    BY <2>2 DEF Forest
  <2>5. Descendants(new, {root}) = Descendants(heap, {root})
    BY <2>2, <2>4, SameNodesBelow
  <2>6. PICK V : V = Tree(heap, root) /\ V = Tree(new, root)
    BY <2>2, <2>3, <2>5, TreeIsLeast
  <2>7. V \subseteq 1..Len(heap) /\ \A n \in V : ChildrenOf(heap, n) \subseteq V
    BY <2>2, <2>6, TreeIsLeast
  <2>8. \A n \in V : /\ new[n].virtualPath = heap[n].virtualPath /\ new[n].file = heap[n].file
                     /\ new[n].parent = heap[n].parent /\ ChildrenOf(new, n) = ChildrenOf(heap, n)
    BY <2>2, <2>7 DEF SameNodes, SameNode, ChildrenOf
  <2>9. ASSUME MapsOfTree(p) PROVE MapsOfTree(q)
    <3>1. /\ Mapped(heap, V, q.virtual, q.real)
          /\ \A n \in V : \A c \in ChildrenOf(heap, n) : heap[c].parent = n
          /\ SiblingsHaveNames => PathsApart(heap, V)
      BY <2>1, <2>6, <2>9 DEF MapsOfTree
    <3>2. Mapped(new, V, q.virtual, q.real)
      <4>1. {new[n].virtualPath : n \in V} = {heap[n].virtualPath : n \in V}
        BY <2>8
      <4>2. {new[n].file : n \in V} = {heap[n].file : n \in V}
        BY <2>8
      <4>. QED BY <2>8, <3>1, <4>1, <4>2 DEF Mapped
    <3>3. \A n \in V : \A c \in ChildrenOf(new, n) : new[c].parent = n
      BY <2>7, <2>8, <3>1
    <3>4. SiblingsHaveNames => PathsApart(new, V)
      BY <2>8, <3>1 DEF PathsApart
    <3>. QED BY <2>1, <2>6, <3>2, <3>3, <3>4 DEF MapsOfTree
  <2>. QED BY <2>1, <2>2, <2>3, <2>6, <2>9 DEF Ready, Loads
<1>. QED BY <1>1, <1>2 DEF Ready

\* The platform once its types were made anew (updateSourcemapTypes).
NoneFreed(p) == \A n \in Tree(p.heap, p.root) : p.heap[n].types # "freed"
PlatformInv(p) == Ready(p) /\ MapsOfTree(p) /\ NoneFreed(p)

Retyped(p) ==
    LET cleared == ClearSourcemapTypes(p)
    IN [cleared EXCEPT !.heap = Typed(@, TypedAtOnce(cleared))]

\* updateSourcemapTypes leaves no freed types in the tree and changes nothing else.
LEMMA RetypedPlatform ==
    ASSUME NEW p, Ready(p), MapsOfTree(p)
    PROVE  PlatformInv(Retyped(p))
<1>0. PICK heap \in Heaps : heap = p.heap
  BY DEF Ready, Loads, LoadsNone, Forest
<1>1. PICK root, virtual, real :
         /\ p = [heap |-> heap, root |-> root, virtual |-> virtual, real |-> real]
         /\ heap = p.heap /\ root = p.root /\ virtual = p.virtual /\ real = p.real
  BY <1>0 DEF Ready, IsPlatform
<1>2. PICK freed : freed = FreedHeap(heap) /\ SameNodes(freed, heap) /\ freed \in Heaps
  BY FreedOf DEF SameNodes
<1>3. PICK clear : /\ clear = IF root = Null THEN freed ELSE ClearCachedTypes(freed, {root})
                   /\ SameNodes(clear, freed) /\ clear \in Heaps
  <2>1. SameNodes(freed, freed)
    <3>1. \A n \in 1..Len(freed) : freed[n] \in NodeSet
      BY <1>2, HeapTypes
    <3>. QED BY <1>2, <3>1 DEF SameNodes, SameNode
  <2>2. SameNodes(ClearCachedTypes(freed, {root}), freed)
    BY <1>2, ClearCachedTypesOf
  <2>. QED BY <1>2, <2>1, <2>2 DEF SameNodes
<1>4. PICK cleared : /\ cleared = [heap |-> clear, root |-> root, virtual |-> virtual, real |-> real]
                     /\ cleared = ClearSourcemapTypes(p)
  <2>1. ClearSourcemapTypes(p) = [p EXCEPT !.heap = IF p.root = Null THEN FreedHeap(p.heap)
                                                    ELSE ClearCachedTypes(FreedHeap(p.heap), {p.root})]
    BY DEF ClearSourcemapTypes, FreedHeap
  <2>2. clear = IF p.root = Null THEN FreedHeap(p.heap) ELSE ClearCachedTypes(FreedHeap(p.heap), {p.root})
    BY <1>1, <1>2, <1>3
  <2>3. ClearSourcemapTypes(p) = [p EXCEPT !.heap = clear]
    BY <2>1, <2>2
  <2>. QED BY <1>1, <2>3
<1>5. PICK S, new : /\ S = TypedAtOnce(cleared) /\ new = Typed(clear, S)
                    /\ SameNodes(new, clear) /\ new \in Heaps
  <2>1. PICK S : S = TypedAtOnce(cleared)
    OBVIOUS
  <2>2. PICK new : new = Typed(clear, S)
    OBVIOUS
  <2>3. SameNodes(new, clear)
    BY <1>3, <2>2, TypedOf
  <2>4. new \in Heaps
    BY <2>3 DEF SameNodes
  <2>. QED BY <2>1, <2>2, <2>3, <2>4
<1>6. PICK q : /\ q = [heap |-> new, root |-> root, virtual |-> virtual, real |-> real]
               /\ q = Retyped(p)
  <2>1. cleared.heap = clear
    BY <1>4
  <2>2. Retyped(p) = [cleared EXCEPT !.heap = new]
    BY <1>4, <1>5, <2>1 DEF Retyped
  <2>. QED BY <1>4, <2>2
<1>a. Len(freed) = Len(heap) /\ Len(clear) = Len(heap) /\ Len(new) = Len(heap)
  BY <1>2, <1>3, <1>5 DEF SameNodes
<1>7. SameNodes(new, heap)
  <2>1. ASSUME NEW n \in 1..Len(heap) PROVE SameNode(new[n], heap[n])
    <3>1. SameNode(new[n], clear[n]) /\ SameNode(clear[n], freed[n]) /\ SameNode(freed[n], heap[n])
      BY <1>2, <1>3, <1>5, <1>a DEF SameNodes
    <3>. QED BY <3>1 DEF SameNode
  <2>. QED BY <1>5, <1>a, <2>1 DEF SameNodes
<1>8. Ready(q) /\ Tree(new, root) = Tree(heap, root) /\ MapsOfTree(q)
  <2>1. q.heap = new /\ q.root = root /\ q.virtual = virtual /\ q.real = real
    BY <1>6
  <2>2. IsPlatform(q)
    BY <1>6 DEF IsPlatform
  <2>. QED BY <1>1, <1>7, <2>1, <2>2, SameNodesMaps
<1>9. \A n \in Tree(heap, root) : new[n].types # "freed"
  <2>1. CASE LoadsNone(p)
    BY <1>1, <2>1, NoTreeHasNoNodes
  <2>2. CASE Loads(p)
    <3>1. Forest(heap, root) /\ root # Null
      BY <1>1, <2>2 DEF Loads
    <3>2. Tree(heap, root) = Descendants(heap, {root}) /\ Tree(heap, root) \subseteq 1..Len(heap)
          /\ {root} \in SUBSET (1..Len(heap))
      BY <3>1, TreeIsLeast DEF Forest
    <3>3. Descendants(freed, {root}) = Descendants(heap, {root}) /\ Len(freed) = Len(heap)
      BY <1>2, <3>1, <3>2, SameNodesBelow DEF SameNodes
    <3>4. clear = ClearCachedTypes(freed, {root}) /\ Len(clear) = Len(heap)
      BY <1>3, <3>1, <3>3 DEF SameNodes
    <3>5. \A n \in 1..Len(freed) :
             clear[n].types = IF n \in Descendants(freed, {root}) THEN "none" ELSE freed[n].types
      BY <1>2, <3>4, ClearCachedTypesOf
    <3>6. \A n \in 1..Len(clear) : new[n].types = IF n \in S THEN "live" ELSE clear[n].types
      BY <1>3, <1>5, TypedOf
    <3>7. ASSUME NEW n \in Tree(heap, root) PROVE new[n].types # "freed"
      <4>1. n \in 1..Len(freed) /\ n \in 1..Len(clear) /\ n \in Descendants(freed, {root})
        BY <1>a, <3>2, <3>3, <3>7
      <4>2. clear[n].types = "none"
        BY <3>5, <4>1
      <4>3. new[n].types = IF n \in S THEN "live" ELSE "none"
        BY <3>6, <4>1, <4>2
      <4>. QED BY <4>3
    <3>. QED BY <3>7
  <2>. QED BY <2>1, <2>2 DEF Ready
<1>10. NoneFreed(q)
  BY <1>6, <1>8, <1>9 DEF NoneFreed
<1>. QED BY <1>6, <1>8, <1>10 DEF PlatformInv

\* The platform once its maps were rebuilt.
LEMMA RebuiltPlatform ==
    ASSUME NEW p, Ready(p)
    PROVE  Ready(RebuildPathMaps(p)) /\ MapsOfTree(RebuildPathMaps(p))
<1>1. PICK heap, root, virtual, real :
         p = [heap |-> heap, root |-> root, virtual |-> virtual, real |-> real]
  BY DEF Ready, IsPlatform
<1>2. PICK q : q = RebuildPathMaps(p)
  OBVIOUS
<1>3. CASE LoadsNone(p)
  <2>1. root = Null /\ q = [heap |-> heap, root |-> root, virtual |-> NoMap, real |-> NoMap]
    BY <1>1, <1>2, <1>3 DEF RebuildPathMaps, LoadsNone
  <2>2. LoadsNone(q) /\ IsPlatform(q)
    BY <1>1, <1>3, <2>1 DEF LoadsNone, IsPlatform
  <2>3. Tree(q.heap, q.root) = {}
    BY <2>2, NoTreeHasNoNodes
  <2>4. q.virtual = NoMap /\ q.real = NoMap /\ DOMAIN NoMap = {}
    BY <2>1 DEF NoMap
  <2>5. MapsOfTree(q)
    BY <2>3, <2>4 DEF MapsOfTree, Mapped, PathsApart
  <2>. QED BY <1>2, <2>2, <2>5 DEF Ready
<1>4. CASE Loads(p)
  <2>1. Loads(q) /\ MapsOfTree(q)
    BY <1>2, <1>4, RebuiltMaps DEF Rebuilds
  <2>2. root # Null
    BY <1>1, <1>4 DEF Loads
  <2>3. IsPlatform(q)
    BY <1>1, <1>2, <2>2 DEF IsPlatform, RebuildPathMaps
  <2>. QED BY <1>2, <2>1, <2>3 DEF Ready
<1>. QED BY <1>3, <1>4 DEF Ready

\* Trees of the tool and of the plugin, and what is written by default.
LEMMA TreesAreTrees ==
    /\ \A tree \in Trees : IsTree(tree)
    /\ IsTree(DefaultContents)
<1>1. AreTrees(Trees)
  <2>1. Trees \subseteq [name : STRING, className : STRING, file : STRING,
                        pluginManaged : BOOLEAN, children : Seq(Trees)]
    BY TreesAssumption
  <2>2. STRING \subseteq Text /\ BOOLEAN = Flags
    BY DEF Text, Flags
  <2>3. Trees \subseteq [name : Text, className : Text, file : Text,
                        pluginManaged : Flags, children : Seq(Trees)]
    BY <2>1, <2>2
  <2>. QED BY <2>3 DEF AreTrees, SiblingsHaveNames
<1>2. AreTrees({DefaultContents})
  <2>1. PICK J : J = {DefaultContents}
    OBVIOUS
  <2>2. "Default" \in Text /\ "DataModel" \in Text /\ NoFile \in Text /\ FALSE \in Flags
    BY DEF Text, Flags
  <2>3. <<>> \in Seq(J)
    OBVIOUS
  <2>4. DefaultContents \in [name : Text, className : Text, file : Text, pluginManaged : Flags, children : Seq(J)]
    BY <2>2, <2>3, Zenon DEF DefaultContents, Json
  <2>5. DefaultContents.children = <<>>
    BY DEF DefaultContents, Json
  <2>6. NamesApart(DefaultContents)
    <3>1. 1..Len(<<>>) = {}
      OBVIOUS
    <3>. QED BY <2>5, <3>1 DEF NamesApart
  <2>. QED BY <2>1, <2>4, <2>6 DEF AreTrees
<1>. QED BY <1>1, <1>2 DEF IsTree

\* A platform the plugin's tree was merged into (hydrateSourcemapWithPluginInfo).
Hydrates(result) == Ready(result.platform) /\ (result.updated => Loads(result.platform))

\* Merging leaves a platform, and one with a tree when it changed something.
LEMMA HydratedPlatform ==
    ASSUME NEW p, Ready(p), NEW info \in DataModels \cup {NoPlugin}
    PROVE  Hydrates(Hydrate(p, info))
<1>1. PICK heap, root, virtual, real :
         p = [heap |-> heap, root |-> root, virtual |-> virtual, real |-> real]
  BY DEF Ready, IsPlatform
<1> DEFINE game == Node("game", "DataModel", NoFile, FALSE)
           rooted == IF p.root # Null THEN p
                     ELSE [p EXCEPT !.heap = Append(@, game), !.root = Len(p.heap) + 1]
           mutated == Mutate(rooted.heap, rooted.root, info)
<1>2. Loads(rooted) /\ IsPlatform(rooted)
  <2>1. CASE Loads(p)
    BY <2>1 DEF Loads, Ready
  <2>2. CASE LoadsNone(p)
    <3>1. heap \in Heaps /\ Len(heap) = 0 /\ root = Null
      BY <1>1, <2>2 DEF LoadsNone
    <3>2. game \in NodeSet /\ game.children = <<>> /\ game.parent = 0
      <4>1. "game" \in Text /\ "DataModel" \in Text /\ NoFile \in Text /\ FALSE \in Flags
        BY DEF Text, Flags
      <4>2. Fresh(game, "game")
        BY <4>1, NodeType
      <4>. QED BY <4>2 DEF Fresh
    <3>. HIDE DEF game
    <3>3. PICK new : new = Append(heap, game)
      OBVIOUS
    <3>4. new \in Heaps /\ Len(new) = 1 /\ new[1] = game
      BY <3>1, <3>2, <3>3 DEF Heaps
    <3>5. rooted = [heap |-> new, root |-> 1, virtual |-> virtual, real |-> real]
      <4>1. p.root = Null /\ p.heap = heap /\ Len(p.heap) + 1 = 1
        BY <1>1, <3>1
      <4>2. rooted = [p EXCEPT !.heap = Append(p.heap, game), !.root = Len(p.heap) + 1]
        BY <4>1
      <4>3. rooted = [p EXCEPT !.heap = new, !.root = 1]
        BY <3>3, <4>1, <4>2
      <4>. HIDE DEF rooted
      <4>. QED BY <1>1, <4>3
    <3>6. \A n \in 1..Len(new) : new[n] = game
      BY <3>4
    <3>7. 1..Len(<<>>) = {} /\ 0 \in 0..Len(new) /\ 1 \in 1..Len(new)
      BY <3>4
    <3>8. ListsNodes(new, 1) /\ ListsOnce(new) /\ ListsNamesApart(new)
      BY <3>2, <3>6, <3>7 DEF ListsNodes, ListsOnce, ListsNamesApart
    <3>9. Forest(new, 1)
      BY <3>2, <3>4, <3>6, <3>7, <3>8 DEF Forest
    <3>10. 1 # Null
      BY DEF Null
    <3>. HIDE DEF rooted
    <3>. QED BY <3>5, <3>9, <3>10 DEF Loads, IsPlatform
  <2>. QED BY <2>1, <2>2 DEF Ready
<1>3. Hydrate(p, info) = IF info = NoPlugin THEN [platform |-> p, updated |-> FALSE]
                         ELSE IF rooted.heap[rooted.root].className # "DataModel"
                         THEN [platform |-> rooted, updated |-> FALSE]
                         ELSE [platform |-> [rooted EXCEPT !.heap = mutated.heap], updated |-> mutated.updated]
  BY DEF Hydrate
<1>. HIDE DEF rooted
<1>4. CASE info = NoPlugin
  BY <1>3, <1>4 DEF Hydrates
<1>5. CASE info # NoPlugin
  <2>1. IsTree(info)
    BY <1>5, TreesAreTrees, TreesAssumption
  <2>2. Forest(mutated.heap, rooted.root)
    BY <1>2, <2>1, MutateForest DEF Loads
  <2>. HIDE DEF mutated
  <2>3. PICK new : new = [rooted EXCEPT !.heap = mutated.heap]
    OBVIOUS
  <2>4. IsPlatform(new) /\ new.heap = mutated.heap /\ new.root = rooted.root
    BY <1>2, <2>3 DEF IsPlatform
  <2>5. Loads(new)
    BY <1>2, <2>2, <2>4 DEF Loads
  <2>. QED BY <1>2, <1>3, <1>5, <2>3, <2>4, <2>5 DEF Hydrates, Ready
<1>. QED BY <1>4, <1>5

-----------------------------------------------------------------------------
(* The invariant.                                                            *)

CheckedStates == [dirty : Flags, invalid : Flags, types : Types, node : Nat]

\* Modules are told of types that are gone, and clean ones are as they were checked.
CheckedOf(c, p) ==
    /\ c \in [Modules -> CheckedStates]
    /\ \A m \in Modules :
         /\ c[m].types = "freed" => c[m].invalid
         /\ ~c[m].dirty => /\ c[m].node = NodeOf(p, m)
                           /\ c[m].node # Null => p.heap[c[m].node].types = "live"

StateInv ==
    /\ event \in Flags
    /\ config \in Settings /\ watching = config.enabled
    /\ pluginInfo \in DataModels \cup {NoPlugin}
    /\ changes \in 0..MaxChanges

IsContents(contents) == contents \in {Absent, Malformed} \/ IsTree(contents)
DiskInv == IsContents(disk)

PlatformHolds == PlatformInv(platform)
CheckedInv == CheckedOf(checked, platform)

SourcemapInv == StateInv /\ DiskInv /\ PlatformHolds /\ CheckedInv

\* The platform at the beginning.
LEMMA EmptyIsReady ==
    Ready(EmptyPlatform) /\ LoadsNone(EmptyPlatform) /\ PlatformInv(EmptyPlatform)
<1>1. EmptyPlatform = [heap |-> <<>>, root |-> Null, virtual |-> NoMap, real |-> NoMap]
  BY DEF EmptyPlatform
<1>2. <<>> \in Heaps /\ Len(<<>>) = 0
  BY DEF Heaps
<1>3. LoadsNone(EmptyPlatform) /\ IsPlatform(EmptyPlatform)
  BY <1>1, <1>2 DEF LoadsNone, IsPlatform
<1>4. Tree(EmptyPlatform.heap, EmptyPlatform.root) = {}
  BY <1>3, NoTreeHasNoNodes
<1>5. EmptyPlatform.virtual = NoMap /\ EmptyPlatform.real = NoMap /\ DOMAIN NoMap = {}
  BY <1>1 DEF NoMap
<1>6. MapsOfTree(EmptyPlatform)
  BY <1>4, <1>5 DEF MapsOfTree, Mapped, PathsApart
<1>. QED BY <1>3, <1>4, <1>6 DEF Ready, PlatformInv, NoneFreed

\* Modules are checked again once the types of the tree are new.
LEMMA AllInvalidated ==
    ASSUME NEW c \in [Modules -> CheckedStates], NEW p
    PROVE  CheckedOf([m \in Modules |-> Invalidated(c[m])], p)
<1>1. ASSUME NEW m \in Modules
      PROVE  /\ Invalidated(c[m]) \in CheckedStates
             /\ Invalidated(c[m]).invalid /\ Invalidated(c[m]).dirty
  <2>1. PICK state \in CheckedStates : state = c[m]
    OBVIOUS
  <2>2. PICK types \in Types : types = Freed(state.types)
    BY DEF Freed, Types, CheckedStates
  <2>3. TRUE \in Flags
    BY DEF Flags
  <2>4. Invalidated(state) = [state EXCEPT !.dirty = TRUE, !.invalid = TRUE, !.types = types]
    BY <2>2 DEF Invalidated
  <2>. QED BY <2>1, <2>3, <2>4 DEF CheckedStates
<1>2. PICK d : d = [m \in Modules |-> Invalidated(c[m])]
  OBVIOUS
<1>3. \A m \in Modules : d[m] \in CheckedStates /\ d[m].invalid /\ d[m].dirty
  BY <1>1, <1>2
<1>4. d \in [Modules -> CheckedStates]
  BY <1>2, <1>3
<1>. QED BY <1>2, <1>3, <1>4 DEF CheckedOf

\* What every change of the tree ends with.
LEMMA UpdateKeeps ==
    ASSUME CheckedInv, NEW p, Ready(p), UpdateSourcemapTypes(RebuildPathMaps(p))
    PROVE  PlatformHolds' /\ CheckedInv'
<1>1. PICK q : q = RebuildPathMaps(p)
  OBVIOUS
<1>2. Ready(q) /\ MapsOfTree(q)
  BY <1>1, RebuiltPlatform
<1>3. platform' = Retyped(q) /\ checked' = [m \in Modules |-> Invalidated(checked[m])]
  BY <1>1 DEF UpdateSourcemapTypes, Retyped
<1>4. PlatformInv(Retyped(q))
  BY <1>2, RetypedPlatform
<1>5. CheckedOf(checked', platform')
  <2>1. checked \in [Modules -> CheckedStates]
    BY DEF CheckedInv, CheckedOf
  <2>. QED BY <1>3, <2>1, AllInvalidated
<1>. QED BY <1>3, <1>4, <1>5 DEF PlatformHolds, CheckedInv

\* What is saved is a tree, and the editor may have a change to report.
LEMMA WriteKeeps ==
    ASSUME StateInv, DiskInv, NEW hydrated, Hydrates(hydrated), NEW settings, NEW pending \in Flags,
           WriteSourcemap(hydrated, settings, pending)
    PROVE  DiskInv' /\ event' \in Flags
<1>1. PICK contents : contents = ToJson(hydrated.platform.heap, hydrated.platform.root)
  OBVIOUS
<1>2. hydrated.updated => IsTree(contents)
  BY <1>1, SavedIsTree DEF Hydrates, Loads
<1>3. pending \in Flags /\ (pending \/ watching) \in Flags
  BY DEF Flags
<1>4. \/ hydrated.updated /\ disk' = contents /\ event' = (pending \/ watching)
      \/ disk' = disk /\ event' = pending
  BY <1>1 DEF WriteSourcemap
<1>. QED BY <1>2, <1>3, <1>4 DEF DiskInv, IsContents

\* A platform is loaded from a tree, or from nothing.
LEMMA LoadedHydrates ==
    ASSUME NEW contents, contents = Malformed \/ IsTree(contents), NEW info \in DataModels \cup {NoPlugin}
    PROVE  Hydrates(Loaded(contents, info))
<1>1. CASE contents = Malformed
  BY <1>1, EmptyIsReady DEF Loaded, Hydrates
<1>2. CASE contents # Malformed
  <2>1. PICK heap : heap = FromJson(contents) /\ Forest(heap, 1)
    BY <1>2, FromJsonForest
  <2>a. PICK root, null, none, map : root = 1 /\ null = Null /\ none = <<>> /\ map = NoMap
    OBVIOUS
  <2>b. EmptyPlatform = [heap |-> none, root |-> null, virtual |-> map, real |-> map]
    BY <2>a DEF EmptyPlatform
  <2>2. PICK p : p = [heap |-> heap, root |-> root, virtual |-> map, real |-> map]
    OBVIOUS
  <2>c. [EmptyPlatform EXCEPT !.heap = heap, !.root = root] = p
    <3>1. PICK empty, filled :
             /\ empty = [heap |-> none, root |-> null, virtual |-> map, real |-> map]
             /\ filled = [heap |-> heap, root |-> null, virtual |-> map, real |-> map]
      OBVIOUS
    <3>2. [empty EXCEPT !.heap = heap] = filled
      BY <3>1
    <3>3. [filled EXCEPT !.root = root] = p
      BY <2>2, <3>1
    <3>4. EmptyPlatform = empty
      BY <2>b, <3>1
    <3>. QED BY <3>2, <3>3, <3>4, Zenon
  <2>3. [EmptyPlatform EXCEPT !.heap = FromJson(contents), !.root = 1] = p
    BY <2>1, <2>a, <2>c
  <2>4. Ready(p)
    <3>1. IsPlatform(p) /\ p.heap = heap /\ p.root = root
      BY <2>2 DEF IsPlatform
    <3>2. Forest(heap, root) /\ root # Null
      BY <2>1, <2>a DEF Null
    <3>. QED BY <3>1, <3>2 DEF Ready, Loads
  <2>5. Loaded(contents, info) = Hydrate(p, info)
    BY <1>2, <2>3 DEF Loaded
  <2>. QED BY <2>4, <2>5, HydratedPlatform
<1>. QED BY <1>1, <1>2

\* updateSourceMap keeps the invariant, whether there is something to read or not.
LEMMA UpdateSourceMapKeeps ==
    ASSUME SourcemapInv, NEW settings, NEW pending \in Flags, UpdateSourceMap(settings, pending)
    PROVE  DiskInv' /\ event' \in Flags /\ PlatformHolds' /\ CheckedInv'
<1>0. StateInv /\ DiskInv /\ PlatformHolds /\ CheckedInv
  BY DEF SourcemapInv
<1>1. CASE disk = Absent /\ pluginInfo = NoPlugin
  BY <1>0, <1>1 DEF UpdateSourceMap, DiskInv, PlatformHolds, CheckedInv
<1>2. CASE ~(disk = Absent /\ pluginInfo = NoPlugin)
  <2>1. PICK contents : contents = IF disk = Absent THEN DefaultContents ELSE disk
    OBVIOUS
  <2>2. PICK loaded : loaded = Loaded(contents, pluginInfo)
    OBVIOUS
  <2>3. contents = Malformed \/ IsTree(contents)
    BY <1>0, <2>1, TreesAreTrees DEF DiskInv, IsContents
  <2>4. Hydrates(loaded)
    BY <1>0, <2>2, <2>3, LoadedHydrates DEF StateInv
  <2>5. WriteSourcemap(loaded, settings, pending) /\ UpdateSourcemapTypes(RebuildPathMaps(loaded.platform))
    BY <1>2, <2>1, <2>2 DEF UpdateSourceMap
  <2>. QED BY <1>0, <2>4, <2>5, WriteKeeps, UpdateKeeps DEF Hydrates
<1>. QED BY <1>1, <1>2

\* The invariant holds at first.
LEMMA InitHolds == Init => SourcemapInv
<1>. SUFFICES ASSUME Init PROVE SourcemapInv
  OBVIOUS
<1>1. StateInv
  <2>1. FALSE \in Flags /\ config \in Settings /\ config.enabled = FALSE
    BY DEF Init, Settings, Flags
  <2>2. event \in Flags /\ watching = config.enabled /\ pluginInfo \in DataModels \cup {NoPlugin}
    BY <2>1, Zenon DEF Init
  <2>3. changes \in 0..MaxChanges
    BY MaxChangesAssumption DEF Init
  <2>. QED BY <2>1, <2>2, <2>3 DEF StateInv
<1>2. DiskInv
  <2>1. disk \in Sourcemaps \cup {Absent}
    BY DEF Init
  <2>2. disk \in {Absent, Malformed} \/ disk \in Trees
    BY <2>1, TreesAssumption
  <2>. QED BY <2>2, TreesAreTrees DEF DiskInv, IsContents
<1>3. PlatformHolds
  BY EmptyIsReady DEF Init, PlatformHolds
<1>4. CheckedInv
  <2>1. Unchecked \in CheckedStates /\ Unchecked.dirty /\ Unchecked.types = "none"
    BY DEF Unchecked, CheckedStates, Flags, Types, Null
  <2>2. checked = [m \in Modules |-> Unchecked]
    BY DEF Init
  <2>3. \A m \in Modules : checked[m] = Unchecked
    BY <2>2
  <2>. HIDE DEF Unchecked
  <2>4. checked \in [Modules -> CheckedStates]
    BY <2>1, <2>2
  <2>. QED BY <2>1, <2>3, <2>4 DEF CheckedInv, CheckedOf
<1>. QED BY <1>1, <1>2, <1>3, <1>4 DEF SourcemapInv

\* The node of a module is in the tree.
LEMMA NodeOfIsInTree ==
    ASSUME NEW p, Ready(p), MapsOfTree(p), NEW name
    PROVE  NodeOf(p, name) = Null \/ NodeOf(p, name) \in Tree(p.heap, p.root)
<1>1. \A path \in DOMAIN p.virtual : p.virtual[path] \in Tree(p.heap, p.root)
  BY DEF MapsOfTree, Mapped
<1>2. \A file \in DOMAIN p.real : p.real[file] \in Tree(p.heap, p.root)
  BY DEF MapsOfTree, Mapped
<1>. QED BY <1>1, <1>2 DEF NodeOf

\* The tree is made of nodes.
LEMMA TreeIsNodes ==
    ASSUME NEW p, Ready(p)
    PROVE  Tree(p.heap, p.root) \subseteq 1..Len(p.heap) /\ p.heap \in Heaps /\ Len(p.heap) \in Nat
<1>1. CASE LoadsNone(p)
  BY <1>1, NoTreeHasNoNodes DEF LoadsNone
<1>2. CASE Loads(p)
  BY <1>2, TreeIsLeast, ForestIsClosed DEF Loads, Forest
<1>. QED BY <1>1, <1>2 DEF Ready

\* Checking a module gives types to nodes of the tree only.
LEMMA CheckModuleKeeps ==
    ASSUME SourcemapInv, NEW name \in Modules, CheckModule(name)
    PROVE  SourcemapInv'
<1>0. StateInv /\ DiskInv /\ PlatformHolds /\ CheckedInv
  BY DEF SourcemapInv
<1>1. UNCHANGED <<disk, event, config, watching, pluginInfo, changes>>
  BY DEF CheckModule
<1>2. StateInv' /\ DiskInv'
  BY <1>0, <1>1 DEF StateInv, DiskInv
<1>3. PICK p, n : p = platform /\ n = NodeOf(p, name)
  OBVIOUS
<1>4. PICK S : platform' = IF n = Null THEN platform
                           ELSE [platform EXCEPT !.heap = Typed(@, S \cup {n})]
  BY <1>3 DEF CheckModule
<1>5. Ready(p) /\ MapsOfTree(p) /\ NoneFreed(p)
  BY <1>0, <1>3 DEF PlatformHolds, PlatformInv
<1>6. p.heap \in Heaps /\ Len(p.heap) \in Nat /\ Tree(p.heap, p.root) \subseteq 1..Len(p.heap)
      /\ (n = Null \/ n \in Tree(p.heap, p.root))
  BY <1>3, <1>5, TreeIsNodes, NodeOfIsInTree
\* The platform differs in the types of some nodes at most: those are live now.
<1>7. PICK q : /\ q = platform' /\ IsPlatform(q) /\ SameNodes(q.heap, p.heap)
               /\ q.root = p.root /\ q.virtual = p.virtual /\ q.real = p.real
               /\ \A k \in 1..Len(p.heap) : q.heap[k].types = p.heap[k].types \/ q.heap[k].types = "live"
               /\ n # Null => q.heap[n].types = "live"
  <2>1. CASE n = Null
    <3>1. SameNodes(p.heap, p.heap)
      <4>1. \A k \in 1..Len(p.heap) : p.heap[k] \in NodeSet
        BY <1>6, HeapTypes
      <4>. QED BY <1>6, <4>1 DEF SameNodes, SameNode
    <3>. QED BY <1>3, <1>4, <1>5, <2>1, <3>1 DEF Ready
  <2>2. CASE n # Null
    <3>1. PICK heap, root, virtual, real :
             p = [heap |-> heap, root |-> root, virtual |-> virtual, real |-> real]
      BY <1>5 DEF Ready, IsPlatform
    <3>2. PICK T, new : T = S \cup {n} /\ new = Typed(heap, T)
      OBVIOUS
    <3>3. SameNodes(new, heap) /\ \A k \in 1..Len(heap) : new[k].types = IF k \in T THEN "live" ELSE heap[k].types
      BY <1>6, <3>1, <3>2, TypedOf
    <3>4. platform' = [heap |-> new, root |-> root, virtual |-> virtual, real |-> real]
      <4>1. platform' = [p EXCEPT !.heap = Typed(p.heap, T)] /\ p.heap = heap
        <5>1. p.heap = heap
          BY <3>1
        <5>2. platform' = [p EXCEPT !.heap = Typed(p.heap, S \cup {n})]
          BY <1>3, <1>4, <2>2, Zenon
        <5>. QED BY <3>2, <5>1, <5>2, Zenon
      <4>2. platform' = [p EXCEPT !.heap = new]
        BY <3>2, <4>1
      <4>. QED BY <3>1, <4>2
    <3>5. \A k \in 1..Len(heap) : new[k].types = heap[k].types \/ new[k].types = "live"
      BY <3>3
    <3>6. new[n].types = "live"
      BY <1>6, <2>2, <3>1, <3>2, <3>3
    <3>. QED BY <3>1, <3>3, <3>4, <3>5, <3>6 DEF IsPlatform
  <2>. QED BY <2>1, <2>2
<1>8. Ready(q) /\ Tree(q.heap, q.root) = Tree(p.heap, p.root) /\ MapsOfTree(q)
  BY <1>5, <1>7, SameNodesMaps
<1>9. NoneFreed(q)
  BY <1>5, <1>6, <1>7, <1>8 DEF NoneFreed
<1>10. PlatformHolds'
  BY <1>7, <1>8, <1>9 DEF PlatformHolds, PlatformInv
<1>11. PICK state : /\ state = [dirty |-> FALSE, invalid |-> FALSE, node |-> n,
                                types |-> IF n = Null THEN "none" ELSE "live"]
                    /\ checked' = [checked EXCEPT ![name] = state]
  BY <1>3 DEF CheckModule
<1>12. state \in CheckedStates /\ state.types # "freed" /\ state.node = n
  <2>1. n \in Nat
    BY <1>6 DEF Null
  <2>2. FALSE \in Flags
    BY DEF Flags
  <2>3. PICK types \in Types : types = (IF n = Null THEN "none" ELSE "live") /\ types # "freed"
    BY DEF Types
  <2>4. state = [dirty |-> FALSE, invalid |-> FALSE, node |-> n, types |-> types]
    BY <1>11, <2>3
  <2>. QED BY <2>1, <2>2, <2>3, <2>4 DEF CheckedStates
<1>13. /\ checked' \in [Modules -> CheckedStates] /\ checked'[name] = state
       /\ \A m \in Modules : m # name => checked'[m] = checked[m]
  <2>1. checked \in [Modules -> CheckedStates]
    BY <1>0 DEF CheckedInv, CheckedOf
  <2>. QED BY <1>11, <1>12, <2>1
<1>14. \A m \in Modules : NodeOf(q, m) = NodeOf(p, m)
  BY <1>7 DEF NodeOf
<1>15. ASSUME NEW m \in Modules
       PROVE  /\ checked'[m].types = "freed" => checked'[m].invalid
              /\ ~checked'[m].dirty => /\ checked'[m].node = NodeOf(q, m)
                                       /\ checked'[m].node # Null => q.heap[checked'[m].node].types = "live"
  <2>1. CASE m = name
    BY <1>3, <1>7, <1>12, <1>13, <1>14, <2>1
  <2>2. CASE m # name
    <3>1. PICK c : c = checked[m] /\ c = checked'[m]
      BY <1>13, <2>2
    <3>2. /\ c.types = "freed" => c.invalid
          /\ ~c.dirty => /\ c.node = NodeOf(p, m)
                         /\ c.node # Null => p.heap[c.node].types = "live"
      BY <1>0, <1>3, <3>1 DEF CheckedInv, CheckedOf
    <3>3. ASSUME ~c.dirty, c.node # Null PROVE q.heap[c.node].types = "live"
      <4>1. c.node \in 1..Len(p.heap)
        BY <1>5, <1>6, <3>2, <3>3, NodeOfIsInTree
      <4>. QED BY <1>7, <3>2, <3>3, <4>1
    <3>. QED BY <1>14, <3>1, <3>2, <3>3
  <2>. QED BY <2>1, <2>2
<1>16. CheckedInv'
  <2>1. CheckedOf(checked', q)
    BY <1>13, <1>15 DEF CheckedOf
  <2>. QED BY <1>7, <2>1 DEF CheckedInv
<1>. QED BY <1>2, <1>10, <1>16 DEF SourcemapInv

\* Every step keeps the invariant.
LEMMA NextHolds == SourcemapInv /\ [Next]_vars => SourcemapInv'
<1>. SUFFICES ASSUME SourcemapInv, [Next]_vars PROVE SourcemapInv'
  OBVIOUS
<1>0. StateInv /\ DiskInv /\ PlatformHolds /\ CheckedInv
  BY DEF SourcemapInv
<1>c. Change => changes' \in 0..MaxChanges
  BY <1>0, MaxChangesAssumption DEF Change, StateInv
<1>1. ASSUME NEW new \in Settings, SetupWithConfiguration(new) PROVE SourcemapInv'
  <2>1. changes' \in 0..MaxChanges /\ config' = new /\ watching' = new.enabled /\ pluginInfo' = pluginInfo
    BY <1>1, <1>c DEF SetupWithConfiguration, Watched
  <2>2. DiskInv' /\ event' \in Flags /\ PlatformHolds' /\ CheckedInv'
    <3>1. CASE new.enabled
      <4>1. UpdateSourceMap(new, event) /\ event \in Flags
        BY <1>0, <1>1, <3>1 DEF SetupWithConfiguration, StateInv
      <4>. QED BY <4>1, UpdateSourceMapKeeps
    <3>2. CASE ~new.enabled
      <4>1. UNCHANGED <<disk, event, platform, checked>>
        BY <1>1, <3>2 DEF SetupWithConfiguration
      <4>. QED BY <1>0, <4>1 DEF StateInv, DiskInv, PlatformHolds, CheckedInv
    <3>. QED BY <3>1, <3>2
  <2>3. StateInv'
    BY <1>0, <2>1, <2>2 DEF StateInv
  <2>. QED BY <2>2, <2>3 DEF SourcemapInv
<1>2. ASSUME NEW contents \in Sourcemaps \cup {Absent}, SourcemapChanges(contents) PROVE SourcemapInv'
  <2>1. /\ changes' \in 0..MaxChanges /\ disk' = contents /\ event' = (event \/ watching)
        /\ UNCHANGED <<config, watching, pluginInfo, platform, checked>>
    BY <1>2, <1>c DEF SourcemapChanges
  <2>2. IsContents(contents)
    <3>1. contents \in {Absent, Malformed} \/ contents \in Trees
      BY TreesAssumption
    <3>. QED BY <3>1, TreesAreTrees DEF IsContents
  <2>3. event' \in Flags
    BY <2>1 DEF Flags
  <2>4. StateInv'
    BY <1>0, <2>1, <2>3 DEF StateInv
  <2>5. DiskInv' /\ PlatformHolds' /\ CheckedInv'
    BY <1>0, <2>1, <2>2 DEF DiskInv, PlatformHolds, CheckedInv
  <2>. QED BY <2>4, <2>5 DEF SourcemapInv
<1>3. ASSUME OnDidChangeWatchedFiles PROVE SourcemapInv'
  <2>1. UpdateSourceMap(config, FALSE) /\ FALSE \in Flags /\ UNCHANGED <<config, watching, pluginInfo, changes>>
    BY <1>3 DEF OnDidChangeWatchedFiles, Flags
  <2>2. DiskInv' /\ event' \in Flags /\ PlatformHolds' /\ CheckedInv'
    BY <2>1, UpdateSourceMapKeeps
  <2>3. StateInv'
    BY <1>0, <2>1, <2>2 DEF StateInv
  <2>. QED BY <2>2, <2>3 DEF SourcemapInv
<1>4. ASSUME NEW dataModel \in DataModels, OnStudioPluginFullChange(dataModel) PROVE SourcemapInv'
  <2>1. PICK hydrated : hydrated = Hydrate(platform, dataModel)
    OBVIOUS
  <2>2. /\ changes' \in 0..MaxChanges /\ pluginInfo' = dataModel /\ UNCHANGED <<config, watching>>
        /\ WriteSourcemap(hydrated, config, event)
        /\ UpdateSourcemapTypes(RebuildPathMaps(hydrated.platform))
    BY <1>4, <1>c, <2>1 DEF OnStudioPluginFullChange
  <2>3. Hydrates(hydrated)
    BY <1>0, <2>1, HydratedPlatform DEF PlatformHolds, PlatformInv
  <2>4. DiskInv' /\ event' \in Flags
    BY <1>0, <2>2, <2>3, WriteKeeps DEF StateInv
  <2>5. PlatformHolds' /\ CheckedInv'
    BY <1>0, <2>2, <2>3, UpdateKeeps DEF Hydrates
  <2>6. StateInv'
    BY <1>0, <2>2, <2>4 DEF StateInv
  <2>. QED BY <2>4, <2>5, <2>6 DEF SourcemapInv
<1>5. ASSUME OnStudioPluginClear PROVE SourcemapInv'
  <2>1. /\ changes' \in 0..MaxChanges /\ pluginInfo' = NoPlugin
        /\ UNCHANGED <<disk, event, config, watching>>
    BY <1>5, <1>c DEF OnStudioPluginClear
  <2>2. PlatformHolds' /\ CheckedInv'
    <3>1. CASE platform.root = Null
      <4>1. UNCHANGED <<platform, checked>>
        BY <1>5, <3>1 DEF OnStudioPluginClear
      <4>. QED BY <1>0, <4>1 DEF PlatformHolds, CheckedInv
    <3>2. CASE platform.root # Null
      <4>1. PICK heap, root, virtual, real :
               platform = [heap |-> heap, root |-> root, virtual |-> virtual, real |-> real]
        BY <1>0 DEF PlatformHolds, PlatformInv, Ready, IsPlatform
      <4>2. Forest(heap, root) /\ root # Null
        BY <1>0, <3>2, <4>1 DEF PlatformHolds, PlatformInv, Ready, Loads, LoadsNone
      <4>3. PICK new : new = ClearPluginManaged(heap, root) /\ Forest(new, root)
        BY <4>2, ClearedForest
      <4>4. PICK p : p = [heap |-> new, root |-> root, virtual |-> virtual, real |-> real]
        OBVIOUS
      <4>5. p = [platform EXCEPT !.heap = ClearPluginManaged(@, platform.root)]
        BY <4>1, <4>3, <4>4
      <4>6. UpdateSourcemapTypes(RebuildPathMaps(p))
        BY <1>5, <3>2, <4>5 DEF OnStudioPluginClear
      <4>7. Ready(p)
        BY <4>2, <4>3, <4>4 DEF Ready, Loads, IsPlatform
      <4>. QED BY <1>0, <4>6, <4>7, UpdateKeeps
    <3>. QED BY <3>1, <3>2
  <2>3. StateInv' /\ DiskInv'
    BY <1>0, <2>1 DEF StateInv, DiskInv
  <2>. QED BY <2>2, <2>3 DEF SourcemapInv
<1>6. ASSUME NEW name \in Modules, CheckModule(name) PROVE SourcemapInv'
  BY <1>6, CheckModuleKeeps
<1>7. ASSUME UNCHANGED vars PROVE SourcemapInv'
  BY <1>0, <1>7 DEF vars, SourcemapInv, StateInv, DiskInv, PlatformHolds, CheckedInv
<1>. QED BY <1>1, <1>2, <1>3, <1>4, <1>5, <1>6, <1>7 DEF Next

\* The invariant holds always.
LEMMA SourcemapInvHolds == Spec => []SourcemapInv
BY InitHolds, NextHolds, PTL DEF Spec

-----------------------------------------------------------------------------
(* Theorems.                                                                 *)

\* The maps have nodes of the tree.
LEMMA MapsHaveNodes ==
    ASSUME PlatformHolds
    PROVE  Range(platform.virtual) \cup Range(platform.real) \subseteq Nodes
BY DEF PlatformHolds, PlatformInv, MapsOfTree, Mapped, Range, Nodes

\* The invariant implies the properties of the types,
LEMMA InvImpliesTypes == SourcemapInv => TypesFollowTheTree
<1>. SUFFICES ASSUME SourcemapInv PROVE TypesFollowTheTree
  OBVIOUS
<1>1. PlatformHolds /\ CheckedInv
  BY DEF SourcemapInv
<1>2. NoFreedTypes
  <2>1. \A n \in Nodes : At(n).types # "freed"
    BY <1>1 DEF PlatformHolds, PlatformInv, NoneFreed, Nodes, At
  <2>2. \A m \in Modules : checked[m].types = "freed" => checked[m].invalid
    BY <1>1 DEF CheckedInv, CheckedOf
  <2>. QED BY <1>1, <2>1, <2>2, MapsHaveNodes DEF NoFreedTypes
<1>3. CleanModulesSeeTheTree
  BY <1>1 DEF CheckedInv, CheckedOf, CleanModulesSeeTheTree, At
<1>. QED BY <1>2, <1>3 DEF TypesFollowTheTree

\* the type invariant,
LEMMA InvImpliesTypeOK == SourcemapInv => TypeOK
<1>. SUFFICES ASSUME SourcemapInv PROVE TypeOK
  OBVIOUS
<1>1. StateInv /\ PlatformHolds /\ CheckedInv
  BY DEF SourcemapInv
<1>2. PICK heap, root : heap = platform.heap /\ root = platform.root
  OBVIOUS
<1>3. heap \in Heaps /\ Len(heap) \in Nat /\ Nodes \subseteq 1..Len(heap)
  BY <1>1, <1>2, TreeIsNodes DEF PlatformHolds, PlatformInv, Nodes
<1>4. DOMAIN heap = 1..Len(heap)
  BY <1>3 DEF Heaps
<1>5. Range(platform.virtual) \cup Range(platform.real) \subseteq DOMAIN heap
  BY <1>1, <1>3, <1>4, MapsHaveNodes
<1>6. root \in DOMAIN heap \cup {Null}
  BY <1>1, <1>2, <1>4 DEF PlatformHolds, PlatformInv, Ready, Loads, LoadsNone, Forest
<1>7. ASSUME NEW n \in DOMAIN heap
      PROVE  /\ Range(heap[n].children) \cup {heap[n].parent} \subseteq DOMAIN heap \cup {Null}
             /\ heap[n].types \in {"none", "live", "freed"}
  <2>1. n \in 1..Len(heap)
    BY <1>4
  <2>2. heap[n] \in NodeSet
    BY <1>3, <2>1, HeapTypes
  <2>3. Forest(heap, root)
    <3>1. Len(heap) # 0
      BY <1>3, <2>1
    <3>. QED BY <1>1, <1>2, <3>1 DEF PlatformHolds, PlatformInv, Ready, Loads, LoadsNone
  <2>4. ChildrenOf(heap, n) \subseteq 1..Len(heap)
    BY <2>1, <2>3, ForestIsClosed DEF ClosedHeap
  <2>5. heap[n].parent \in 1..Len(heap) \cup {Null}
    <3>1. heap[n].parent \in 0..Len(heap)
      BY <2>1, <2>3 DEF Forest
    <3>. QED BY <1>3, <3>1 DEF Null
  <2>. QED BY <1>4, <2>2, <2>4, <2>5 DEF NodeSet, ChildrenOf
<1>8. checked \in [Modules -> [dirty : BOOLEAN, invalid : BOOLEAN,
                               types : {"none", "live", "freed"}, node : Nat]]
  BY <1>1 DEF CheckedInv, CheckedOf, CheckedStates, Types, Flags
<1>9. event \in BOOLEAN /\ config \in Settings /\ watching = config.enabled
      /\ pluginInfo \in DataModels \cup {NoPlugin} /\ changes \in 0..MaxChanges
  BY <1>1 DEF StateInv, Flags
<1>. QED BY <1>2, <1>5, <1>6, <1>7, <1>8, <1>9 DEF TypeOK, At

\* that the maps match the tree,
LEMMA InvImpliesMaps == SourcemapInv => PathMapsMatchTree
<1>. SUFFICES ASSUME SourcemapInv PROVE PathMapsMatchTree
  OBVIOUS
<1>1. MapsOfTree(platform)
  BY DEF SourcemapInv, PlatformHolds, PlatformInv
<1>. QED BY <1>1 DEF MapsOfTree, Mapped, PathMapsMatchTree, Nodes, At, ChildrenOf

\* and, where siblings have names of their own, that files come back.
LEMMA InvImpliesRoundTrips ==
    ASSUME SiblingsHaveNames, SourcemapInv
    PROVE  FilesRoundTrip
<1>1. MapsOfTree(platform)
  BY DEF SourcemapInv, PlatformHolds, PlatformInv
<1>2. PathsApart(platform.heap, Nodes)
  BY <1>1 DEF MapsOfTree, Nodes
<1>. SUFFICES ASSUME NEW file \in DOMAIN platform.real
              PROVE  At(platform.virtual[At(platform.real[file]).virtualPath]).file = file
  BY DEF FilesRoundTrip
<1>3. PICK n \in Nodes : n = platform.real[file] /\ platform.heap[n].file = file
  BY <1>1 DEF MapsOfTree, Mapped, Nodes
<1>4. PICK path : path = platform.heap[n].virtualPath /\ path \in DOMAIN platform.virtual
  BY <1>1, <1>3 DEF MapsOfTree, Mapped, Nodes
<1>5. platform.virtual[path] \in Nodes /\ platform.heap[platform.virtual[path]].virtualPath = path
  BY <1>1, <1>4 DEF MapsOfTree, Mapped, Nodes
<1>6. platform.virtual[path] = n
  BY <1>2, <1>3, <1>4, <1>5 DEF PathsApart
<1>. QED BY <1>3, <1>4, <1>6 DEF At

\* Types made of the tree are neither freed where something looks at them nor of an older
\* tree, whatever the tool and the plugin write and whenever modules are checked
\* (updateSourcemapTypes, clearCachedTypes).
THEOREM TypesAreOfTheTree == Spec => []TypesFollowTheTree
BY SourcemapInvHolds, InvImpliesTypes, PTL

\* The maps have exactly the instances of the tree, under the paths and files they have
\* now, and parents are those who list them, whatever the tool and the plugin write
\* (rebuildPathMaps).
THEOREM MapsAreOfTheTree == Spec => [](TypeOK /\ PathMapsMatchTree)
<1>1. SourcemapInv => TypeOK /\ PathMapsMatchTree
  BY InvImpliesTypeOK, InvImpliesMaps
<1>. QED BY <1>1, SourcemapInvHolds, PTL

\* Where no two instances next to each other have one name, a file that is an instance is
\* the file of the module it is called as (resolveToVirtualPath, then resolveToRealPath).
THEOREM MapsOfNamedSiblings ==
    ASSUME SiblingsHaveNames
    PROVE  Spec => []MapsFollowTheTree
<1>1. SourcemapInv => MapsFollowTheTree
  BY InvImpliesTypeOK, InvImpliesMaps, InvImpliesRoundTrips DEF MapsFollowTheTree
<1>. QED BY <1>1, SourcemapInvHolds, PTL
===============================================================================
