----------------------------- MODULE Session_proofs -----------------------------
(***************************************************************************)
(* Proofs about Session, for every model, profile, set of flags the tools   *)
(* turn out to support, list of user arguments, and file as the format      *)
(* has it: what is launched is what was measured, and the metadata of a     *)
(* model are what its file says.                                            *)
(***************************************************************************)
EXTENDS Session, WellFoundedInduction, TLAPS

-----------------------------------------------------------------------------
(* Induction over sets of numbers, and sequences of anything.              *)

\* Induction over the numbers in a set.
LEMMA InductionOnSets ==
  ASSUME NEW S, 0 \in S, \A k \in Nat : k \in S => k + 1 \in S
  PROVE  Nat \subseteq S
<1> SUFFICES ASSUME Nat \ S # {} PROVE FALSE
  OBVIOUS
<1> DEFINE T == Nat \ S
<1>1. PICK x \in T : \A y \in T : ~(<<y, x>> \in OpToRel(<, Nat))
  <2> T \subseteq Nat /\ T # {}
    OBVIOUS
  <2> HIDE DEF T
  <2> QED  BY NatLessThanWellFounded, WFMin
<1>2. x \in Nat /\ x # 0
  OBVIOUS
<1>3. x - 1 \in Nat /\ x - 1 < x /\ (x - 1) + 1 = x
  BY <1>2
<1>4. ~(x - 1 \in T)
  BY <1>1, <1>2, <1>3 DEF OpToRel
<1> QED  BY <1>1, <1>3, <1>4

IsSeq(s) == \E S : s \in Seq(S)

LEMMA Elements ==
  ASSUME NEW s, IsSeq(s)
  PROVE  Len(s) \in Nat /\ DOMAIN s = 1..Len(s)
BY DEF IsSeq

\* Sequences are equal if they have the same elements.
LEMMA Same ==
  ASSUME NEW s, NEW t, IsSeq(s), IsSeq(t), Len(s) = Len(t), \A i \in 1..Len(s) : s[i] = t[i]
  PROVE  s = t
<1>1. PICK S : s \in Seq(S)
  BY DEF IsSeq
<1>2. PICK T : t \in Seq(T)
  BY DEF IsSeq
<1>3. s = [i \in 1..Len(s) |-> s[i]] /\ t = [i \in 1..Len(t) |-> t[i]]
  BY <1>1, <1>2
<1> QED  BY <1>3

LEMMA Wider ==
  ASSUME NEW S, NEW T, NEW s \in Seq(S), S \subseteq T
  PROVE  s \in Seq(T)
OBVIOUS

LEMMA Concatenation ==
  ASSUME NEW s, NEW t, IsSeq(s), IsSeq(t)
  PROVE  /\ IsSeq(s \o t) /\ Len(s \o t) = Len(s) + Len(t)
         /\ \A i \in 1..Len(s) : (s \o t)[i] = s[i]
         /\ \A i \in 1..Len(t) : (s \o t)[Len(s) + i] = t[i]
         /\ s \o <<>> = s /\ <<>> \o s = s
<1>1. PICK S : s \in Seq(S)
  BY DEF IsSeq
<1>2. PICK T : t \in Seq(T)
  BY DEF IsSeq
<1>3. s \in Seq(S \cup T) /\ t \in Seq(S \cup T)
  BY <1>1, <1>2, Wider
<1> QED  BY <1>3 DEF IsSeq

\* Append adds one element at the end.
LEMMA Longer ==
  ASSUME NEW s, IsSeq(s), NEW x
  PROVE  /\ IsSeq(Append(s, x)) /\ Len(Append(s, x)) = Len(s) + 1
         /\ \A i \in 1..Len(s) : Append(s, x)[i] = s[i]
         /\ Append(s, x)[Len(s) + 1] = x
         /\ Append(s, x) = s \o <<x>>
<1>1. PICK S : s \in Seq(S)
  BY DEF IsSeq
<1>2. s \in Seq(S \cup {x}) /\ x \in S \cup {x}
  BY <1>1, Wider
<1> QED  BY <1>2 DEF IsSeq

LEMMA Short ==
  /\ IsSeq(<<>>) /\ Len(<<>>) = 0
  /\ \A x : IsSeq(<<x>>) /\ Len(<<x>>) = 1 /\ <<x>>[1] = x
  /\ \A x, y : IsSeq(<<x, y>>) /\ Len(<<x, y>>) = 2 /\ <<x, y>>[1] = x /\ <<x, y>>[2] = y
<1>1. <<>> \in Seq({})
  OBVIOUS
<1>2. \A x : <<x>> \in Seq({x})
  OBVIOUS
<1>3. \A x, y : <<x, y>> \in Seq({x, y})
  OBVIOUS
<1> QED  BY <1>1, <1>2, <1>3 DEF IsSeq

LEMMA Associative ==
  ASSUME NEW r, NEW s, NEW t, IsSeq(r), IsSeq(s), IsSeq(t)
  PROVE  (r \o s) \o t = r \o (s \o t)
<1>1. PICK R : r \in Seq(R)
  BY DEF IsSeq
<1>2. PICK S : s \in Seq(S)
  BY DEF IsSeq
<1>3. PICK T : t \in Seq(T)
  BY DEF IsSeq
<1>4. r \in Seq(R \cup S \cup T) /\ s \in Seq(R \cup S \cup T) /\ t \in Seq(R \cup S \cup T)
  BY <1>1, <1>2, <1>3, Wider
<1> QED  BY <1>4

-----------------------------------------------------------------------------
(* At: the elements of a sequence at some positions.                       *)

\* What At collects from the first i elements, for each i up to a length.
Collects(f, s, positions, n) ==
  /\ f[0] = <<>>
  /\ \A i \in 1..n : f[i] = IF i \in positions THEN Append(f[i - 1], s[i]) ELSE f[i - 1]

\* At collects from the left.
LEMMA AtCollects ==
  ASSUME NEW s, IsSeq(s), NEW positions
  PROVE  \E f : Collects(f, s, positions, Len(s)) /\ At(s, positions) = f[Len(s)]
<1> DEFINE Body(f, n) ==
      [i \in 0..n |-> IF i = 0 THEN <<>>
                      ELSE IF i \in positions THEN Append(f[i - 1], s[i]) ELSE f[i - 1]]
           Defined == {n \in Nat : \E f : f = Body(f, n)}
<1>1. 0 \in Defined
  <2> DEFINE f == [i \in 0..0 |-> <<>>]
  <2>1. f = Body(f, 0)
    OBVIOUS
  <2> QED  BY <2>1
<1>2. ASSUME NEW n \in Nat, n \in Defined PROVE n + 1 \in Defined
  <2>1. PICK f : f = Body(f, n)
    BY <1>2
  <2> DEFINE g == [i \in 0..(n + 1) |-> IF i <= n THEN f[i]
                    ELSE IF i \in positions THEN Append(f[i - 1], s[i]) ELSE f[i - 1]]
  <2>2. ASSUME NEW i \in 0..(n + 1) PROVE g[i] = Body(g, n + 1)[i]
    <3>1. CASE i = 0
      <4>1. 0 \in 0..n /\ f[0] = <<>>
        BY <2>1
      <4> QED  BY <3>1, <4>1
    <3>2. CASE i # 0 /\ i <= n
      <4>1. i \in 0..n /\ i - 1 \in 0..(n + 1) /\ i - 1 <= n
        BY <3>2
      <4>2. f[i] = IF i \in positions THEN Append(f[i - 1], s[i]) ELSE f[i - 1]
        BY <2>1, <3>2, <4>1
      <4>3. g[i] = f[i] /\ g[i - 1] = f[i - 1]
        BY <3>2, <4>1
      <4> QED  BY <3>2, <4>2, <4>3
    <3>3. CASE ~(i <= n)
      <4>1. i # 0 /\ i - 1 \in 0..(n + 1) /\ i - 1 <= n
        BY <3>3
      <4> QED  BY <3>3, <4>1
    <3> QED  BY <3>1, <3>2, <3>3
  <2>3. g = Body(g, n + 1)
    <3> HIDE DEF Body
    <3>1. g = [i \in 0..(n + 1) |-> g[i]]
      OBVIOUS
    <3>2. Body(g, n + 1) = [i \in 0..(n + 1) |-> Body(g, n + 1)[i]]
      BY DEF Body
    <3> HIDE DEF g
    <3> QED  BY <2>2, <3>1, <3>2
  <2> HIDE DEF g, Body
  <2> QED  BY <2>3
<1>3. Len(s) \in Defined
  <2> HIDE DEF Defined
  <2> QED  BY <1>1, <1>2, InductionOnSets, Elements
<1> DEFINE f == CHOOSE f : f = Body(f, Len(s))
<1>4. f = Body(f, Len(s))
  <2>1. \E x : x = Body(x, Len(s))
    BY <1>3
  <2> HIDE DEF Body
  <2> QED  BY <2>1
<1>5. At(s, positions) = f[Len(s)]
  BY DEF At
<1> HIDE DEF f
<1>6. Collects(f, s, positions, Len(s))
  <2>1. Len(s) \in Nat
    BY Elements
  <2>2. f[0] = <<>>
    BY <1>4, <2>1
  <2>3. ASSUME NEW i \in 1..Len(s)
        PROVE  f[i] = IF i \in positions THEN Append(f[i - 1], s[i]) ELSE f[i - 1]
    <3>1. i \in 0..Len(s) /\ i # 0
      BY <2>1
    <3> QED  BY <1>4, <3>1
  <2> QED  BY <2>2, <2>3 DEF Collects
<1> QED  BY <1>5, <1>6

\* At depends on the positions in the sequence alone, and its parts can be
\* collected one after the other.
LEMMA AtNone ==
  ASSUME NEW s, IsSeq(s), NEW positions, positions \cap (1..Len(s)) = {}
  PROVE  At(s, positions) = <<>>
<1>1. PICK f : Collects(f, s, positions, Len(s)) /\ At(s, positions) = f[Len(s)]
  BY AtCollects
<1> DEFINE Done == {n \in Nat : n <= Len(s) => f[n] = <<>>}
<1>2. 0 \in Done
  BY <1>1 DEF Collects
<1>3. ASSUME NEW n \in Nat, n \in Done PROVE n + 1 \in Done
  <2>1. CASE n + 1 <= Len(s)
    <3>1. n + 1 \in 1..Len(s) /\ n <= Len(s) /\ (n + 1) - 1 = n
      BY <2>1, Elements
    <3>2. n + 1 \notin positions /\ f[n] = <<>>
      BY <1>3, <3>1
    <3> QED  BY <1>1, <3>1, <3>2 DEF Collects
  <2> QED  BY <2>1
<1>4. Len(s) \in Done
  <2> HIDE DEF Done
  <2> QED  BY <1>2, <1>3, InductionOnSets, Elements
<1> QED  BY <1>1, <1>4, Elements

LEMMA AtIsSeq ==
  ASSUME NEW s, IsSeq(s), NEW positions
  PROVE  IsSeq(At(s, positions))
<1>1. PICK f : Collects(f, s, positions, Len(s)) /\ At(s, positions) = f[Len(s)]
  BY AtCollects
<1> DEFINE Done == {n \in Nat : n <= Len(s) => IsSeq(f[n])}
<1>2. 0 \in Done
  BY <1>1, Short DEF Collects
<1>3. ASSUME NEW n \in Nat, n \in Done PROVE n + 1 \in Done
  <2>1. CASE n + 1 <= Len(s)
    <3>1. n + 1 \in 1..Len(s) /\ n <= Len(s) /\ (n + 1) - 1 = n
      BY <2>1, Elements
    <3>2. IsSeq(f[n])
      BY <1>3, <3>1
    <3>3. \A x : IsSeq(Append(f[n], x))
      BY <3>2, Longer
    <3>4. f[n + 1] = IF n + 1 \in positions THEN Append(f[n], s[n + 1]) ELSE f[n]
      BY <1>1, <3>1 DEF Collects
    <3>5. IsSeq(f[n + 1])
      <4>1. CASE n + 1 \in positions
        <5>1. f[n + 1] = Append(f[n], s[n + 1])
          BY <3>4, <4>1
        <5> QED  BY <3>3, <5>1
      <4>2. CASE n + 1 \notin positions
        BY <3>2, <3>4, <4>2
      <4> QED  BY <4>1, <4>2
    <3> QED  BY <3>5
  <2> QED  BY <2>1
<1>4. Len(s) \in Done
  <2> HIDE DEF Done
  <2> QED  BY <1>2, <1>3, InductionOnSets, Elements
<1> QED  BY <1>1, <1>4, Elements

\* Where two collections agree up to n, they agree on what follows.
LEMMA AtConcatenation ==
  ASSUME NEW s, NEW t, IsSeq(s), IsSeq(t), NEW positions, NEW later,
         \A i \in 1..Len(t) : i \in later <=> Len(s) + i \in positions
  PROVE  At(s \o t, positions) = At(s, positions) \o At(t, later)
<1> DEFINE st == s \o t
<1>0. /\ IsSeq(st) /\ Len(st) = Len(s) + Len(t) /\ Len(s) \in Nat /\ Len(t) \in Nat
      /\ \A i \in 1..Len(s) : st[i] = s[i]
      /\ \A i \in 1..Len(t) : st[Len(s) + i] = t[i]
  BY Concatenation, Elements
<1> HIDE DEF st
<1>1. PICK f : Collects(f, s, positions, Len(s)) /\ At(s, positions) = f[Len(s)]
  BY AtCollects
<1>2. PICK g : Collects(g, t, later, Len(t)) /\ At(t, later) = g[Len(t)]
  BY AtCollects
<1>3. PICK h : Collects(h, st, positions, Len(st)) /\ At(st, positions) = h[Len(st)]
  BY <1>0, AtCollects
<1> DEFINE First == {n \in Nat : n <= Len(s) => h[n] = f[n]}
<1>4. 0 \in First
  BY <1>1, <1>3 DEF Collects
<1>5. ASSUME NEW n \in Nat, n \in First PROVE n + 1 \in First
  <2>1. CASE n + 1 <= Len(s)
    <3>1. n + 1 \in 1..Len(s) /\ n + 1 \in 1..Len(st) /\ n <= Len(s) /\ (n + 1) - 1 = n
      BY <1>0, <2>1
    <3>2. st[n + 1] = s[n + 1] /\ h[n] = f[n]
      BY <1>0, <1>5, <3>1
    <3>3. f[n + 1] = IF n + 1 \in positions THEN Append(f[n], s[n + 1]) ELSE f[n]
      BY <1>1, <3>1 DEF Collects
    <3>4. h[n + 1] = IF n + 1 \in positions THEN Append(h[n], st[n + 1]) ELSE h[n]
      BY <1>3, <3>1 DEF Collects
    <3> QED  BY <3>2, <3>3, <3>4
  <2> QED  BY <2>1
<1>6. h[Len(s)] = At(s, positions)
  <2>1. Len(s) \in First
    <3> HIDE DEF First
    <3> QED  BY <1>0, <1>4, <1>5, InductionOnSets
  <2> QED  BY <1>0, <1>1, <2>1
<1>7. IsSeq(At(s, positions))
  BY AtIsSeq
<1> DEFINE head == At(s, positions)
<1> HIDE DEF head
<1> DEFINE Second == {n \in Nat : n <= Len(t) => IsSeq(g[n]) /\ h[Len(s) + n] = head \o g[n]}
<1>8. 0 \in Second
  <2>1. g[0] = <<>> /\ Len(s) + 0 = Len(s)
    BY <1>0, <1>2 DEF Collects
  <2>2. head \o <<>> = head
    BY <1>7, Concatenation, Short DEF head
  <2> QED  BY <1>6, <2>1, <2>2, Short DEF head
<1>9. ASSUME NEW n \in Nat, n \in Second PROVE n + 1 \in Second
  <2>1. CASE n + 1 <= Len(t)
    <3> DEFINE k == Len(s) + n
    <3>1. /\ n + 1 \in 1..Len(t) /\ n <= Len(t) /\ (n + 1) - 1 = n
          /\ k + 1 \in 1..Len(st) /\ (k + 1) - 1 = k /\ Len(s) + (n + 1) = k + 1
      BY <1>0, <2>1
    <3>2. st[k + 1] = t[n + 1] /\ h[k] = head \o g[n] /\ IsSeq(g[n])
      BY <1>0, <1>9, <3>1
    <3>3. n + 1 \in later <=> k + 1 \in positions
      BY <3>1
    <3> HIDE DEF k
    <3>4. g[n + 1] = IF n + 1 \in later THEN Append(g[n], t[n + 1]) ELSE g[n]
      BY <1>2, <3>1 DEF Collects
    <3>5. h[k + 1] = IF k + 1 \in positions THEN Append(h[k], st[k + 1]) ELSE h[k]
      BY <1>3, <3>1 DEF Collects
    <3>6. Append(head \o g[n], t[n + 1]) = head \o Append(g[n], t[n + 1])
      <4> DEFINE x == t[n + 1]
      <4>1. IsSeq(head) /\ IsSeq(<<x>>) /\ IsSeq(head \o g[n])
        BY <1>7, <3>2, Short, Concatenation DEF head
      <4> HIDE DEF x
      <4>2. Append(head \o g[n], x) = (head \o g[n]) \o <<x>> /\ Append(g[n], x) = g[n] \o <<x>>
        BY <3>2, <4>1, Longer
      <4>3. (head \o g[n]) \o <<x>> = head \o (g[n] \o <<x>>)
        <5> DEFINE y == <<x>>
                   u == g[n]
        <5>1. IsSeq(head) /\ IsSeq(y) /\ IsSeq(u)
          BY <3>2, <4>1
        <5> HIDE DEF y, u
        <5>2. (head \o u) \o y = head \o (u \o y)
          BY <5>1, Associative
        <5> QED  BY <5>2 DEF y, u
      <4> QED  BY <4>2, <4>3 DEF x
    <3>7. CASE n + 1 \in later
      <4>1. g[n + 1] = Append(g[n], t[n + 1]) /\ h[k + 1] = Append(h[k], t[n + 1])
        BY <3>2, <3>3, <3>4, <3>5, <3>7
      <4>2. \A x : IsSeq(Append(g[n], x))
        BY <3>2, Longer
      <4>3. IsSeq(g[n + 1])
        BY <4>1, <4>2
      <4>4. h[k + 1] = head \o g[n + 1]
        BY <3>2, <3>6, <4>1
      <4> QED  BY <3>1, <4>3, <4>4
    <3>8. CASE n + 1 \notin later
      <4>1. g[n + 1] = g[n] /\ h[k + 1] = h[k]
        BY <3>3, <3>4, <3>5, <3>8
      <4>2. IsSeq(g[n + 1])
        BY <3>2, <4>1
      <4>3. h[k + 1] = head \o g[n + 1]
        BY <3>2, <4>1
      <4> QED  BY <3>1, <4>2, <4>3
    <3> QED  BY <3>7, <3>8
  <2> QED  BY <2>1
<1>10. Len(t) \in Second
  <2> HIDE DEF Second
  <2> QED  BY <1>0, <1>8, <1>9, InductionOnSets
<1>11. h[Len(s) + Len(t)] = head \o g[Len(t)]
  BY <1>0, <1>10
<1>12. At(st, positions) = head \o At(t, later)
  BY <1>0, <1>2, <1>3, <1>11
<1> QED  BY <1>12 DEF st, head

\* One position gives one element.
LEMMA AtOne ==
  ASSUME NEW s, IsSeq(s), NEW positions, NEW i \in 1..Len(s), positions \cap (1..Len(s)) = {i}
  PROVE  At(s, positions) = <<s[i]>>
<1>1. PICK f : Collects(f, s, positions, Len(s)) /\ At(s, positions) = f[Len(s)]
  BY AtCollects
<1> DEFINE Done == {n \in Nat : n <= Len(s) => f[n] = IF n < i THEN <<>> ELSE <<s[i]>>}
<1>2. 0 \in Done
  BY <1>1 DEF Collects
<1>3. ASSUME NEW n \in Nat, n \in Done PROVE n + 1 \in Done
  <2>1. CASE n + 1 <= Len(s)
    <3>1. n + 1 \in 1..Len(s) /\ n <= Len(s) /\ (n + 1) - 1 = n
      BY <2>1, Elements
    <3>2. f[n] = IF n < i THEN <<>> ELSE <<s[i]>>
      BY <1>3, <3>1
    <3>3. f[n + 1] = IF n + 1 \in positions THEN Append(f[n], s[n + 1]) ELSE f[n]
      BY <1>1, <3>1 DEF Collects
    <3>4. n + 1 \in positions <=> n + 1 = i
      BY <3>1
    <3>5. \A x : Append(<<>>, x) = <<x>>
      OBVIOUS
    <3>6. CASE n + 1 = i
      <4>1. f[n] = <<>> /\ f[n + 1] = Append(f[n], s[i])
        BY <3>2, <3>3, <3>4, <3>6
      <4> QED  BY <3>5, <3>6, <4>1
    <3>7. CASE n + 1 # i
      BY <3>2, <3>3, <3>4, <3>7
    <3> QED  BY <3>6, <3>7
  <2> QED  BY <2>1
<1>4. Len(s) \in Done
  <2> HIDE DEF Done
  <2> QED  BY <1>2, <1>3, InductionOnSets, Elements
<1> QED  BY <1>1, <1>4, Elements

-----------------------------------------------------------------------------
(* Lists of [flag, value] pairs.                                           *)

\* An argument list consists of the pairs of a set, each of them once.
Lists(args, pairs) ==
  /\ IsSeq(args)
  /\ \A i \in 1..Len(args) :
       /\ IsFlag(args[i]) =>
            /\ args[i].value = NoValue
            /\ i + 1 \in 1..Len(args) /\ ~IsFlag(args[i + 1])
            /\ <<args[i].flag, args[i + 1].value>> \in pairs
            /\ \A j \in 1..Len(args) : IsFlag(args[j]) /\ args[j].flag = args[i].flag => j = i
       /\ ~IsFlag(args[i]) => i - 1 \in 1..Len(args) /\ IsFlag(args[i - 1])
  /\ \A p \in pairs : \E i \in 1..Len(args) :
       IsFlag(args[i]) /\ p = <<args[i].flag, args[i + 1].value>>

\* What merge_user_overrides keeps of a profile's arguments.
FlagOf(args, i) == args[IF IsFlag(args[i]) THEN i ELSE i - 1].flag
Spared(args, overridden) == {i \in DOMAIN args : FlagOf(args, i) \notin overridden}
Kept(args, overridden) == At(args, Spared(args, overridden))
Without(pairs, overridden) == {p \in pairs : p[1] \notin overridden}

Filters(args, pairs) ==
  /\ Lists(args, pairs)
  /\ \A overridden : Lists(Kept(args, overridden), Without(pairs, overridden))

LEMMA Arguments ==
  \A f, v : /\ IsFlag(Flag(f)) /\ Flag(f).flag = f /\ Flag(f).value = NoValue
            /\ ~IsFlag(Value(v)) /\ Value(v).value = v
BY DEF IsFlag, Flag, Value

\* Every flag of a list is followed by its value, and stands there once.
LEMMA FlagInList ==
  ASSUME NEW args, NEW pairs, Lists(args, pairs), NEW i \in 1..Len(args), IsFlag(args[i])
  PROVE  /\ args[i].value = NoValue
         /\ i + 1 \in 1..Len(args) /\ ~IsFlag(args[i + 1])
         /\ <<args[i].flag, args[i + 1].value>> \in pairs
         /\ \A j \in 1..Len(args) : IsFlag(args[j]) /\ args[j].flag = args[i].flag => j = i
BY DEF Lists

\* Every value of a list follows its flag.
LEMMA ValueInList ==
  ASSUME NEW args, NEW pairs, Lists(args, pairs), NEW i \in 1..Len(args), ~IsFlag(args[i])
  PROVE  i - 1 \in 1..Len(args) /\ IsFlag(args[i - 1])
BY DEF Lists

LEMMA FiltersNone == Filters(<<>>, {})
<1>1. Lists(<<>>, {})
  BY Short DEF Lists
<1>2. ASSUME NEW overridden PROVE Kept(<<>>, overridden) = <<>>
  BY Short, AtNone DEF Kept
<1> QED  BY <1>1, <1>2 DEF Filters, Without

LEMMA FiltersPair ==
  ASSUME NEW f, NEW v
  PROVE  Filters(<<Flag(f), Value(v)>>, {<<f, v>>})
<1> DEFINE s == <<Flag(f), Value(v)>>
<1>1. IsSeq(s) /\ Len(s) = 2 /\ s[1] = Flag(f) /\ s[2] = Value(v) /\ DOMAIN s = {1, 2}
  <2>1. IsSeq(s) /\ Len(s) = 2 /\ s[1] = Flag(f) /\ s[2] = Value(v)
    BY Short
  <2> QED  BY <2>1, Elements
<1> HIDE DEF s
<1>2. Lists(s, {<<f, v>>})
  <2>1. 1..2 = {1, 2}
    OBVIOUS
  <2> QED  BY <1>1, <2>1, Arguments DEF Lists
<1>3. ASSUME NEW overridden, f \in overridden
      PROVE  Kept(s, overridden) = <<>> /\ Without({<<f, v>>}, overridden) = {}
  <2>1. Spared(s, overridden) = {}
    BY <1>1, <1>3, Arguments DEF Spared, FlagOf
  <2> QED  BY <1>1, <1>3, <2>1, AtNone DEF Kept, Without
<1>4. ASSUME NEW overridden, f \notin overridden
      PROVE  Kept(s, overridden) = s /\ Without({<<f, v>>}, overridden) = {<<f, v>>}
  <2>1. Spared(s, overridden) = {1, 2}
    BY <1>1, <1>4, Arguments DEF Spared, FlagOf
  <2>2. PICK g : Collects(g, s, {1, 2}, 2) /\ At(s, {1, 2}) = g[2]
    BY <1>1, AtCollects
  <2>3. g[0] = <<>> /\ g[1] = Append(g[0], s[1]) /\ g[2] = Append(g[1], s[2])
    BY <2>2 DEF Collects
  <2>4. \A x : Append(<<>>, x) = <<x>>
    OBVIOUS
  <2>7. ASSUME NEW x, NEW y PROVE Append(<<x>>, y) = <<x, y>>
    <3> DEFINE a == Append(<<x>>, y)
               b == <<x, y>>
    <3>1. IsSeq(a) /\ Len(a) = 2 /\ a[1] = x /\ a[2] = y
      <4> DEFINE u == <<x>>
      <4>1. IsSeq(u) /\ Len(u) = 1 /\ u[1] = x
        BY Short
      <4> HIDE DEF u
      <4>2. /\ IsSeq(Append(u, y)) /\ Len(Append(u, y)) = Len(u) + 1
            /\ \A i \in 1..Len(u) : Append(u, y)[i] = u[i]
            /\ Append(u, y)[Len(u) + 1] = y
        BY <4>1, Longer
      <4>3. Len(u) + 1 = 2 /\ 1 \in 1..Len(u)
        BY <4>1
      <4>4. Append(u, y)[1] = x /\ Append(u, y)[2] = y
        BY <4>1, <4>2, <4>3
      <4> QED  BY <4>2, <4>3, <4>4 DEF u
    <3>2. IsSeq(b) /\ Len(b) = 2 /\ b[1] = x /\ b[2] = y
      BY Short
    <3> HIDE DEF a, b
    <3>3. a = b
      BY <3>1, <3>2, Same
    <3> QED  BY <3>3 DEF a, b
  <2>5. s = <<s[1], s[2]>>
    BY <1>1 DEF s
  <2>6. Kept(s, overridden) = s
    BY <2>1, <2>2, <2>3, <2>4, <2>5, <2>7 DEF Kept
  <2> QED  BY <1>4, <2>6 DEF Without
<1>5. Lists(<<>>, {})
  BY FiltersNone DEF Filters
<1> QED  BY <1>2, <1>3, <1>4, <1>5 DEF Filters, s

\* Lists of different flags make a list.
LEMMA ListsTogether ==
  ASSUME NEW s, NEW S, Lists(s, S), NEW t, NEW T, Lists(t, T),
         \A p \in S, q \in T : p[1] # q[1]
  PROVE  Lists(s \o t, S \cup T)
<1> DEFINE st == s \o t
           n == Len(s)
           m == Len(t)
<1>1. /\ IsSeq(st) /\ Len(st) = n + m /\ n \in Nat /\ m \in Nat
      /\ \A i \in 1..n : st[i] = s[i]
      /\ \A i \in 1..m : st[n + i] = t[i]
  BY Concatenation, Elements DEF Lists
<1> HIDE DEF st, n, m
<1>2. \A i \in 1..(n + m) : i \in 1..n \/ \E k \in 1..m : i = n + k
  <2> TAKE i \in 1..(n + m)
  <2>1. CASE i > n
    <3>1. i - n \in 1..m /\ i = n + (i - n)
      BY <1>1, <2>1
    <3> QED  BY <3>1
  <2> QED  BY <1>1, <2>1
<1>3. \A i \in 1..n : IsFlag(s[i]) => <<s[i].flag, s[i + 1].value>> \in S
  BY DEF Lists, n
<1>4. \A i \in 1..m : IsFlag(t[i]) => <<t[i].flag, t[i + 1].value>> \in T
  BY DEF Lists, m
<1>5. \A i \in 1..n, j \in 1..m : IsFlag(s[i]) /\ IsFlag(t[j]) => s[i].flag # t[j].flag
  BY <1>3, <1>4
<1>6. ASSUME NEW i \in 1..n, IsFlag(st[i])
      PROVE  /\ st[i].value = NoValue
             /\ i + 1 \in 1..(n + m) /\ ~IsFlag(st[i + 1])
             /\ <<st[i].flag, st[i + 1].value>> \in S \cup T
             /\ \A j \in 1..(n + m) : IsFlag(st[j]) /\ st[j].flag = st[i].flag => j = i
             /\ i + 1 \in 1..n /\ st[i + 1] = s[i + 1]
  <2>1. st[i] = s[i] /\ i + 1 \in 1..n /\ st[i + 1] = s[i + 1] /\ i + 1 \in 1..(n + m)
    <3>1. st[i] = s[i] /\ IsFlag(s[i])
      BY <1>1, <1>6
    <3>2. i + 1 \in 1..n
      BY <3>1, FlagInList DEF n
    <3> QED  BY <1>1, <3>1, <3>2
  <2>2. \A j \in 1..(n + m) : IsFlag(st[j]) /\ st[j].flag = st[i].flag => j = i
    <3> TAKE j \in 1..(n + m)
    <3> HAVE IsFlag(st[j]) /\ st[j].flag = st[i].flag
    <3>1. CASE j \in 1..n
      <4>1. st[j] = s[j] /\ IsFlag(s[j]) /\ IsFlag(s[i]) /\ s[j].flag = s[i].flag
        BY <1>1, <1>6, <2>1, <3>1
      <4> QED  BY <3>1, <4>1, FlagInList DEF n
    <3>2. ASSUME NEW k \in 1..m, j = n + k PROVE FALSE
      <4>1. st[j] = t[k] /\ IsFlag(t[k]) /\ IsFlag(s[i]) /\ t[k].flag = s[i].flag
        BY <1>1, <1>6, <2>1, <3>2
      <4> QED  BY <1>5, <3>2, <4>1
    <3> QED  BY <1>2, <3>1, <3>2
  <2>3. IsFlag(s[i])
    BY <1>6, <2>1
  <2>4. /\ s[i].value = NoValue /\ ~IsFlag(s[i + 1])
        /\ <<s[i].flag, s[i + 1].value>> \in S
    BY <2>3, FlagInList DEF n
  <2> QED  BY <2>1, <2>2, <2>4
<1>7. ASSUME NEW k \in 1..m, IsFlag(st[n + k])
      PROVE  /\ st[n + k].value = NoValue
             /\ (n + k) + 1 \in 1..(n + m) /\ ~IsFlag(st[(n + k) + 1])
             /\ <<st[n + k].flag, st[(n + k) + 1].value>> \in S \cup T
             /\ \A j \in 1..(n + m) : IsFlag(st[j]) /\ st[j].flag = st[n + k].flag => j = n + k
             /\ k + 1 \in 1..m /\ st[(n + k) + 1] = t[k + 1]
  <2>1. /\ st[n + k] = t[k] /\ k + 1 \in 1..m /\ (n + k) + 1 = n + (k + 1)
        /\ st[(n + k) + 1] = t[k + 1] /\ (n + k) + 1 \in 1..(n + m)
    <3>1. st[n + k] = t[k] /\ IsFlag(t[k])
      BY <1>1, <1>7
    <3>2. k + 1 \in 1..m
      BY <3>1, FlagInList DEF m
    <3>3. (n + k) + 1 = n + (k + 1)
      BY <1>1
    <3> QED  BY <1>1, <3>1, <3>2, <3>3
  <2>2. \A j \in 1..(n + m) : IsFlag(st[j]) /\ st[j].flag = st[n + k].flag => j = n + k
    <3> TAKE j \in 1..(n + m)
    <3> HAVE IsFlag(st[j]) /\ st[j].flag = st[n + k].flag
    <3>1. CASE j \in 1..n
      <4>1. st[j] = s[j] /\ IsFlag(s[j]) /\ IsFlag(t[k]) /\ s[j].flag = t[k].flag
        BY <1>1, <1>7, <2>1, <3>1
      <4> QED  BY <1>5, <3>1, <4>1
    <3>2. ASSUME NEW l \in 1..m, j = n + l PROVE l = k
      <4>1. st[j] = t[l] /\ IsFlag(t[l]) /\ IsFlag(t[k]) /\ t[l].flag = t[k].flag
        BY <1>1, <1>7, <2>1, <3>2
      <4> QED  BY <3>2, <4>1, FlagInList DEF m
    <3> QED  BY <1>2, <3>1, <3>2
  <2>3. IsFlag(t[k])
    BY <1>7, <2>1
  <2>4. /\ t[k].value = NoValue /\ ~IsFlag(t[k + 1])
        /\ <<t[k].flag, t[k + 1].value>> \in T
    BY <2>3, FlagInList DEF m
  <2> QED  BY <2>1, <2>2, <2>4
<1>8. ASSUME NEW i \in 1..(n + m), ~IsFlag(st[i])
      PROVE  i - 1 \in 1..(n + m) /\ IsFlag(st[i - 1])
  <2>1. CASE i \in 1..n
    <3>1. st[i] = s[i] /\ ~IsFlag(s[i])
      BY <1>1, <1>8, <2>1
    <3>2. i - 1 \in 1..n /\ IsFlag(s[i - 1])
      BY <2>1, <3>1, ValueInList DEF n
    <3> QED  BY <1>1, <3>2
  <2>2. ASSUME NEW k \in 1..m, i = n + k PROVE i - 1 \in 1..(n + m) /\ IsFlag(st[i - 1])
    <3>1. k - 1 \in 1..m /\ IsFlag(t[k - 1]) /\ i - 1 = n + (k - 1)
      <4>1. st[i] = t[k] /\ ~IsFlag(t[k])
        BY <1>1, <1>8, <2>2
      <4> QED  BY <1>1, <2>2, <4>1, ValueInList DEF m
    <3> QED  BY <1>1, <3>1
  <2> QED  BY <1>2, <2>1, <2>2
<1>9. ASSUME NEW p \in S \cup T
      PROVE  \E i \in 1..(n + m) : IsFlag(st[i]) /\ p = <<st[i].flag, st[i + 1].value>>
  <2>1. CASE p \in S
    <3>1. PICK i \in 1..n : IsFlag(s[i]) /\ p = <<s[i].flag, s[i + 1].value>>
      BY <2>1 DEF Lists, n
    <3>2. st[i] = s[i] /\ i \in 1..(n + m)
      BY <1>1
    <3> QED  BY <1>6, <3>1, <3>2
  <2>2. CASE p \in T
    <3>1. PICK k \in 1..m : IsFlag(t[k]) /\ p = <<t[k].flag, t[k + 1].value>>
      BY <2>2 DEF Lists, m
    <3>2. st[n + k] = t[k] /\ n + k \in 1..(n + m)
      BY <1>1
    <3> QED  BY <1>7, <3>1, <3>2
  <2> QED  BY <2>1, <2>2
<1>10. ASSUME NEW i \in 1..(n + m), IsFlag(st[i])
       PROVE  /\ st[i].value = NoValue
              /\ i + 1 \in 1..(n + m) /\ ~IsFlag(st[i + 1])
              /\ <<st[i].flag, st[i + 1].value>> \in S \cup T
              /\ \A j \in 1..(n + m) : IsFlag(st[j]) /\ st[j].flag = st[i].flag => j = i
  BY <1>2, <1>6, <1>7, <1>10
<1>11. Lists(st, S \cup T)
  BY <1>1, <1>8, <1>9, <1>10 DEF Lists
<1> QED  BY <1>11 DEF st

\* Only the positions that the sequence has count.
LEMMA AtSame ==
  ASSUME NEW s, IsSeq(s), NEW A, NEW B, A \cap (1..Len(s)) = B \cap (1..Len(s))
  PROVE  At(s, A) = At(s, B)
<1>1. PICK f : Collects(f, s, A, Len(s)) /\ At(s, A) = f[Len(s)]
  BY AtCollects
<1>2. PICK g : Collects(g, s, B, Len(s)) /\ At(s, B) = g[Len(s)]
  BY AtCollects
<1> DEFINE Done == {n \in Nat : n <= Len(s) => f[n] = g[n]}
<1>3. 0 \in Done
  BY <1>1, <1>2 DEF Collects
<1>4. ASSUME NEW n \in Nat, n \in Done PROVE n + 1 \in Done
  <2>1. CASE n + 1 <= Len(s)
    <3>1. n + 1 \in 1..Len(s) /\ n <= Len(s) /\ (n + 1) - 1 = n
      BY <2>1, Elements
    <3>2. f[n] = g[n] /\ (n + 1 \in A <=> n + 1 \in B)
      BY <1>4, <3>1
    <3>3. f[n + 1] = IF n + 1 \in A THEN Append(f[n], s[n + 1]) ELSE f[n]
      BY <1>1, <3>1 DEF Collects
    <3>4. g[n + 1] = IF n + 1 \in B THEN Append(g[n], s[n + 1]) ELSE g[n]
      BY <1>2, <3>1 DEF Collects
    <3> QED  BY <3>2, <3>3, <3>4
  <2> QED  BY <2>1
<1>5. Len(s) \in Done
  <2> HIDE DEF Done
  <2> QED  BY <1>3, <1>4, InductionOnSets, Elements
<1> QED  BY <1>1, <1>2, <1>5, Elements

\* Removing flags removes them from each of two lists.
LEMMA FiltersTogether ==
  ASSUME NEW s, NEW S, Filters(s, S), NEW t, NEW T, Filters(t, T),
         \A p \in S, q \in T : p[1] # q[1]
  PROVE  Filters(s \o t, S \cup T)
<1> DEFINE st == s \o t
           n == Len(s)
           m == Len(t)
<1>0. Lists(s, S) /\ Lists(t, T) /\ IsSeq(s) /\ IsSeq(t)
  BY DEF Filters, Lists
<1>1. /\ IsSeq(st) /\ Len(st) = n + m /\ n \in Nat /\ m \in Nat
      /\ \A i \in 1..n : st[i] = s[i]
      /\ \A i \in 1..m : st[n + i] = t[i]
      /\ DOMAIN s = 1..n /\ DOMAIN t = 1..m /\ DOMAIN st = 1..(n + m)
  BY <1>0, Concatenation, Elements
<1>2. Lists(st, S \cup T)
  BY <1>0, ListsTogether
<1> HIDE DEF st, n, m
<1>3. ASSUME NEW i \in 1..n PROVE FlagOf(st, i) = FlagOf(s, i)
  <2>1. st[i] = s[i]
    BY <1>1
  <2>2. CASE IsFlag(s[i])
    BY <2>1, <2>2 DEF FlagOf
  <2>3. CASE ~IsFlag(s[i])
    <3>1. i - 1 \in 1..n
      BY <1>0, <2>3, ValueInList DEF n
    <3>2. st[i - 1] = s[i - 1]
      BY <1>1, <3>1
    <3> QED  BY <2>1, <2>3, <3>2 DEF FlagOf
  <2> QED  BY <2>2, <2>3
<1>4. ASSUME NEW i \in 1..m PROVE FlagOf(st, n + i) = FlagOf(t, i)
  <2>1. st[n + i] = t[i]
    BY <1>1
  <2>2. CASE IsFlag(t[i])
    BY <2>1, <2>2 DEF FlagOf
  <2>3. CASE ~IsFlag(t[i])
    <3>1. i - 1 \in 1..m
      BY <1>0, <2>3, ValueInList DEF m
    <3>2. st[n + (i - 1)] = t[i - 1] /\ n + (i - 1) = (n + i) - 1
      BY <1>1, <3>1
    <3> QED  BY <2>1, <2>3, <3>2 DEF FlagOf
  <2> QED  BY <2>2, <2>3
<1>5. ASSUME NEW overridden
      PROVE  Lists(Kept(st, overridden), Without(S \cup T, overridden))
  <2>1. Spared(st, overridden) \cap (1..n) = Spared(s, overridden) \cap (1..n)
    BY <1>1, <1>3 DEF Spared
  <2>2. \A i \in 1..m : i \in Spared(t, overridden) <=> n + i \in Spared(st, overridden)
    <3> TAKE i \in 1..m
    <3>1. i \in DOMAIN t /\ n + i \in DOMAIN st /\ FlagOf(st, n + i) = FlagOf(t, i)
      BY <1>1, <1>4
    <3> QED  BY <3>1 DEF Spared
  <2>3. Kept(st, overridden)
          = At(s, Spared(st, overridden)) \o At(t, Spared(t, overridden))
    <3> DEFINE A == Spared(st, overridden)
               B == Spared(t, overridden)
    <3>1. \A i \in 1..Len(t) : i \in B <=> Len(s) + i \in A
      BY <2>2 DEF n, m
    <3> HIDE DEF A, B
    <3>2. At(s \o t, A) = At(s, A) \o At(t, B)
      BY <1>0, <3>1, AtConcatenation
    <3> QED  BY <3>2 DEF A, B, Kept, st
  <2>4. At(s, Spared(st, overridden)) = Kept(s, overridden)
    BY <1>0, <2>1, AtSame DEF Kept, n
  <2>5. Kept(st, overridden) = Kept(s, overridden) \o Kept(t, overridden)
    BY <2>3, <2>4 DEF Kept
  <2>6. /\ Lists(Kept(s, overridden), Without(S, overridden))
        /\ Lists(Kept(t, overridden), Without(T, overridden))
        /\ \A p \in Without(S, overridden), q \in Without(T, overridden) : p[1] # q[1]
    BY DEF Filters, Without
  <2>7. Without(S \cup T, overridden) = Without(S, overridden) \cup Without(T, overridden)
    BY DEF Without
  <2> DEFINE a == Kept(s, overridden)
             b == Kept(t, overridden)
             c == Without(S, overridden)
             d == Without(T, overridden)
  <2> HIDE DEF a, b, c, d
  <2>8. Lists(a \o b, c \cup d)
    BY <2>6, ListsTogether DEF a, b, c, d
  <2> QED  BY <2>5, <2>7, <2>8 DEF a, b, c, d
<1> QED  BY <1>2, <1>5 DEF Filters, st

-----------------------------------------------------------------------------
(* What the builders of command lines put on them.                         *)

\* A part of a command line: its pairs, all of whose flags are among some.
Part(args, pairs, flags) == Filters(args, pairs) /\ \A p \in pairs : p[1] \in flags

\* Parts that share no flag make a part.
LEMMA PartsTogether ==
  ASSUME NEW s, NEW S, NEW F, Part(s, S, F), NEW t, NEW T, NEW H, Part(t, T, H), F \cap H = {}
  PROVE  Part(s \o t, S \cup T, F \cup H)
<1>1. \A p \in S, q \in T : p[1] # q[1]
  BY DEF Part
<1> QED  BY <1>1, FiltersTogether DEF Part

Adds(supported, long, short, v) == IF long \in supported THEN {<<short, v>>} ELSE {}
Set(pairs, v) == IF v # NoValue THEN pairs ELSE {}

LEMMA PartAdds ==
  ASSUME NEW supported, NEW long, NEW short, NEW v
  PROVE  Part(AddIfSupported(supported, long, short, v), Adds(supported, long, short, v), {short})
BY FiltersNone, FiltersPair DEF Part, AddIfSupported, Adds

LEMMA PartSet ==
  ASSUME NEW args, NEW pairs, NEW flags, Part(args, pairs, flags), NEW v
  PROVE  Part(IfSet(args, v), Set(pairs, v), flags)
BY FiltersNone DEF Part, IfSet, Set

CommonPairs(config, supported) ==
  Adds(supported, "--threads", "-t", config.threads)
  \cup Adds(supported, "--n-gpu-layers", "-ngl", config.gpu_layers)
  \cup Adds(supported, "--batch-size", "-b", config.batch)
  \cup Adds(supported, "--ubatch-size", "-ub", config.ubatch)

CachePairs(config, supported) ==
  Set(Adds(supported, "--cache-type-k", "-ctk", config.kv)
        \cup Adds(supported, "--cache-type-v", "-ctv", config.kv), config.kv)

BenchPairs(model, config, supported) ==
  {<<"-m", model>>}
  \cup Adds(supported, "--n-depth", "-d", config.context)
  \cup CommonPairs(config, supported)
  \cup Set(Adds(supported, "--n-cpu-moe", "-ncmoe", config.n_cpu_moe), config.n_cpu_moe)
  \cup CachePairs(config, supported)

ConfigPairs(model, config, supported) ==
  {<<"-m", model>>}
  \cup CommonPairs(config, supported)
  \cup (IF config.context > 0 THEN Adds(supported, "--ctx-size", "-c", config.context) ELSE {})
  \cup Set(Adds(supported, "--n-cpu-moe", "--n-cpu-moe", config.n_cpu_moe), config.n_cpu_moe)
  \cup CachePairs(config, supported)

ServerPairs(host, port, supported) ==
  Adds(supported, "--host", "--host", host) \cup Adds(supported, "--port", "--port", port)

CommonFlags == {"-t"} \cup {"-ngl"} \cup {"-b"} \cup {"-ub"}
CacheFlags == {"-ctk"} \cup {"-ctv"}

LEMMA CommonPart ==
  ASSUME NEW config, NEW supported
  PROVE  Part(CommonArguments(config, supported), CommonPairs(config, supported), CommonFlags)
<1> DEFINE A == AddIfSupported(supported, "--threads", "-t", config.threads)
           B == AddIfSupported(supported, "--n-gpu-layers", "-ngl", config.gpu_layers)
           C == AddIfSupported(supported, "--batch-size", "-b", config.batch)
           D == AddIfSupported(supported, "--ubatch-size", "-ub", config.ubatch)
           a == Adds(supported, "--threads", "-t", config.threads)
           b == Adds(supported, "--n-gpu-layers", "-ngl", config.gpu_layers)
           c == Adds(supported, "--batch-size", "-b", config.batch)
           d == Adds(supported, "--ubatch-size", "-ub", config.ubatch)
<1>1. Part(A, a, {"-t"}) /\ Part(B, b, {"-ngl"}) /\ Part(C, c, {"-b"}) /\ Part(D, d, {"-ub"})
  BY PartAdds
<1> HIDE DEF A, B, C, D, a, b, c, d
<1>2. Part(A \o B, a \cup b, {"-t"} \cup {"-ngl"})
  BY <1>1, PartsTogether
<1>3. Part(A \o B \o C, a \cup b \cup c, {"-t"} \cup {"-ngl"} \cup {"-b"})
  BY <1>1, <1>2, PartsTogether
<1>4. Part(A \o B \o C \o D, a \cup b \cup c \cup d, CommonFlags)
  BY <1>1, <1>3, PartsTogether DEF CommonFlags
<1> QED  BY <1>4 DEF CommonArguments, CommonPairs, A, B, C, D, a, b, c, d

LEMMA CachePart ==
  ASSUME NEW config, NEW supported
  PROVE  Part(CacheTypes(config, supported), CachePairs(config, supported), CacheFlags)
<1> DEFINE A == AddIfSupported(supported, "--cache-type-k", "-ctk", config.kv)
           B == AddIfSupported(supported, "--cache-type-v", "-ctv", config.kv)
           a == Adds(supported, "--cache-type-k", "-ctk", config.kv)
           b == Adds(supported, "--cache-type-v", "-ctv", config.kv)
<1>1. Part(A, a, {"-ctk"}) /\ Part(B, b, {"-ctv"})
  BY PartAdds
<1> HIDE DEF A, B, a, b
<1>2. Part(A \o B, a \cup b, CacheFlags)
  BY <1>1, PartsTogether DEF CacheFlags
<1>3. Part(IfSet(A \o B, config.kv), Set(a \cup b, config.kv), CacheFlags)
  BY <1>2, PartSet
<1> QED  BY <1>3 DEF CacheTypes, CachePairs, A, B, a, b

LEMMA ModelPart ==
  ASSUME NEW model
  PROVE  Part(<<Flag("-m"), Value(model)>>, {<<"-m", model>>}, {"-m"})
BY FiltersPair DEF Part

BenchFlagNames == {"-m"} \cup {"-d"} \cup CommonFlags \cup {"-ncmoe"} \cup CacheFlags
ConfigFlagNames == {"-m"} \cup CommonFlags \cup {"-c"} \cup {"--n-cpu-moe"} \cup CacheFlags

\* The command line of llama-bench is a list of pairs.
LEMMA BenchPart ==
  ASSUME NEW model, NEW config, NEW supported
  PROVE  Part(BenchArguments(model, config, supported), BenchPairs(model, config, supported),
              BenchFlagNames)
<1> DEFINE A == <<Flag("-m"), Value(model)>>
           B == AddIfSupported(supported, "--n-depth", "-d", config.context)
           C == CommonArguments(config, supported)
           D == IfSet(AddIfSupported(supported, "--n-cpu-moe", "-ncmoe", config.n_cpu_moe),
                      config.n_cpu_moe)
           E == CacheTypes(config, supported)
           a == {<<"-m", model>>}
           b == Adds(supported, "--n-depth", "-d", config.context)
           c == CommonPairs(config, supported)
           d == Set(Adds(supported, "--n-cpu-moe", "-ncmoe", config.n_cpu_moe), config.n_cpu_moe)
           e == CachePairs(config, supported)
<1>1. Part(A, a, {"-m"}) /\ Part(B, b, {"-d"}) /\ Part(C, c, CommonFlags)
  BY ModelPart, PartAdds, CommonPart
<1>2. Part(D, d, {"-ncmoe"}) /\ Part(E, e, CacheFlags)
  BY PartAdds, PartSet, CachePart
<1> HIDE DEF A, B, C, D, E, a, b, c, d, e
<1>3. Part(A \o B, a \cup b, {"-m"} \cup {"-d"})
  BY <1>1, PartsTogether
<1>4. Part(A \o B \o C, a \cup b \cup c, {"-m"} \cup {"-d"} \cup CommonFlags)
  <2>1. ({"-m"} \cup {"-d"}) \cap CommonFlags = {}
    BY DEF CommonFlags
  <2> QED  BY <1>1, <1>3, <2>1, PartsTogether
<1>5. Part(A \o B \o C \o D, a \cup b \cup c \cup d,
           {"-m"} \cup {"-d"} \cup CommonFlags \cup {"-ncmoe"})
  <2>1. ({"-m"} \cup {"-d"} \cup CommonFlags) \cap {"-ncmoe"} = {}
    BY DEF CommonFlags
  <2> QED  BY <1>2, <1>4, <2>1, PartsTogether
<1>6. Part(A \o B \o C \o D \o E, a \cup b \cup c \cup d \cup e, BenchFlagNames)
  <2>1. ({"-m"} \cup {"-d"} \cup CommonFlags \cup {"-ncmoe"}) \cap CacheFlags = {}
    BY DEF CommonFlags, CacheFlags
  <2> QED  BY <1>2, <1>5, <2>1, PartsTogether DEF BenchFlagNames
<1> QED  BY <1>6 DEF BenchArguments, BenchPairs, A, B, C, D, E, a, b, c, d, e

\* The command line of llama-cli, and all but the server's part of llama-server's.
LEMMA ConfigPart ==
  ASSUME NEW model, NEW config, NEW supported
  PROVE  Part(ConfigArguments(model, config, supported), ConfigPairs(model, config, supported),
              ConfigFlagNames)
<1> DEFINE A == <<Flag("-m"), Value(model)>>
           B == CommonArguments(config, supported)
           C == IF config.context > 0
                THEN AddIfSupported(supported, "--ctx-size", "-c", config.context) ELSE <<>>
           D == IfSet(AddIfSupported(supported, "--n-cpu-moe", "--n-cpu-moe", config.n_cpu_moe),
                      config.n_cpu_moe)
           E == CacheTypes(config, supported)
           a == {<<"-m", model>>}
           b == CommonPairs(config, supported)
           c == IF config.context > 0
                THEN Adds(supported, "--ctx-size", "-c", config.context) ELSE {}
           d == Set(Adds(supported, "--n-cpu-moe", "--n-cpu-moe", config.n_cpu_moe),
                    config.n_cpu_moe)
           e == CachePairs(config, supported)
<1>1. Part(A, a, {"-m"}) /\ Part(B, b, CommonFlags)
  BY ModelPart, CommonPart
<1>2. Part(C, c, {"-c"})
  <2>1. CASE config.context > 0
    BY <2>1, PartAdds
  <2>2. CASE ~(config.context > 0)
    BY <2>2, FiltersNone DEF Part
  <2> QED  BY <2>1, <2>2
<1>3. Part(D, d, {"--n-cpu-moe"}) /\ Part(E, e, CacheFlags)
  BY PartAdds, PartSet, CachePart
<1> HIDE DEF A, B, C, D, E, a, b, c, d, e
<1>4. Part(A \o B, a \cup b, {"-m"} \cup CommonFlags)
  <2>1. {"-m"} \cap CommonFlags = {}
    BY DEF CommonFlags
  <2> QED  BY <1>1, <2>1, PartsTogether
<1>5. Part(A \o B \o C, a \cup b \cup c, {"-m"} \cup CommonFlags \cup {"-c"})
  <2>1. ({"-m"} \cup CommonFlags) \cap {"-c"} = {}
    BY DEF CommonFlags
  <2> QED  BY <1>2, <1>4, <2>1, PartsTogether
<1>6. Part(A \o B \o C \o D, a \cup b \cup c \cup d,
           {"-m"} \cup CommonFlags \cup {"-c"} \cup {"--n-cpu-moe"})
  <2>1. ({"-m"} \cup CommonFlags \cup {"-c"}) \cap {"--n-cpu-moe"} = {}
    BY DEF CommonFlags
  <2> QED  BY <1>3, <1>5, <2>1, PartsTogether
<1>7. Part(A \o B \o C \o D \o E, a \cup b \cup c \cup d \cup e, ConfigFlagNames)
  <2>1. ({"-m"} \cup CommonFlags \cup {"-c"} \cup {"--n-cpu-moe"}) \cap CacheFlags = {}
    BY DEF CommonFlags, CacheFlags
  <2> QED  BY <1>3, <1>6, <2>1, PartsTogether DEF ConfigFlagNames
<1> QED  BY <1>7 DEF ConfigArguments, ConfigPairs, A, B, C, D, E, a, b, c, d, e

-----------------------------------------------------------------------------
(* What a command line says.                                               *)

\* Only the elements at the positions count.
LEMMA AtAgree ==
  ASSUME NEW s, NEW t, IsSeq(s), IsSeq(t), Len(s) = Len(t), NEW A,
         \A i \in 1..Len(s) : i \in A => s[i] = t[i]
  PROVE  At(s, A) = At(t, A)
<1>1. PICK f : Collects(f, s, A, Len(s)) /\ At(s, A) = f[Len(s)]
  BY AtCollects
<1>2. PICK g : Collects(g, t, A, Len(t)) /\ At(t, A) = g[Len(t)]
  BY AtCollects
<1> DEFINE Done == {n \in Nat : n <= Len(s) => f[n] = g[n]}
<1>3. 0 \in Done
  BY <1>1, <1>2 DEF Collects
<1>4. ASSUME NEW n \in Nat, n \in Done PROVE n + 1 \in Done
  <2>1. CASE n + 1 <= Len(s)
    <3>1. n + 1 \in 1..Len(s) /\ n + 1 \in 1..Len(t) /\ n <= Len(s) /\ (n + 1) - 1 = n
      BY <2>1, Elements
    <3>2. f[n] = g[n] /\ (n + 1 \in A => s[n + 1] = t[n + 1])
      BY <1>4, <3>1
    <3>3. f[n + 1] = IF n + 1 \in A THEN Append(f[n], s[n + 1]) ELSE f[n]
      BY <1>1, <3>1 DEF Collects
    <3>4. g[n + 1] = IF n + 1 \in A THEN Append(g[n], t[n + 1]) ELSE g[n]
      BY <1>2, <3>1 DEF Collects
    <3> QED  BY <3>2, <3>3, <3>4
  <2> QED  BY <2>1
<1>5. Len(s) \in Done
  <2> HIDE DEF Done
  <2> QED  BY <1>3, <1>4, InductionOnSets, Elements
<1> QED  BY <1>1, <1>2, <1>5, Elements

LEMMA AtSome ==
  ASSUME NEW s, IsSeq(s), NEW positions, NEW i \in 1..Len(s), i \in positions
  PROVE  At(s, positions) # <<>>
<1>1. PICK f : Collects(f, s, positions, Len(s)) /\ At(s, positions) = f[Len(s)]
  BY AtCollects
<1> DEFINE Done == {n \in Nat : n <= Len(s) => IsSeq(f[n]) /\ (n >= i => Len(f[n]) > 0)}
<1>2. 0 \in Done
  BY <1>1, Short DEF Collects
<1>3. ASSUME NEW n \in Nat, n \in Done PROVE n + 1 \in Done
  <2>1. CASE n + 1 <= Len(s)
    <3>1. n + 1 \in 1..Len(s) /\ n <= Len(s) /\ (n + 1) - 1 = n
      BY <2>1, Elements
    <3>2. IsSeq(f[n]) /\ (n >= i => Len(f[n]) > 0) /\ Len(f[n]) \in Nat
      BY <1>3, <3>1, Elements
    <3>3. \A x : IsSeq(Append(f[n], x)) /\ Len(Append(f[n], x)) = Len(f[n]) + 1
      BY <3>2, Longer
    <3>4. f[n + 1] = IF n + 1 \in positions THEN Append(f[n], s[n + 1]) ELSE f[n]
      BY <1>1, <3>1 DEF Collects
    <3>5. CASE n + 1 \in positions
      <4>1. f[n + 1] = Append(f[n], s[n + 1])
        BY <3>4, <3>5
      <4>2. IsSeq(f[n + 1]) /\ Len(f[n + 1]) > 0
        BY <3>2, <3>3, <4>1
      <4> QED  BY <4>2
    <3>6. CASE n + 1 \notin positions
      <4>1. f[n + 1] = f[n] /\ n + 1 # i
        BY <3>4, <3>6
      <4>2. IsSeq(f[n + 1]) /\ (n + 1 >= i => Len(f[n + 1]) > 0)
        BY <3>2, <4>1
      <4> QED  BY <4>2
    <3> QED  BY <3>5, <3>6
  <2> QED  BY <2>1
<1>4. Len(s) \in Done
  <2> HIDE DEF Done
  <2> QED  BY <1>2, <1>3, InductionOnSets, Elements
<1> QED  BY <1>1, <1>4, Elements, Short

\* The positions of w that are taken are those of its parts u and v, and so are
\* the elements there.
Splits(w, A, u, B, v, C) ==
  /\ IsSeq(u) /\ IsSeq(v) /\ IsSeq(w) /\ Len(w) = Len(u) + Len(v)
  /\ \A i \in 1..Len(u) : i \in A <=> i \in B
  /\ \A i \in 1..Len(v) : i \in C <=> Len(u) + i \in A
  /\ \A i \in 1..Len(w) : i \in A => w[i] = (u \o v)[i]

\* What is at the positions of a concatenation.
LEMMA AtBoth ==
  ASSUME NEW u, NEW v, NEW w, NEW A, NEW B, NEW C, Splits(w, A, u, B, v, C)
  PROVE  At(w, A) = At(u, B) \o At(v, C)
<1>1. At(u \o v, A) = At(u, A) \o At(v, C)
  <2>1. IsSeq(u) /\ IsSeq(v) /\ \A i \in 1..Len(v) : i \in C <=> Len(u) + i \in A
    BY DEF Splits
  <2> QED  BY <2>1, AtConcatenation
<1>2. At(u, A) = At(u, B)
  <2>1. IsSeq(u) /\ A \cap (1..Len(u)) = B \cap (1..Len(u))
    BY DEF Splits
  <2> QED  BY <2>1, AtSame
<1>3. At(w, A) = At(u \o v, A)
  <2> DEFINE uv == u \o v
  <2>1. IsSeq(uv) /\ Len(uv) = Len(w) /\ \A i \in 1..Len(w) : i \in A => w[i] = uv[i]
    BY Concatenation DEF Splits
  <2> HIDE DEF uv
  <2>2. At(w, A) = At(uv, A)
    <3>1. IsSeq(w)
      BY DEF Splits
    <3> QED  BY <2>1, <3>1, AtAgree
  <2> QED  BY <2>2 DEF uv
<1> QED  BY <1>1, <1>2, <1>3

Values(args) == [i \in DOMAIN args |-> ValueOf(args, i)]

LEMMA ValuesAre ==
  ASSUME NEW args, IsSeq(args)
  PROVE  /\ IsSeq(Values(args)) /\ Len(Values(args)) = Len(args)
         /\ \A i \in 1..Len(args) : Values(args)[i] = ValueOf(args, i)
<1>1. Len(args) \in Nat /\ DOMAIN args = 1..Len(args)
  BY Elements
<1> DEFINE v == Values(args)
           n == Len(args)
           S == {v[i] : i \in 1..n}
<1>2. DOMAIN v = 1..n /\ v = [i \in 1..n |-> v[i]] /\ \A i \in 1..n : v[i] = ValueOf(args, i)
  BY <1>1 DEF Values
<1> HIDE DEF v
<1>3. \A i \in 1..n : v[i] \in S
  OBVIOUS
<1> HIDE DEF n, S
<1>4. v \in Seq(S) /\ Len(v) = n
  BY <1>1, <1>2, <1>3 DEF n
<1> QED  BY <1>2, <1>4 DEF v, n, IsSeq

\* The pairs of a list that give an option.
OfOption(pairs, o) == {p \in pairs : p[1] \in Spellings[o]}

\* An option that no pair of a list gives has no value in it.
LEMMA NoSetting ==
  ASSUME NEW args, NEW pairs, Lists(args, pairs), NEW o, OfOption(pairs, o) = {}
  PROVE  Settings(args, o) = <<>>
<1>1. /\ IsSeq(args) /\ DOMAIN args = 1..Len(args)
      /\ IsSeq(Values(args)) /\ Len(Values(args)) = Len(args)
  BY Elements, ValuesAre DEF Lists
<1>2. Gives(args, o) \cap (1..Len(args)) = {}
  <2> SUFFICES ASSUME NEW i \in 1..Len(args), IsFlag(args[i]), args[i].flag \in Spellings[o]
               PROVE  FALSE
    BY DEF Gives
  <2>1. <<args[i].flag, args[i + 1].value>> \in pairs
    BY FlagInList
  <2> QED  BY <2>1 DEF OfOption
<1>3. At(Values(args), Gives(args, o)) = <<>>
  BY <1>1, <1>2, AtNone
<1> QED  BY <1>3 DEF Settings, Values

\* An option that one pair of a list gives has that value in it.
LEMMA OneSetting ==
  ASSUME NEW args, NEW pairs, Lists(args, pairs), NEW o, NEW p, OfOption(pairs, o) = {p}
  PROVE  Settings(args, o) = <<p[2]>>
<1>1. /\ IsSeq(args) /\ DOMAIN args = 1..Len(args)
      /\ IsSeq(Values(args)) /\ Len(Values(args)) = Len(args)
  BY Elements, ValuesAre DEF Lists
<1>2. p \in pairs /\ p[1] \in Spellings[o]
  BY DEF OfOption
<1>3. PICK i \in 1..Len(args) : IsFlag(args[i]) /\ p = <<args[i].flag, args[i + 1].value>>
  BY <1>2 DEF Lists
<1>4. /\ args[i].value = NoValue /\ i + 1 \in 1..Len(args) /\ ~IsFlag(args[i + 1])
      /\ \A j \in 1..Len(args) : IsFlag(args[j]) /\ args[j].flag = args[i].flag => j = i
  BY <1>3, FlagInList
<1>5. p[1] = args[i].flag /\ p[2] = args[i + 1].value
  BY <1>3
<1>6. Gives(args, o) \cap (1..Len(args)) = {i}
  <2>1. i \in Gives(args, o)
    BY <1>1, <1>2, <1>3, <1>5 DEF Gives
  <2>2. ASSUME NEW j \in 1..Len(args), j \in Gives(args, o) PROVE j = i
    <3>1. IsFlag(args[j]) /\ args[j].flag \in Spellings[o]
      BY <2>2 DEF Gives
    <3>2. <<args[j].flag, args[j + 1].value>> \in pairs
      BY <3>1, FlagInList
    <3>3. <<args[j].flag, args[j + 1].value>> = p
      BY <3>1, <3>2 DEF OfOption
    <3>4. args[j].flag = args[i].flag
      BY <1>5, <3>3
    <3> QED  BY <1>4, <3>1, <3>4
  <2> QED  BY <2>1, <2>2
<1>7. ValueOf(args, i) = args[i + 1].value
  <2>1. i < Len(args)
    BY <1>1, <1>4, Elements
  <2> QED  BY <1>4, <2>1 DEF ValueOf
<1>8. At(Values(args), Gives(args, o)) = <<Values(args)[i]>>
  BY <1>1, <1>6, AtOne
<1>9. Values(args)[i] = p[2]
  BY <1>1, <1>5, <1>7, ValuesAre
<1> QED  BY <1>8, <1>9 DEF Settings, Values

\* A user mentions an option just where its settings are not empty.
Mentioned(user) == {a.flag : a \in {u \in Range(user) : IsFlag(u)}}

\* The user sets the options whose flags the user mentions.
LEMMA MentionedIsSet ==
  ASSUME NEW user, IsSeq(user), NEW o
  PROVE  Settings(user, o) # <<>> <=> Mentioned(user) \cap Spellings[o] # {}
<1>1. DOMAIN user = 1..Len(user) /\ IsSeq(Values(user)) /\ Len(Values(user)) = Len(user)
  BY Elements, ValuesAre
<1>2. Mentioned(user) \cap Spellings[o] # {} <=> \E i \in 1..Len(user) : i \in Gives(user, o)
  BY <1>1 DEF Mentioned, Gives, Range
<1>3. At(Values(user), Gives(user, o)) # <<>> <=> \E i \in 1..Len(user) : i \in Gives(user, o)
  BY <1>1, AtNone, AtSome
<1> QED  BY <1>2, <1>3 DEF Settings, Values

\* What follows a list does not change what it says.
LEMMA SettingsTogether ==
  ASSUME NEW args, NEW pairs, Lists(args, pairs), NEW user, IsSeq(user), NEW o
  PROVE  Settings(args \o user, o) = Settings(args, o) \o Settings(user, o)
<1> DEFINE all == args \o user
           n == Len(args)
           m == Len(user)
           u == Values(args)
           v == Values(user)
           w == Values(all)
           uv == u \o v
<1>1. IsSeq(args)
  BY DEF Lists
<1>2. /\ IsSeq(all) /\ Len(all) = n + m /\ n \in Nat /\ m \in Nat
      /\ DOMAIN args = 1..n /\ DOMAIN user = 1..m /\ DOMAIN all = 1..(n + m)
      /\ \A i \in 1..n : all[i] = args[i]
      /\ \A i \in 1..m : all[n + i] = user[i]
  BY <1>1, Concatenation, Elements
<1> HIDE DEF all
<1>3. /\ IsSeq(u) /\ Len(u) = n /\ \A i \in 1..n : u[i] = ValueOf(args, i)
      /\ IsSeq(v) /\ Len(v) = m /\ \A i \in 1..m : v[i] = ValueOf(user, i)
      /\ IsSeq(w) /\ Len(w) = n + m /\ \A i \in 1..(n + m) : w[i] = ValueOf(all, i)
  BY <1>1, <1>2, ValuesAre
<1> HIDE DEF u, v, w
<1> HIDE DEF n, m
<1>4. /\ IsSeq(uv) /\ Len(uv) = n + m
      /\ \A i \in 1..n : uv[i] = u[i]
      /\ \A i \in 1..m : uv[n + i] = v[i]
  <2>1. IsSeq(u) /\ IsSeq(v)
    BY <1>3
  <2>2. /\ IsSeq(u \o v) /\ Len(u \o v) = Len(u) + Len(v)
        /\ \A i \in 1..Len(u) : (u \o v)[i] = u[i]
        /\ \A i \in 1..Len(v) : (u \o v)[Len(u) + i] = v[i]
    BY <2>1, Concatenation
  <2>3. Len(u) = n /\ Len(v) = m
    BY <1>3
  <2> QED  BY <2>2, <2>3
<1> HIDE DEF uv
<1>5. ASSUME NEW i \in 1..n, i \in Gives(all, o)
      PROVE  i \in Gives(args, o) /\ ValueOf(all, i) = ValueOf(args, i)
  <2>1. all[i] = args[i]
    BY <1>2
  <2>2. IsFlag(args[i]) /\ args[i].flag \in Spellings[o]
    BY <1>5, <2>1 DEF Gives
  <2>3. i + 1 \in 1..n /\ args[i].value = NoValue
    BY <2>2, FlagInList DEF n
  <2>4. all[i + 1] = args[i + 1]
    BY <1>2, <2>3
  <2>5. i < Len(args) /\ i < Len(all)
    BY <1>2, <2>3 DEF n
  <2> QED  BY <1>2, <2>1, <2>2, <2>3, <2>4, <2>5 DEF Gives, ValueOf
<1>6. ASSUME NEW i \in 1..m PROVE ValueOf(all, n + i) = ValueOf(user, i)
  <2>1. all[n + i] = user[i] /\ (n + i < Len(all) <=> i < Len(user))
    BY <1>2 DEF m
  <2>2. CASE i < Len(user)
    <3>1. i + 1 \in 1..m /\ n + (i + 1) = (n + i) + 1
      BY <1>2, <2>2 DEF m
    <3>2. all[(n + i) + 1] = user[i + 1]
      BY <1>2, <3>1
    <3> QED  BY <2>1, <2>2, <3>2 DEF ValueOf
  <2>3. CASE ~(i < Len(user))
    BY <2>1, <2>3 DEF ValueOf
  <2> QED  BY <2>2, <2>3
<1>7. \A i \in 1..(n + m) : i \in 1..n \/ \E k \in 1..m : i = n + k
  <2> TAKE i \in 1..(n + m)
  <2>1. CASE i > n
    <3>1. i - n \in 1..m /\ i = n + (i - n)
      BY <1>2, <2>1
    <3> QED  BY <3>1
  <2> QED  BY <1>2, <2>1
<1> DEFINE A == Gives(all, o)
           B == Gives(args, o)
           C == Gives(user, o)
<1>8. \A i \in 1..n : i \in A => w[i] = uv[i]
  BY <1>2, <1>3, <1>4, <1>5
<1>9. \A i \in 1..m : w[n + i] = uv[n + i]
  <2> TAKE i \in 1..m
  <2>1. n + i \in 1..(n + m)
    BY <1>2
  <2> QED  BY <1>3, <1>4, <1>6, <2>1
<1>10. \A i \in 1..(n + m) : i \in A => w[i] = uv[i]
  BY <1>7, <1>8, <1>9
<1>11. \A i \in 1..n : i \in A <=> i \in B
  <2> TAKE i \in 1..n
  <2>1. all[i] = args[i] /\ i \in 1..(n + m)
    BY <1>2
  <2> QED  BY <1>2, <2>1 DEF Gives
<1>12. \A i \in 1..m : i \in C <=> n + i \in A
  <2> TAKE i \in 1..m
  <2>1. all[n + i] = user[i] /\ n + i \in 1..(n + m)
    BY <1>2
  <2> QED  BY <1>2, <2>1 DEF Gives
<1> HIDE DEF A, B, C
<1>13. At(w, A) = At(u, B) \o At(v, C)
  <2>1. IsSeq(u) /\ IsSeq(v) /\ IsSeq(w) /\ Len(w) = Len(u) + Len(v)
    BY <1>3
  <2>2. \A i \in 1..Len(u) : i \in A <=> i \in B
    BY <1>3, <1>11
  <2>3. \A i \in 1..Len(v) : i \in C <=> Len(u) + i \in A
    BY <1>3, <1>12
  <2>4. \A i \in 1..Len(w) : i \in A => w[i] = (u \o v)[i]
    BY <1>3, <1>10 DEF uv
  <2>5. Splits(w, A, u, B, v, C)
    BY <2>1, <2>2, <2>3, <2>4 DEF Splits
  <2> QED  BY <2>5, AtBoth
<1> QED  BY <1>13 DEF Settings, Values, A, B, C, all, u, v, w

\* No value stands alone that did not in what the user gave.
LEMMA StrayTogether ==
  ASSUME NEW args, NEW pairs, Lists(args, pairs), NEW user, IsSeq(user), Stray(args \o user)
  PROVE  Stray(user)
<1> DEFINE all == args \o user
           n == Len(args)
           m == Len(user)
<1>1. /\ IsSeq(args) /\ Len(all) = n + m /\ n \in Nat /\ m \in Nat
      /\ DOMAIN user = 1..m /\ DOMAIN all = 1..(n + m)
      /\ \A i \in 1..n : all[i] = args[i]
      /\ \A i \in 1..m : all[n + i] = user[i]
  BY Concatenation, Elements DEF Lists
<1>2. PICK i \in DOMAIN all : /\ ~IsFlag(all[i])
                              /\ i > 1 => ~IsFlag(all[i - 1]) \/ all[i - 1].value # NoValue
  BY DEF Stray
<1> HIDE DEF all, n, m
<1>3. CASE i \in 1..n
  <2>1. all[i] = args[i] /\ ~IsFlag(args[i])
    BY <1>1, <1>2, <1>3
  <2>2. i - 1 \in 1..n /\ IsFlag(args[i - 1])
    BY <1>3, <2>1, ValueInList DEF n
  <2>3. args[i - 1].value = NoValue
    BY <2>2, FlagInList DEF n
  <2>4. all[i - 1] = args[i - 1] /\ i > 1
    BY <1>1, <2>2
  <2>5. IsFlag(all[i - 1]) /\ all[i - 1].value = NoValue
    BY <2>2, <2>3, <2>4
  <2> QED  BY <1>2, <2>4, <2>5
<1>4. CASE i \notin 1..n
  <2> DEFINE k == i - n
  <2>1. k \in 1..m /\ i = n + k
    BY <1>1, <1>2, <1>4
  <2> HIDE DEF k
  <2>2. ~IsFlag(user[k])
    BY <1>1, <1>2, <2>1
  <2>3. k > 1 => ~IsFlag(user[k - 1]) \/ user[k - 1].value # NoValue
    <3> SUFFICES ASSUME k > 1 PROVE ~IsFlag(user[k - 1]) \/ user[k - 1].value # NoValue
      OBVIOUS
    <3>1. k - 1 \in 1..m /\ n + (k - 1) = i - 1 /\ i > 1
      BY <1>1, <2>1
    <3>2. all[i - 1] = user[k - 1]
      BY <1>1, <3>1
    <3> QED  BY <1>2, <3>1, <3>2
  <2> QED  BY <1>1, <2>1, <2>2, <2>3 DEF Stray
<1> QED  BY <1>3, <1>4

-----------------------------------------------------------------------------
(* The options: what each is called, and what the two builders make of it. *)

\* What each option is called (external, see LaunchCommand).
LEMMA SpellingsAre ==
  /\ Options = {"model", "threads", "gpu_layers", "batch", "ubatch", "context",
                "n_cpu_moe", "cache_k", "cache_v", "host", "port"}
  /\ Spellings["model"] = {"-m", "--model"}
  /\ Spellings["threads"] = {"-t", "--threads"}
  /\ Spellings["gpu_layers"] = {"-ngl", "--n-gpu-layers"}
  /\ Spellings["batch"] = {"-b", "--batch-size"}
  /\ Spellings["ubatch"] = {"-ub", "--ubatch-size"}
  /\ Spellings["context"] = {"-c", "--ctx-size", "-d", "--n-depth"}
  /\ Spellings["n_cpu_moe"] = {"-ncmoe", "--n-cpu-moe"}
  /\ Spellings["cache_k"] = {"-ctk", "--cache-type-k"}
  /\ Spellings["cache_v"] = {"-ctv", "--cache-type-v"}
  /\ Spellings["host"] = {"--host"}
  /\ Spellings["port"] = {"--port"}
BY DEF Options, Spellings

\* The alias groups of the code are the spellings, but for those of n_cpu_moe.
LEMMA GroupsAre ==
  /\ \A o \in Options : o # "n_cpu_moe" => Spellings[o] \ Depth \in option_alias_groups
  /\ \A o \in Options, g \in option_alias_groups :
       g \cap Spellings[o] # {} => g \subseteq Spellings[o]
<1>1. ASSUME NEW o \in Options, o # "n_cpu_moe"
      PROVE  Spellings[o] \ Depth \in option_alias_groups
  <2>1. {"-c", "--ctx-size", "-d", "--n-depth"} \ Depth = {"-c", "--ctx-size"}
    BY DEF Depth
  <2>2. CASE o = "context"
    BY <2>1, <2>2, SpellingsAre DEF option_alias_groups
  <2>3. CASE o # "context"
    <3>1. Spellings[o] \in option_alias_groups
      BY <1>1, <2>3, SpellingsAre DEF option_alias_groups
    <3>2. Spellings[o] \cap Depth = {}
      BY <1>1, <2>3, SpellingsAre DEF Depth
    <3>3. Spellings[o] \ Depth = Spellings[o]
      BY <3>2
    <3> QED  BY <3>1, <3>3
  <2> QED  BY <2>2, <2>3
<1>2. ASSUME NEW o \in Options, NEW g \in option_alias_groups, NEW x \in g, x \in Spellings[o]
      PROVE  g \subseteq Spellings[o]
  <2>1. CASE g = {"-m", "--model"}
    BY <1>2, <2>1, SpellingsAre
  <2>2. CASE g = {"-t", "--threads"}
    BY <1>2, <2>2, SpellingsAre
  <2>3. CASE g = {"-ngl", "--n-gpu-layers"}
    BY <1>2, <2>3, SpellingsAre
  <2>4. CASE g = {"-b", "--batch-size"}
    BY <1>2, <2>4, SpellingsAre
  <2>5. CASE g = {"-ub", "--ubatch-size"}
    BY <1>2, <2>5, SpellingsAre
  <2>6. CASE g = {"-c", "--ctx-size"}
    BY <1>2, <2>6, SpellingsAre
  <2>7. CASE g = {"-ctk", "--cache-type-k"}
    BY <1>2, <2>7, SpellingsAre
  <2>8. CASE g = {"-ctv", "--cache-type-v"}
    BY <1>2, <2>8, SpellingsAre
  <2>9. CASE g = {"--host"} \/ g = {"--port"}
    BY <1>2, <2>9, SpellingsAre
  <2> QED  BY <2>1, <2>2, <2>3, <2>4, <2>5, <2>6, <2>7, <2>8, <2>9 DEF option_alias_groups
<1> QED  BY <1>1, <1>2

ServerPart(tool, flags) ==
  IF tool = "llama-server" THEN ServerArguments("localhost", 8080, flags) ELSE <<>>

ProfilePairs(model, config, tool, flags) ==
  ConfigPairs(model, config, flags)
  \cup (IF tool = "llama-server" THEN ServerPairs("localhost", 8080, flags) ELSE {})

\* The same with host and port.
LEMMA ProfilePart ==
  ASSUME NEW model, NEW config, NEW tool, NEW flags
  PROVE  Filters(ConfigArguments(model, config, flags) \o ServerPart(tool, flags),
                 ProfilePairs(model, config, tool, flags))
<1> DEFINE A == ConfigArguments(model, config, flags)
           B == ServerPart(tool, flags)
           a == ConfigPairs(model, config, flags)
           b == IF tool = "llama-server" THEN ServerPairs("localhost", 8080, flags) ELSE {}
           F == {"--host"} \cup {"--port"}
<1>1. Part(A, a, ConfigFlagNames)
  BY ConfigPart
<1>2. Part(B, b, F)
  <2>1. CASE tool = "llama-server"
    <3> DEFINE C == AddIfSupported(flags, "--host", "--host", "localhost")
               D == AddIfSupported(flags, "--port", "--port", 8080)
               c == Adds(flags, "--host", "--host", "localhost")
               d == Adds(flags, "--port", "--port", 8080)
    <3>1. Part(C, c, {"--host"}) /\ Part(D, d, {"--port"})
      BY PartAdds
    <3>2. B = C \o D /\ b = c \cup d
      BY <2>1 DEF ServerPart, ServerArguments, ServerPairs
    <3> HIDE DEF B, b, C, D, c, d
    <3>3. Part(C \o D, c \cup d, F)
      BY <3>1, PartsTogether
    <3> QED  BY <3>2, <3>3
  <2>2. CASE tool # "llama-server"
    BY <2>2, FiltersNone DEF Part, ServerPart
  <2> QED  BY <2>1, <2>2
<1>3. ConfigFlagNames \cap F = {}
  BY DEF ConfigFlagNames, CommonFlags, CacheFlags
<1> HIDE DEF A, B, a, b, F
<1>4. Part(A \o B, a \cup b, ConfigFlagNames \cup F)
  BY <1>1, <1>2, <1>3, PartsTogether
<1> QED  BY <1>4 DEF Part, ProfilePairs, A, B, a, b

\* What is on the command line of the profile.
LEMMA InProfile ==
  ASSUME NEW model, NEW config, NEW tool, NEW flags, NEW p
  PROVE  p \in ProfilePairs(model, config, tool, flags) <=>
           \/ p = <<"-m", model>>
           \/ "--threads" \in flags /\ p = <<"-t", config.threads>>
           \/ "--n-gpu-layers" \in flags /\ p = <<"-ngl", config.gpu_layers>>
           \/ "--batch-size" \in flags /\ p = <<"-b", config.batch>>
           \/ "--ubatch-size" \in flags /\ p = <<"-ub", config.ubatch>>
           \/ "--ctx-size" \in flags /\ config.context > 0 /\ p = <<"-c", config.context>>
           \/ /\ "--n-cpu-moe" \in flags /\ config.n_cpu_moe # NoValue
              /\ p = <<"--n-cpu-moe", config.n_cpu_moe>>
           \/ "--cache-type-k" \in flags /\ config.kv # NoValue /\ p = <<"-ctk", config.kv>>
           \/ "--cache-type-v" \in flags /\ config.kv # NoValue /\ p = <<"-ctv", config.kv>>
           \/ tool = "llama-server" /\ "--host" \in flags /\ p = <<"--host", "localhost">>
           \/ tool = "llama-server" /\ "--port" \in flags /\ p = <<"--port", 8080>>
BY DEF ProfilePairs, ConfigPairs, CommonPairs, CachePairs, ServerPairs, Adds, Set

\* What is on the command line of llama-bench.
LEMMA InBench ==
  ASSUME NEW model, NEW config, NEW bench, NEW p
  PROVE  p \in BenchPairs(model, config, bench) <=>
           \/ p = <<"-m", model>>
           \/ "--n-depth" \in bench /\ p = <<"-d", config.context>>
           \/ "--threads" \in bench /\ p = <<"-t", config.threads>>
           \/ "--n-gpu-layers" \in bench /\ p = <<"-ngl", config.gpu_layers>>
           \/ "--batch-size" \in bench /\ p = <<"-b", config.batch>>
           \/ "--ubatch-size" \in bench /\ p = <<"-ub", config.ubatch>>
           \/ /\ "--n-cpu-moe" \in bench /\ config.n_cpu_moe # NoValue
              /\ p = <<"-ncmoe", config.n_cpu_moe>>
           \/ "--cache-type-k" \in bench /\ config.kv # NoValue /\ p = <<"-ctk", config.kv>>
           \/ "--cache-type-v" \in bench /\ config.kv # NoValue /\ p = <<"-ctv", config.kv>>
BY DEF BenchPairs, CommonPairs, CachePairs, Adds, Set

\* At most one pair gives an option.
LEMMA ProfileGives ==
  ASSUME NEW model, NEW config, NEW tool, NEW flags
  PROVE  LET pairs == ProfilePairs(model, config, tool, flags)
         IN /\ OfOption(pairs, "model") \subseteq {<<"-m", model>>}
            /\ OfOption(pairs, "threads") \subseteq {<<"-t", config.threads>>}
            /\ OfOption(pairs, "gpu_layers") \subseteq {<<"-ngl", config.gpu_layers>>}
            /\ OfOption(pairs, "batch") \subseteq {<<"-b", config.batch>>}
            /\ OfOption(pairs, "ubatch") \subseteq {<<"-ub", config.ubatch>>}
            /\ OfOption(pairs, "context") \subseteq {<<"-c", config.context>>}
            /\ OfOption(pairs, "n_cpu_moe") \subseteq {<<"--n-cpu-moe", config.n_cpu_moe>>}
            /\ OfOption(pairs, "cache_k") \subseteq {<<"-ctk", config.kv>>}
            /\ OfOption(pairs, "cache_v") \subseteq {<<"-ctv", config.kv>>}
            /\ OfOption(pairs, "host") \subseteq {<<"--host", "localhost">>}
            /\ OfOption(pairs, "port") \subseteq {<<"--port", 8080>>}
<1> DEFINE S == ProfilePairs(model, config, tool, flags)
<1>1. OfOption(S, "model") \subseteq {<<"-m", model>>}
  BY InProfile, SpellingsAre DEF OfOption
<1>2. OfOption(S, "threads") \subseteq {<<"-t", config.threads>>}
  BY InProfile, SpellingsAre DEF OfOption
<1>3. OfOption(S, "gpu_layers") \subseteq {<<"-ngl", config.gpu_layers>>}
  BY InProfile, SpellingsAre DEF OfOption
<1>4. OfOption(S, "batch") \subseteq {<<"-b", config.batch>>}
  BY InProfile, SpellingsAre DEF OfOption
<1>5. OfOption(S, "ubatch") \subseteq {<<"-ub", config.ubatch>>}
  BY InProfile, SpellingsAre DEF OfOption
<1>6. OfOption(S, "context") \subseteq {<<"-c", config.context>>}
  BY InProfile, SpellingsAre DEF OfOption
<1>7. OfOption(S, "n_cpu_moe") \subseteq {<<"--n-cpu-moe", config.n_cpu_moe>>}
  BY InProfile, SpellingsAre DEF OfOption
<1>8. OfOption(S, "cache_k") \subseteq {<<"-ctk", config.kv>>}
  BY InProfile, SpellingsAre DEF OfOption
<1>9. OfOption(S, "cache_v") \subseteq {<<"-ctv", config.kv>>}
  BY InProfile, SpellingsAre DEF OfOption
<1>10. OfOption(S, "host") \subseteq {<<"--host", "localhost">>}
  BY InProfile, SpellingsAre DEF OfOption
<1>11. OfOption(S, "port") \subseteq {<<"--port", 8080>>}
  BY InProfile, SpellingsAre DEF OfOption
<1> QED  BY <1>1, <1>2, <1>3, <1>4, <1>5, <1>6, <1>7, <1>8, <1>9, <1>10, <1>11

LEMMA BenchGives ==
  ASSUME NEW model, NEW config, NEW bench
  PROVE  LET pairs == BenchPairs(model, config, bench)
         IN /\ OfOption(pairs, "model") \subseteq {<<"-m", model>>}
            /\ OfOption(pairs, "threads") \subseteq {<<"-t", config.threads>>}
            /\ OfOption(pairs, "gpu_layers") \subseteq {<<"-ngl", config.gpu_layers>>}
            /\ OfOption(pairs, "batch") \subseteq {<<"-b", config.batch>>}
            /\ OfOption(pairs, "ubatch") \subseteq {<<"-ub", config.ubatch>>}
            /\ OfOption(pairs, "context") \subseteq {<<"-d", config.context>>}
            /\ OfOption(pairs, "n_cpu_moe") \subseteq {<<"-ncmoe", config.n_cpu_moe>>}
            /\ OfOption(pairs, "cache_k") \subseteq {<<"-ctk", config.kv>>}
            /\ OfOption(pairs, "cache_v") \subseteq {<<"-ctv", config.kv>>}
            /\ OfOption(pairs, "host") \subseteq {}
            /\ OfOption(pairs, "port") \subseteq {}
<1> DEFINE S == BenchPairs(model, config, bench)
<1>1. OfOption(S, "model") \subseteq {<<"-m", model>>}
  BY InBench, SpellingsAre DEF OfOption
<1>2. OfOption(S, "threads") \subseteq {<<"-t", config.threads>>}
  BY InBench, SpellingsAre DEF OfOption
<1>3. OfOption(S, "gpu_layers") \subseteq {<<"-ngl", config.gpu_layers>>}
  BY InBench, SpellingsAre DEF OfOption
<1>4. OfOption(S, "batch") \subseteq {<<"-b", config.batch>>}
  BY InBench, SpellingsAre DEF OfOption
<1>5. OfOption(S, "ubatch") \subseteq {<<"-ub", config.ubatch>>}
  BY InBench, SpellingsAre DEF OfOption
<1>6. OfOption(S, "context") \subseteq {<<"-d", config.context>>}
  BY InBench, SpellingsAre DEF OfOption
<1>7. OfOption(S, "n_cpu_moe") \subseteq {<<"-ncmoe", config.n_cpu_moe>>}
  BY InBench, SpellingsAre DEF OfOption
<1>8. OfOption(S, "cache_k") \subseteq {<<"-ctk", config.kv>>}
  BY InBench, SpellingsAre DEF OfOption
<1>9. OfOption(S, "cache_v") \subseteq {<<"-ctv", config.kv>>}
  BY InBench, SpellingsAre DEF OfOption
<1>10. OfOption(S, "host") \subseteq {}
  BY InBench, SpellingsAre DEF OfOption
<1>11. OfOption(S, "port") \subseteq {}
  BY InBench, SpellingsAre DEF OfOption
<1> QED  BY <1>1, <1>2, <1>3, <1>4, <1>5, <1>6, <1>7, <1>8, <1>9, <1>10, <1>11

LEMMA OneInProfile ==
  ASSUME NEW model, NEW config, NEW tool, NEW flags, NEW o \in Options,
         NEW p \in OfOption(ProfilePairs(model, config, tool, flags), o)
  PROVE  /\ OfOption(ProfilePairs(model, config, tool, flags), o) = {p}
         /\ p[1] \in Spellings[o] \ Depth
<1>1. \A q \in OfOption(ProfilePairs(model, config, tool, flags), o) : q = p
  BY ProfileGives, SpellingsAre
<1>2. p[1] \in Spellings[o]
  BY DEF OfOption
<1>3. p[1] \notin Depth
  <2>1. p \in ProfilePairs(model, config, tool, flags)
    BY DEF OfOption
  <2> QED  BY <2>1, InProfile DEF Depth
<1> QED  BY <1>1, <1>2, <1>3

LEMMA OneInBench ==
  ASSUME NEW model, NEW config, NEW bench, NEW o \in Options,
         NEW q \in OfOption(BenchPairs(model, config, bench), o)
  PROVE  OfOption(BenchPairs(model, config, bench), o) = {q}
BY BenchGives, SpellingsAre

\* What llama-bench was given, another tool that knows the option is given too.
LEMMA BenchIsProfile ==
  ASSUME NEW model, NEW config, config.context \in Nat, NEW bench, NEW tool,
         NEW flags, flags \cap (ShortFlags \cup Depth) = {},
         NEW o \in Options, o = "model" \/ Spellings[o] \cap flags # {},
         NEW q \in OfOption(BenchPairs(model, config, bench), o),
         ~(o = "context" /\ q[2] = 0)
  PROVE  \E p \in OfOption(ProfilePairs(model, config, tool, flags), o) : p[2] = q[2]
<1>0. q \in BenchPairs(model, config, bench) /\ q[1] \in Spellings[o]
  BY DEF OfOption
<1>1. CASE o = "model"
  <2>1. q = <<"-m", model>>
    BY <1>0, <1>1, InBench, SpellingsAre
  <2>3. <<"-m", model>> \in ProfilePairs(model, config, tool, flags)
    BY <2>1, InProfile
  <2>4. <<"-m", model>> \in OfOption(ProfilePairs(model, config, tool, flags), o)
    BY <1>1, <2>3, SpellingsAre DEF OfOption
  <2> QED  BY <2>1, <2>4
<1>2. CASE o = "threads"
  <2>1. q = <<"-t", config.threads>>
    BY <1>0, <1>2, InBench, SpellingsAre
  <2>2. "--threads" \in flags
    BY <1>2, SpellingsAre DEF ShortFlags, Depth
  <2>3. <<"-t", config.threads>> \in ProfilePairs(model, config, tool, flags)
    BY <2>1, <2>2, InProfile
  <2>4. <<"-t", config.threads>> \in OfOption(ProfilePairs(model, config, tool, flags), o)
    BY <1>2, <2>3, SpellingsAre DEF OfOption
  <2> QED  BY <2>1, <2>4
<1>3. CASE o = "gpu_layers"
  <2>1. q = <<"-ngl", config.gpu_layers>>
    BY <1>0, <1>3, InBench, SpellingsAre
  <2>2. "--n-gpu-layers" \in flags
    BY <1>3, SpellingsAre DEF ShortFlags, Depth
  <2>3. <<"-ngl", config.gpu_layers>> \in ProfilePairs(model, config, tool, flags)
    BY <2>1, <2>2, InProfile
  <2>4. <<"-ngl", config.gpu_layers>> \in OfOption(ProfilePairs(model, config, tool, flags), o)
    BY <1>3, <2>3, SpellingsAre DEF OfOption
  <2> QED  BY <2>1, <2>4
<1>4. CASE o = "batch"
  <2>1. q = <<"-b", config.batch>>
    BY <1>0, <1>4, InBench, SpellingsAre
  <2>2. "--batch-size" \in flags
    BY <1>4, SpellingsAre DEF ShortFlags, Depth
  <2>3. <<"-b", config.batch>> \in ProfilePairs(model, config, tool, flags)
    BY <2>1, <2>2, InProfile
  <2>4. <<"-b", config.batch>> \in OfOption(ProfilePairs(model, config, tool, flags), o)
    BY <1>4, <2>3, SpellingsAre DEF OfOption
  <2> QED  BY <2>1, <2>4
<1>5. CASE o = "ubatch"
  <2>1. q = <<"-ub", config.ubatch>>
    BY <1>0, <1>5, InBench, SpellingsAre
  <2>2. "--ubatch-size" \in flags
    BY <1>5, SpellingsAre DEF ShortFlags, Depth
  <2>3. <<"-ub", config.ubatch>> \in ProfilePairs(model, config, tool, flags)
    BY <2>1, <2>2, InProfile
  <2>4. <<"-ub", config.ubatch>> \in OfOption(ProfilePairs(model, config, tool, flags), o)
    BY <1>5, <2>3, SpellingsAre DEF OfOption
  <2> QED  BY <2>1, <2>4
<1>6. CASE o = "context"
  <2>1. q = <<"-d", config.context>>
    BY <1>0, <1>6, InBench, SpellingsAre
  <2>2. "--ctx-size" \in flags
    BY <1>6, SpellingsAre DEF ShortFlags, Depth
  <2>5. config.context > 0
    BY <1>6, <2>1
  <2>3. <<"-c", config.context>> \in ProfilePairs(model, config, tool, flags)
    BY <2>1, <2>2, <2>5, InProfile
  <2>4. <<"-c", config.context>> \in OfOption(ProfilePairs(model, config, tool, flags), o)
    BY <1>6, <2>3, SpellingsAre DEF OfOption
  <2> QED  BY <2>1, <2>4
<1>7. CASE o = "n_cpu_moe"
  <2>1. q = <<"-ncmoe", config.n_cpu_moe>> /\ config.n_cpu_moe # NoValue
    BY <1>0, <1>7, InBench, SpellingsAre
  <2>2. "--n-cpu-moe" \in flags
    BY <1>7, SpellingsAre DEF ShortFlags, Depth
  <2>3. <<"--n-cpu-moe", config.n_cpu_moe>> \in ProfilePairs(model, config, tool, flags)
    BY <2>1, <2>2, InProfile
  <2>4. <<"--n-cpu-moe", config.n_cpu_moe>>
          \in OfOption(ProfilePairs(model, config, tool, flags), o)
    BY <1>7, <2>3, SpellingsAre DEF OfOption
  <2> QED  BY <2>1, <2>4
<1>8. CASE o = "cache_k"
  <2>1. q = <<"-ctk", config.kv>> /\ config.kv # NoValue
    BY <1>0, <1>8, InBench, SpellingsAre
  <2>2. "--cache-type-k" \in flags
    BY <1>8, SpellingsAre DEF ShortFlags, Depth
  <2>3. <<"-ctk", config.kv>> \in ProfilePairs(model, config, tool, flags)
    BY <2>1, <2>2, InProfile
  <2>4. <<"-ctk", config.kv>> \in OfOption(ProfilePairs(model, config, tool, flags), o)
    BY <1>8, <2>3, SpellingsAre DEF OfOption
  <2> QED  BY <2>1, <2>4
<1>9. CASE o = "cache_v"
  <2>1. q = <<"-ctv", config.kv>> /\ config.kv # NoValue
    BY <1>0, <1>9, InBench, SpellingsAre
  <2>2. "--cache-type-v" \in flags
    BY <1>9, SpellingsAre DEF ShortFlags, Depth
  <2>3. <<"-ctv", config.kv>> \in ProfilePairs(model, config, tool, flags)
    BY <2>1, <2>2, InProfile
  <2>4. <<"-ctv", config.kv>> \in OfOption(ProfilePairs(model, config, tool, flags), o)
    BY <1>9, <2>3, SpellingsAre DEF OfOption
  <2> QED  BY <2>1, <2>4
<1>10. CASE o = "host" \/ o = "port"
  BY <1>0, <1>10, InBench, SpellingsAre
<1> QED  BY <1>1, <1>2, <1>3, <1>4, <1>5, <1>6, <1>7, <1>8, <1>9, <1>10, SpellingsAre

-----------------------------------------------------------------------------
(* What the user overrides, and what becomes of the profile's settings.    *)

\* The user overrides an option if one of its spellings is mentioned.
LEMMA OverriddenIs ==
  ASSUME NEW user, Mentioned(user) \cap Depth = {}, NEW o \in Options,
         NEW f, f \in Spellings[o] \ Depth
  PROVE  /\ Mentioned(user) \cap Spellings[o] = {} => f \notin Overridden(user)
         /\ Mentioned(user) \cap Spellings[o] # {} /\ o # "n_cpu_moe" => f \in Overridden(user)
<1>1. Overridden(user) = Mentioned(user)
        \cup UNION {g \in option_alias_groups : g \cap Mentioned(user) # {}}
  BY DEF Overridden, Mentioned
<1> DEFINE m == Mentioned(user)
<1> HIDE DEF m
<1>2. ASSUME m \cap Spellings[o] = {} PROVE f \notin Overridden(user)
  <2>1. \A g \in option_alias_groups : f \in g => g \cap m = {}
    BY <1>2, GroupsAre
  <2> QED  BY <1>1, <1>2, <2>1 DEF m
<1>3. ASSUME NEW x \in m, x \in Spellings[o], o # "n_cpu_moe" PROVE f \in Overridden(user)
  <2> DEFINE g == Spellings[o] \ Depth
  <2>1. g \in option_alias_groups /\ x \in g /\ f \in g
    BY <1>3, GroupsAre DEF m
  <2> HIDE DEF g
  <2>2. g \cap m # {}
    BY <1>3, <2>1
  <2> QED  BY <1>1, <2>1, <2>2 DEF m
<1> QED  BY <1>2, <1>3 DEF m

\* The profile's setting of an option goes where the user gives one (unless it
\* is the number of experts), and stays where not.
LEMMA ProfileSettings ==
  ASSUME NEW model, NEW config, NEW tool, NEW flags,
         NEW user, Mentioned(user) \cap Depth = {}, NEW o \in Options,
         NEW args, Filters(args, ProfilePairs(model, config, tool, flags))
  PROVE  LET kept == Settings(Kept(args, Overridden(user)), o)
             gives == OfOption(ProfilePairs(model, config, tool, flags), o)
         IN /\ kept = <<>> \/ \E v : kept = <<v>>
            /\ Mentioned(user) \cap Spellings[o] # {} /\ o # "n_cpu_moe" => kept = <<>>
            /\ Mentioned(user) \cap Spellings[o] = {} => \A p \in gives : kept = <<p[2]>>
<1> DEFINE k == Kept(args, Overridden(user))
           S == ProfilePairs(model, config, tool, flags)
           R == Without(S, Overridden(user))
           gives == OfOption(S, o)
           rest == OfOption(R, o)
<1>1. Lists(k, R)
  BY DEF Filters
<1>2. rest = {p \in gives : p[1] \notin Overridden(user)}
  BY DEF OfOption, Without
<1>3. \A p \in gives : gives = {p} /\ p[1] \in Spellings[o] \ Depth
  BY OneInProfile
<1>4. rest = {} => Settings(k, o) = <<>>
  <2> HIDE DEF k, R
  <2> QED  BY <1>1, NoSetting
<1>5. \A p : rest = {p} => Settings(k, o) = <<p[2]>>
  <2> HIDE DEF k, R
  <2> QED  BY <1>1, OneSetting
<1>6. rest = {} \/ \E p : rest = {p}
  BY <1>2, <1>3
<1>7. Mentioned(user) \cap Spellings[o] # {} /\ o # "n_cpu_moe" => rest = {}
  <2> SUFFICES ASSUME Mentioned(user) \cap Spellings[o] # {} /\ o # "n_cpu_moe",
                      NEW p \in gives
               PROVE  p[1] \in Overridden(user)
    BY <1>2
  <2>1. p[1] \in Spellings[o] \ Depth
    BY <1>3
  <2> QED  BY <2>1, OverriddenIs
<1>8. Mentioned(user) \cap Spellings[o] = {} => \A p \in gives : rest = {p}
  <2> SUFFICES ASSUME Mentioned(user) \cap Spellings[o] = {}, NEW p \in gives
               PROVE  rest = {p}
    OBVIOUS
  <2>1. p[1] \in Spellings[o] \ Depth /\ gives = {p}
    BY <1>3
  <2>2. p[1] \notin Overridden(user)
    BY <2>1, OverriddenIs
  <2> QED  BY <1>2, <2>1, <2>2
<1> HIDE DEF rest, k
<1> QED  BY <1>4, <1>5, <1>6, <1>7, <1>8 DEF k

\* The command line of cmd_run and cmd_serve, beside that of llama-bench.
ServesOption(o, args, user, bench, flags) ==
  LET set == Settings(args, o)
      given == Settings(user, o)
      measured == Settings(bench, o)
  IN /\ given # <<>> => set = given \/ (o = "n_cpu_moe" /\ Tail(set) = given)
     /\ given = <<>> => Len(set) <= 1
     /\ /\ given = <<>> /\ measured # <<>>
        /\ o = "model" \/ Spellings[o] \cap flags # {}
        => set = measured \/ (o = "context" /\ measured = <<0>>)

Serves(args, user, bench, flags) ==
  /\ Stray(args) => Stray(user)
  /\ \A o \in Options : ServesOption(o, args, user, bench, flags)

\* The command line of a launch, whatever it is put together from.
LEMMA CommandLine ==
  ASSUME NEW model, NEW config, config.context \in Nat, NEW bench, NEW tool,
         NEW flags, flags \cap (ShortFlags \cup Depth) = {},
         NEW user, IsSeq(user), Mentioned(user) \cap Depth = {},
         NEW args, args = MergeUserOverrides(
           ConfigArguments(model, config, flags) \o ServerPart(tool, flags), user)
  PROVE  Serves(args, user, BenchArguments(model, config, bench), flags)
<1> DEFINE profile == ConfigArguments(model, config, flags) \o ServerPart(tool, flags)
           S == ProfilePairs(model, config, tool, flags)
           k == Kept(profile, Overridden(user))
           R == Without(S, Overridden(user))
           b == BenchArguments(model, config, bench)
           B == BenchPairs(model, config, bench)
<1>1. Filters(profile, S)
  BY ProfilePart
<1>2. Lists(b, B)
  BY BenchPart DEF Part, Filters
<1> HIDE DEF profile
<1>3. args = k \o user
  BY DEF MergeUserOverrides, Kept, Spared, FlagOf, profile
<1>4. Lists(k, R)
  BY <1>1 DEF Filters
<1> HIDE DEF S, k, R, b, B
<1>5. Stray(args) => Stray(user)
  BY <1>3, <1>4, StrayTogether
<1>6. ASSUME NEW o \in Options PROVE ServesOption(o, args, user, b, flags)
  <2> DEFINE set == Settings(args, o)
             given == Settings(user, o)
             kept == Settings(k, o)
             measured == Settings(b, o)
             gives == OfOption(S, o)
  <2>1. set = kept \o given
    BY <1>3, <1>4, SettingsTogether
  <2>2. given # <<>> <=> Mentioned(user) \cap Spellings[o] # {}
    BY MentionedIsSet
  <2>3. /\ kept = <<>> \/ \E v : kept = <<v>>
        /\ Mentioned(user) \cap Spellings[o] # {} /\ o # "n_cpu_moe" => kept = <<>>
        /\ Mentioned(user) \cap Spellings[o] = {} => \A p \in gives : kept = <<p[2]>>
    BY <1>1, ProfileSettings DEF S, k
  <2>4. IsSeq(given)
    BY ValuesAre, AtIsSeq DEF Settings, Values
  <2>5. measured = <<>> \/ \E q \in OfOption(B, o) : measured = <<q[2]>>
    <3>1. CASE OfOption(B, o) = {}
      BY <1>2, <3>1, NoSetting
    <3>2. ASSUME NEW q \in OfOption(B, o) PROVE measured = <<q[2]>>
      <4>1. OfOption(B, o) = {q}
        BY OneInBench DEF B
      <4> QED  BY <1>2, <4>1, OneSetting
    <3> QED  BY <3>1, <3>2
  <2> HIDE DEF set, given, kept, measured, gives
  <2>6. given # <<>> => set = given \/ (o = "n_cpu_moe" /\ Tail(set) = given)
    <3> SUFFICES ASSUME given # <<>>, kept # <<>> PROVE o = "n_cpu_moe" /\ Tail(set) = given
      BY <2>1, <2>4, Concatenation, Short
    <3>1. PICK v : kept = <<v>>
      BY <2>3
    <3>2. set = <<v>> \o given
      BY <2>1, <3>1
    <3>3. PICK T : given \in Seq(T)
      BY <2>4 DEF IsSeq
    <3>4. given \in Seq(T \cup {v}) /\ v \in T \cup {v}
      BY <3>3, Wider
    <3>5. Tail(<<v>> \o given) = given
      BY <3>4
    <3> QED  BY <2>2, <2>3, <3>2, <3>5
  <2>7. given = <<>> => set = kept
    <3>1. IsSeq(kept)
      BY <2>3, Short
    <3> QED  BY <2>1, <3>1, Concatenation, Short
  <2>8. given = <<>> => Len(set) <= 1
    <3>1. Len(kept) <= 1
      <4>1. CASE kept = <<>>
        BY <4>1, Short
      <4>2. CASE \E v : kept = <<v>>
        <5>1. PICK v : kept = <<v>>
          BY <4>2
        <5>2. Len(<<v>>) = 1
          BY Short
        <5> QED  BY <5>1, <5>2
      <4> QED  BY <2>3, <4>1, <4>2
    <3> QED  BY <2>7, <3>1
  <2>9. ASSUME given = <<>>, measured # <<>>, o = "model" \/ Spellings[o] \cap flags # {},
               ~(o = "context" /\ measured = << 0 >>)
        PROVE  set = measured
    <3>1. PICK q \in OfOption(B, o) : measured = <<q[2]>>
      BY <2>5, <2>9
    <3>2. ~(o = "context" /\ q[2] = 0)
      BY <2>9, <3>1
    <3>3. PICK p \in gives : p[2] = q[2]
      BY <2>9, <3>1, <3>2, BenchIsProfile DEF B, S, gives
    <3>4. kept = <<p[2]>>
      BY <2>2, <2>3, <2>9, <3>3
    <3> QED  BY <2>7, <2>9, <3>1, <3>3, <3>4
  <2> QED  BY <2>6, <2>8, <2>9 DEF set, given, measured, ServesOption
<1> QED  BY <1>5, <1>6 DEF b, Serves

-----------------------------------------------------------------------------
(* Reading: what an entry takes, and when it is taken.                     *)

\* A function that is defined on 0..n by what it is at the number before.
Recurrence(n, S, a, step) == n \in Nat /\ a \in S /\ \A x \in S, i \in 1..n : step[<<x, i>>] \in S
Follows(n, S, a, step, f) ==
  f \in [0..n -> S] /\ f[0] = a /\ \A i \in 1..n : f[i] = step[<<f[i - 1], i>>]

\* It exists.
LEMMA Recursion ==
  ASSUME NEW n, NEW S, NEW a, NEW step, Recurrence(n, S, a, step)
  PROVE  \E f : Follows(n, S, a, step, f)
<1>0. n \in Nat /\ a \in S /\ \A x \in S, i \in 1..n : step[<<x, i>>] \in S
  BY DEF Recurrence
<1> DEFINE Good(f, k) == /\ f \in [0..k -> S] /\ f[0] = a
                         /\ \A i \in 1..k : f[i] = step[<<f[i - 1], i>>]
           Defined == {k \in Nat : k <= n => \E f : Good(f, k)}
<1>1. 0 \in Defined
  <2> DEFINE f == [i \in 0..0 |-> a]
  <2>1. Good(f, 0)
    BY <1>0
  <2> QED  BY <2>1
<1>2. ASSUME NEW k \in Nat, k \in Defined PROVE k + 1 \in Defined
  <2> SUFFICES ASSUME k + 1 <= n PROVE \E f : Good(f, k + 1)
    OBVIOUS
  <2>1. PICK f : Good(f, k)
    BY <1>0, <1>2
  <2> DEFINE g == [i \in 0..(k + 1) |-> IF i <= k THEN f[i] ELSE step[<<f[k], k + 1>>]]
  <2>2. f[k] \in S /\ step[<<f[k], k + 1>>] \in S
    <3>1. k \in 0..k /\ k + 1 \in 1..n
      BY <1>0
    <3>2. f[k] \in S
      BY <2>1, <3>1
    <3> QED  BY <1>0, <3>1, <3>2
  <2>3. g \in [0..(k + 1) -> S]
    <3>1. ASSUME NEW i \in 0..(k + 1) PROVE g[i] \in S
      BY <2>1, <2>2
    <3> QED  BY <3>1
  <2>4. g[0] = a
    BY <2>1
  <2>5. ASSUME NEW i \in 1..(k + 1) PROVE g[i] = step[<<g[i - 1], i>>]
    <3>1. i - 1 \in 0..(k + 1) /\ i - 1 <= k /\ g[i - 1] = f[i - 1]
      OBVIOUS
    <3>2. CASE i <= k
      BY <2>1, <3>1, <3>2
    <3>3. CASE ~(i <= k)
      <4>1. i = k + 1 /\ i - 1 = k
        BY <3>3
      <4> QED  BY <3>1, <3>3, <4>1
    <3> QED  BY <3>2, <3>3
  <2> HIDE DEF g
  <2> QED  BY <2>3, <2>4, <2>5
<1>3. n \in Defined
  <2> HIDE DEF Defined
  <2> QED  BY <1>0, <1>1, <1>2, InductionOnSets
<1> QED  BY <1>0, <1>3 DEF Follows

\* The bytes of a list of strings.
LEMMA StringBytesIs ==
  ASSUME NEW lengths \in Seq(Nat)
  PROVE  \E f \in [0..Len(lengths) -> Nat] :
           /\ f[0] = 0 /\ \A i \in 1..Len(lengths) : f[i] = f[i - 1] + 8 + lengths[i]
           /\ G!StringBytes(lengths) = f[Len(lengths)]
<1> DEFINE n == Len(lengths)
           Body(f) == [i \in 0..n |-> IF i = 0 THEN 0 ELSE f[i - 1] + 8 + lengths[i]]
           step == [x \in Nat \X (1..n) |-> x[1] + 8 + lengths[x[2]]]
           f == CHOOSE f : f = Body(f)
<1>1. n \in Nat /\ \A i \in 1..n : lengths[i] \in Nat
  OBVIOUS
<1>2. \E x \in [0..n -> Nat] : /\ x[0] = 0
                               /\ \A i \in 1..n : x[i] = x[i - 1] + 8 + lengths[i]
  <2>2. \A x \in Nat, i \in 1..n : step[<<x, i>>] = x + 8 + lengths[i]
    OBVIOUS
  <2> HIDE DEF step, n
  <2>1. Recurrence(n, Nat, 0, step)
    BY <1>1, <2>2 DEF Recurrence
  <2>5. PICK x : Follows(n, Nat, 0, step, x)
    BY <2>1, Recursion
  <2>3. x \in [0..n -> Nat] /\ x[0] = 0 /\ \A i \in 1..n : x[i] = step[<<x[i - 1], i>>]
    BY <2>5 DEF Follows
  <2>4. \A i \in 1..n : x[i - 1] \in Nat
    BY <1>1, <2>3
  <2> QED  BY <2>2, <2>3, <2>4
<1>3. PICK x \in [0..n -> Nat] : /\ x[0] = 0
                                 /\ \A i \in 1..n : x[i] = x[i - 1] + 8 + lengths[i]
  BY <1>2
<1>4. x = Body(x)
  BY <1>1, <1>3
<1>5. f = Body(f)
  <2> HIDE DEF Body
  <2> QED  BY <1>4
<1>6. G!StringBytes(lengths) = f[n]
  BY DEF G!StringBytes
<1> HIDE DEF f, n
<1>7. f[0] = 0 /\ \A i \in 1..n : f[i] = f[i - 1] + 8 + lengths[i]
  BY <1>1, <1>5
<1> DEFINE Done == {k \in Nat : k <= n => f[k] \in Nat}
<1>8. 0 \in Done
  BY <1>7
<1>9. ASSUME NEW k \in Nat, k \in Done PROVE k + 1 \in Done
  <2> SUFFICES ASSUME k + 1 <= n PROVE f[k + 1] \in Nat
    OBVIOUS
  <2>1. k + 1 \in 1..n /\ (k + 1) - 1 = k /\ f[k] \in Nat
    BY <1>1, <1>9
  <2>2. f[k + 1] = f[k] + 8 + lengths[k + 1] /\ lengths[k + 1] \in Nat
    BY <1>1, <1>7, <2>1
  <2> QED  BY <2>1, <2>2
<1>10. \A k \in Nat : k \in Done
  <2> HIDE DEF Done
  <2> QED  BY <1>8, <1>9, InductionOnSets
<1>11. f \in [0..n -> Nat]
  <2>1. \A i \in 0..n : f[i] \in Nat
    BY <1>1, <1>10
  <2>2. f = [i \in 0..n |-> f[i]]
    BY <1>5
  <2> HIDE DEF Body
  <2> QED  BY <2>1, <2>2
<1> QED  BY <1>6, <1>7, <1>11 DEF n

\* A position: nowhere, or in the file.
InFile(p) == p = -1 \/ p \in 0..file.size

\* What a reader gets to that passes n bytes, if they are there.
Past(p, n) == IF p # -1 /\ p + n <= file.size THEN p + n ELSE -1

LEMMA Advances ==
  ASSUME file.size \in Nat, NEW p, InFile(p), NEW n \in Nat
  PROVE  G!Advance(p, n) = Past(p, n) /\ InFile(Past(p, n))
BY DEF G!Advance, G!Failed, InFile, Past

LEMMA PastTwice ==
  ASSUME file.size \in Nat, NEW p, InFile(p), NEW m \in Nat, NEW n \in Nat
  PROVE  Past(Past(p, m), n) = Past(p, m + n)
BY DEF InFile, Past

\* A string is passed if it is short enough and there.
LEMMA ReadsString ==
  ASSUME file.size \in Nat, NEW p, InFile(p), NEW length \in Nat, NEW limit \in Nat
  PROVE  /\ G!ReadString(p, length, limit) = IF length <= limit THEN Past(p, 8 + length) ELSE -1
         /\ InFile(G!ReadString(p, length, limit))
<1>1. G!Advance(p, 8) = Past(p, 8) /\ InFile(Past(p, 8))
  BY Advances
<1>2. G!Advance(Past(p, 8), length) = Past(Past(p, 8), length)
      /\ InFile(Past(Past(p, 8), length))
  BY <1>1, Advances
<1>3. Past(Past(p, 8), length) = Past(p, 8 + length)
  BY PastTwice
<1>4. G!ReadString(p, length, limit) =
        IF length > limit THEN -1 ELSE G!Advance(G!Advance(p, 8), length)
  BY DEF G!ReadString, G!Failed
<1>5. InFile(-1)
  BY DEF InFile
<1> QED  BY <1>1, <1>2, <1>3, <1>4, <1>5

\* The strings of an array are passed together, if each of them may be.
LEMMA SkipsStrings ==
  ASSUME file.size \in Nat, MaxStringBytes \in Nat,
         NEW p, InFile(p), NEW lengths \in Seq(Nat)
  PROVE  /\ G!StringBytes(lengths) \in Nat
         /\ G!SkipStrings(p, lengths) =
              IF \A i \in 1..Len(lengths) : lengths[i] <= MaxStringBytes
              THEN Past(p, G!StringBytes(lengths)) ELSE -1
         /\ Len(lengths) = 1 => G!StringBytes(lengths) = 8 + lengths[1]
<1> DEFINE n == Len(lengths)
           S == {-1} \cup 0..file.size
           Body(f) == [i \in 0..n |-> IF i = 0 THEN p
                         ELSE G!ReadString(f[i - 1], lengths[i], MaxStringBytes)]
           step == [x \in S \X (1..n) |-> G!ReadString(x[1], lengths[x[2]], MaxStringBytes)]
           f == CHOOSE f : f = Body(f)
<1>1. n \in Nat /\ \A i \in 1..n : lengths[i] \in Nat
  OBVIOUS
<1>2. \E x : x = Body(x)
  <2>1. \A x \in S, i \in 1..n : step[<<x, i>>] = G!ReadString(x, lengths[i], MaxStringBytes)
    OBVIOUS
  <2>2. \A x \in S : InFile(x)
    BY DEF InFile
  <2>3. \A x : InFile(x) => x \in S
    BY DEF InFile
  <2> HIDE DEF step, n, S
  <2>4. ASSUME NEW x \in S, NEW i \in 1..n PROVE step[<<x, i>>] \in S
    <3>1. InFile(x) /\ lengths[i] \in Nat
      BY <1>1, <2>2
    <3>2. InFile(G!ReadString(x, lengths[i], MaxStringBytes))
      BY <3>1, ReadsString
    <3> QED  BY <2>1, <2>3, <3>2
  <2>5. Recurrence(n, S, p, step)
    BY <1>1, <2>3, <2>4 DEF Recurrence
  <2>6. PICK x : Follows(n, S, p, step, x)
    BY <2>5, Recursion
  <2>7. x \in [0..n -> S] /\ x[0] = p /\ \A i \in 1..n : x[i] = step[<<x[i - 1], i>>]
    BY <2>6 DEF Follows
  <2>8. \A i \in 1..n : x[i] = G!ReadString(x[i - 1], lengths[i], MaxStringBytes)
    <3> TAKE i \in 1..n
    <3>1. i - 1 \in 0..n
      BY <1>1
    <3>2. x[i - 1] \in S
      BY <2>7, <3>1
    <3> QED  BY <2>1, <2>7, <3>2
  <2>9. \A i \in 0..n : x[i] = IF i = 0 THEN p
                               ELSE G!ReadString(x[i - 1], lengths[i], MaxStringBytes)
    BY <1>1, <2>7, <2>8
  <2>10. x = [i \in 0..n |-> x[i]]
    BY <2>7
  <2> QED  BY <2>9, <2>10
<1>3. f = Body(f)
  <2> HIDE DEF Body
  <2> QED  BY <1>2
<1>4. G!SkipStrings(p, lengths) = f[n]
  BY DEF G!SkipStrings
<1> HIDE DEF f, n, S
<1>5. f[0] = p /\ \A i \in 1..n : f[i] = G!ReadString(f[i - 1], lengths[i], MaxStringBytes)
  BY <1>1, <1>3
<1>6. PICK b \in [0..n -> Nat] :
        /\ b[0] = 0 /\ \A i \in 1..n : b[i] = b[i - 1] + 8 + lengths[i]
        /\ G!StringBytes(lengths) = b[n]
  BY StringBytesIs DEF n
<1> DEFINE Fine(k) == \A i \in 1..k : lengths[i] <= MaxStringBytes
           Done == {k \in Nat : k <= n =>
                      InFile(f[k]) /\ f[k] = IF Fine(k) THEN Past(p, b[k]) ELSE -1}
<1>7. 0 \in Done
  <2>1. Past(p, 0) = p
    BY DEF Past, InFile
  <2> QED  BY <1>5, <1>6, <2>1
<1>8. ASSUME NEW k \in Nat, k \in Done PROVE k + 1 \in Done
  <2> SUFFICES ASSUME k + 1 <= n
               PROVE  /\ InFile(f[k + 1])
                      /\ f[k + 1] = IF Fine(k + 1) THEN Past(p, b[k + 1]) ELSE -1
    OBVIOUS
  <2>1. k + 1 \in 1..n /\ (k + 1) - 1 = k /\ k \in 0..n /\ k <= n
    BY <1>1
  <2>2. InFile(f[k]) /\ f[k] = IF Fine(k) THEN Past(p, b[k]) ELSE -1
    BY <1>8, <2>1
  <2>3. f[k + 1] = G!ReadString(f[k], lengths[k + 1], MaxStringBytes)
        /\ lengths[k + 1] \in Nat /\ b[k + 1] = b[k] + 8 + lengths[k + 1] /\ b[k] \in Nat
    BY <1>1, <1>5, <1>6, <2>1
  <2>4. /\ f[k + 1] = IF lengths[k + 1] <= MaxStringBytes
                      THEN Past(f[k], 8 + lengths[k + 1]) ELSE -1
        /\ InFile(f[k + 1])
    BY <2>2, <2>3, ReadsString
  <2>5. Fine(k + 1) <=> Fine(k) /\ lengths[k + 1] <= MaxStringBytes
    <3>1. 1..(k + 1) = 1..k \cup {k + 1}
      OBVIOUS
    <3> QED  BY <3>1
  <2>6. Past(Past(p, b[k]), 8 + lengths[k + 1]) = Past(p, b[k + 1])
    <3> DEFINE c == b[k]
               l == lengths[k + 1]
    <3>1. c \in Nat /\ l \in Nat /\ b[k + 1] = c + 8 + l
      BY <2>3
    <3> HIDE DEF c, l
    <3>2. 8 + l \in Nat /\ b[k + 1] = c + (8 + l)
      BY <3>1
    <3>3. Past(Past(p, c), 8 + l) = Past(p, c + (8 + l))
      BY <3>1, <3>2, PastTwice
    <3> QED  BY <3>2, <3>3 DEF c, l
  <2>7. \A m : Past(-1, m) = -1
    BY DEF Past
  <2> HIDE DEF Fine
  <2> QED  BY <2>2, <2>4, <2>5, <2>6, <2>7
<1>9. n \in Done
  <2> HIDE DEF Done
  <2> QED  BY <1>1, <1>7, <1>8, InductionOnSets
<1>10. G!SkipStrings(p, lengths) = IF Fine(n) THEN Past(p, b[n]) ELSE -1
  BY <1>1, <1>4, <1>9
<1>11. n = 1 => b[n] = 8 + lengths[1]
  BY <1>6
<1> QED  BY <1>1, <1>6, <1>10, <1>11 DEF n

\* The widths that the reader repeats are those of the format.
LEMMA WidthsAgree ==
  \A t \in G!KnownTypes \ {"string", "array"} : G!FixedSize(t) = G!Width[t] /\ G!Width[t] \in 1..8
<1> SUFFICES ASSUME NEW t \in G!KnownTypes \ {"string", "array"}
             PROVE  G!FixedSize(t) = G!Width[t] /\ G!Width[t] \in 1..8
  OBVIOUS
<1>1. CASE t \in {"u8", "i8", "bool"}
  BY <1>1 DEF G!FixedSize, G!Width
<1>2. CASE t \in {"u16", "i16"}
  BY <1>2 DEF G!FixedSize, G!Width
<1>3. CASE t \in {"u32", "i32", "f32"}
  BY <1>3 DEF G!FixedSize, G!Width
<1>4. CASE t \in {"u64", "i64", "f64"}
  BY <1>4 DEF G!FixedSize, G!Width
<1> QED  BY <1>1, <1>2, <1>3, <1>4 DEF G!KnownTypes, G!Ints, G!UInts

LEMMA Product ==
  \A a, b \in Nat : a * b \in Nat
OBVIOUS

\* An entry that is legal and there is passed, and no other.
LEMMA ReadsEntry ==
  ASSUME file.size \in Nat, MaxKeyBytes \in Nat, MaxStringBytes \in Nat, MaxArrayElements \in Nat,
         NEW p, InFile(p), NEW e, G!Written(e)
  PROVE  G!ReadEntry(p, e) = IF G!Legal(e) THEN Past(p, e.bytes) ELSE -1
<1>1. /\ e.keyBytes \in Nat /\ e.bytes \in Nat \ {0}
      /\ e.strings \in Seq(Nat) /\ e.count \in Nat
      /\ e.type = "string" => Len(e.strings) = 1
      /\ e.type # "string" /\ ~(e.type = "array" /\ e.of = "string") => e.strings = <<>>
      /\ e.type \in G!KnownTypes /\ (e.type = "array" => e.of \in G!KnownTypes \ {"array"}) =>
           e.bytes = 8 + e.keyBytes + 4 + G!ValueBytes(e)
  BY DEF G!Written
<1> DEFINE k == 8 + e.keyBytes
           q == Past(p, k + 4)
           keyFits == e.keyBytes <= MaxKeyBytes
           fine == \A i \in 1..Len(e.strings) : e.strings[i] <= MaxStringBytes
<1>2. G!Advance(G!ReadString(p, e.keyBytes, MaxKeyBytes), 4) = IF keyFits THEN q ELSE -1
  <2>1. G!ReadString(p, e.keyBytes, MaxKeyBytes) = (IF keyFits THEN Past(p, k) ELSE -1)
        /\ InFile(G!ReadString(p, e.keyBytes, MaxKeyBytes))
    BY <1>1, ReadsString
  <2>2. G!Advance(G!ReadString(p, e.keyBytes, MaxKeyBytes), 4)
          = Past(G!ReadString(p, e.keyBytes, MaxKeyBytes), 4)
    BY <2>1, Advances
  <2>3. Past(Past(p, k), 4) = Past(p, k + 4)
    <3>1. k \in Nat
      BY <1>1
    <3> HIDE DEF k
    <3> QED  BY <3>1, PastTwice
  <2>4. Past(-1, 4) = -1
    BY DEF Past
  <2> QED  BY <2>1, <2>2, <2>3, <2>4
<1>3. InFile(q) /\ k + 4 \in Nat
  <2>1. k + 4 \in Nat
    BY <1>1
  <2> HIDE DEF k
  <2> QED  BY <2>1, Advances
<1>4. DOMAIN e.strings = 1..Len(e.strings)
  BY <1>1
<1>5. G!Legal(e) <=> /\ keyFits /\ e.type \in G!KnownTypes /\ fine
                     /\ e.type = "array" => /\ e.of \in G!KnownTypes \ {"array"}
                                            /\ e.count <= MaxArrayElements
  BY <1>4 DEF G!Legal
<1>6. /\ G!StringBytes(e.strings) \in Nat
      /\ Len(e.strings) = 1 => G!StringBytes(e.strings) = 8 + e.strings[1]
  BY <1>1, SkipsStrings
<1>7. ASSUME NEW n \in Nat, e.bytes = 8 + e.keyBytes + 4 + n
      PROVE  Past(q, n) = Past(p, e.bytes)
  <2>1. (k + 4) + n = e.bytes
    BY <1>1, <1>7
  <2> HIDE DEF k
  <2> QED  BY <1>3, <2>1, PastTwice
<1>8. ASSUME e.type \in G!KnownTypes, e.type = "array" => e.of \in G!KnownTypes \ {"array"}
      PROVE  G!ValueBytes(e) \in Nat /\ Past(q, G!ValueBytes(e)) = Past(p, e.bytes)
  <2>1. G!ValueBytes(e) \in Nat
    <3>1. CASE e.type = "string"
      BY <1>6, <3>1 DEF G!ValueBytes
    <3>2. CASE e.type = "array" /\ e.of = "string"
      BY <1>6, <3>2 DEF G!ValueBytes
    <3>3. CASE e.type = "array" /\ e.of # "string"
      <4>1. G!Width[e.of] \in 1..8
        BY <1>8, <3>3, WidthsAgree
      <4>2. e.count * G!Width[e.of] \in Nat
        <5> DEFINE w == G!Width[e.of]
        <5>1. w \in Nat /\ e.count \in Nat
          BY <1>1, <4>1
        <5> HIDE DEF w
        <5>2. e.count * w \in Nat
          BY <5>1, Product
        <5> QED  BY <5>2 DEF w
      <4> QED  BY <3>3, <4>2 DEF G!ValueBytes
    <3>4. CASE e.type \notin {"string", "array"}
      <4>1. G!Width[e.type] \in 1..8
        BY <1>8, <3>4, WidthsAgree
      <4> QED  BY <3>4, <4>1 DEF G!ValueBytes
    <3> QED  BY <3>1, <3>2, <3>3, <3>4
  <2>2. e.bytes = 8 + e.keyBytes + 4 + G!ValueBytes(e)
    BY <1>1, <1>8
  <2> QED  BY <1>7, <2>1, <2>2
<1>9. \A n : Past(-1, n) = -1
  BY DEF Past
<1> DEFINE r == G!Advance(G!ReadString(p, e.keyBytes, MaxKeyBytes), 4)
<1>10. G!ReadEntry(p, e) =
         IF r = -1 \/ e.type \notin G!KnownTypes THEN -1
         ELSE IF e.type = "array" THEN G!SkipArray(r, e) ELSE G!ReadScalar(r, e)
  BY DEF G!ReadEntry, G!Failed
<1>11. r = IF keyFits THEN q ELSE -1
  BY <1>2
<1> HIDE DEF r, q, k
<1>12. CASE ~keyFits \/ e.type \notin G!KnownTypes
  <2>1. r = -1 \/ e.type \notin G!KnownTypes
    BY <1>11, <1>12
  <2>2. G!ReadEntry(p, e) = -1
    BY <1>10, <2>1
  <2> QED  BY <1>5, <1>12, <2>2
<1>13. CASE keyFits /\ e.type \in G!KnownTypes /\ q = -1
  <2>1. r = -1
    BY <1>11, <1>13
  <2>2. G!ReadEntry(p, e) = -1
    BY <1>10, <2>1
  <2>3. G!Legal(e) => Past(p, e.bytes) = -1
    BY <1>5, <1>8, <1>9, <1>13
  <2> QED  BY <2>2, <2>3
<1>14. CASE keyFits /\ e.type \in G!KnownTypes /\ q # -1 /\ e.type = "array"
  <2>1. r = q
    BY <1>11, <1>14
  <2>2. G!ReadEntry(p, e) = G!SkipArray(q, e)
    BY <1>10, <1>14, <2>1
  <2> DEFINE t == G!Advance(G!Advance(q, 4), 8)
  <2>3. t = Past(q, 12) /\ InFile(t)
    <3>1. G!Advance(q, 4) = Past(q, 4) /\ InFile(Past(q, 4))
      BY <1>3, Advances
    <3>2. t = Past(Past(q, 4), 8) /\ InFile(t)
      BY <3>1, Advances
    <3>3. Past(Past(q, 4), 8) = Past(q, 12)
      BY <1>3, PastTwice
    <3> QED  BY <3>2, <3>3
  <2>4. G!SkipArray(q, e) =
          IF e.of \notin G!KnownTypes \ {"array"} \/ e.count > MaxArrayElements THEN -1
          ELSE IF e.of = "string" THEN G!SkipStrings(t, e.strings)
          ELSE G!Advance(t, e.count * G!FixedSize(e.of))
    BY DEF G!SkipArray, G!Failed
  <2> HIDE DEF t
  <2>5. CASE e.of \notin G!KnownTypes \ {"array"} \/ e.count > MaxArrayElements
    <3>1. G!SkipArray(q, e) = -1
      BY <2>4, <2>5
    <3>2. ~(e.of \in G!KnownTypes \ {"array"} /\ e.count <= MaxArrayElements)
      BY <1>1, <2>5
    <3> QED  BY <1>5, <1>14, <2>2, <3>1, <3>2
  <2>6. CASE /\ e.of \in G!KnownTypes \ {"array"} /\ ~(e.count > MaxArrayElements)
             /\ e.of = "string"
    <3>1. G!SkipArray(q, e) = G!SkipStrings(t, e.strings)
      BY <2>4, <2>6
    <3> DEFINE sb == G!StringBytes(e.strings)
    <3>2. G!SkipStrings(t, e.strings) = IF fine THEN Past(t, sb) ELSE -1
      BY <1>1, <2>3, SkipsStrings
    <3>3. G!ValueBytes(e) = 12 + sb
      BY <1>14, <2>6 DEF G!ValueBytes
    <3>4. sb \in Nat
      BY <1>6
    <3> HIDE DEF sb
    <3>5. Past(t, sb) = Past(q, 12 + sb)
      BY <1>3, <2>3, <3>4, PastTwice
    <3>6. Past(t, sb) = Past(p, e.bytes)
      BY <1>8, <1>14, <2>6, <3>3, <3>5
    <3>7. G!Legal(e) <=> fine
      BY <1>1, <1>5, <1>14, <2>6
    <3> QED  BY <2>2, <3>1, <3>2, <3>6, <3>7
  <2>7. CASE /\ e.of \in G!KnownTypes \ {"array"} /\ ~(e.count > MaxArrayElements)
             /\ e.of # "string"
    <3> DEFINE w == e.count * G!FixedSize(e.of)
    <3>1. G!SkipArray(q, e) = G!Advance(t, w)
      BY <2>4, <2>7
    <3>2. G!FixedSize(e.of) = G!Width[e.of] /\ G!Width[e.of] \in 1..8
      BY <2>7, WidthsAgree
    <3>3. G!ValueBytes(e) = 12 + w
      BY <1>14, <2>7, <3>2 DEF G!ValueBytes
    <3>4. w \in Nat
      <4>1. e.count \in Nat /\ G!FixedSize(e.of) \in Nat
        BY <1>1, <3>2
      <4> QED  BY <4>1, Product
    <3> HIDE DEF w
    <3>5. G!Advance(t, w) = Past(t, w)
      BY <2>3, <3>4, Advances
    <3>6. Past(t, w) = Past(q, 12 + w)
      BY <1>3, <2>3, <3>4, PastTwice
    <3>7. Past(t, w) = Past(p, e.bytes)
      BY <1>8, <1>14, <2>7, <3>3, <3>6
    <3>8. fine
      <4>1. e.strings = <<>>
        BY <1>1, <1>14, <2>7
      <4> QED  BY <4>1
    <3>9. G!Legal(e)
      BY <1>1, <1>5, <1>14, <2>7, <3>8
    <3> QED  BY <2>2, <3>1, <3>5, <3>7, <3>9
  <2> QED  BY <2>5, <2>6, <2>7
<1>15. CASE keyFits /\ e.type \in G!KnownTypes /\ q # -1 /\ e.type # "array"
  <2>1. r = q
    BY <1>11, <1>15
  <2>2. G!ReadEntry(p, e) = G!ReadScalar(q, e)
    BY <1>10, <1>15, <2>1
  <2>3. Past(q, G!ValueBytes(e)) = Past(p, e.bytes)
    BY <1>8, <1>15
  <2>4. G!Legal(e) <=> fine
    BY <1>5, <1>15
  <2>5. CASE e.type = "string"
    <3>1. Len(e.strings) = 1 /\ e.strings[1] \in Nat
      BY <1>1, <2>5
    <3>2. G!ReadScalar(q, e) = G!ReadString(q, e.strings[1], MaxStringBytes)
      BY <2>5 DEF G!ReadScalar
    <3>3. G!ReadString(q, e.strings[1], MaxStringBytes)
            = IF e.strings[1] <= MaxStringBytes THEN Past(q, 8 + e.strings[1]) ELSE -1
      BY <1>3, <3>1, ReadsString
    <3>4. G!ValueBytes(e) = 8 + e.strings[1]
      BY <1>6, <2>5, <3>1 DEF G!ValueBytes
    <3>5. fine <=> e.strings[1] <= MaxStringBytes
      BY <3>1
    <3> QED  BY <2>2, <2>3, <2>4, <3>2, <3>3, <3>4, <3>5
  <2>6. CASE e.type # "string"
    <3>1. G!FixedSize(e.type) = G!Width[e.type] /\ G!Width[e.type] \in 1..8
      BY <1>15, <2>6, WidthsAgree
    <3>2. G!ReadScalar(q, e) = G!Advance(q, G!FixedSize(e.type))
      BY <2>6 DEF G!ReadScalar
    <3>3. G!ValueBytes(e) = G!Width[e.type]
      BY <1>15, <2>6 DEF G!ValueBytes
    <3> DEFINE w == G!Width[e.type]
    <3>4. w \in Nat
      BY <3>1
    <3> HIDE DEF w
    <3>5. G!Advance(q, w) = Past(q, w)
      BY <1>3, <3>4, Advances
    <3>6. fine
      <4>1. e.strings = <<>>
        BY <1>1, <1>15, <2>6
      <4> QED  BY <4>1
    <3>7. G!FixedSize(e.type) = w /\ G!ValueBytes(e) = w
      BY <3>1, <3>3 DEF w
    <3> QED  BY <2>2, <2>3, <2>4, <3>2, <3>5, <3>6, <3>7
  <2> QED  BY <2>5, <2>6
<1> QED  BY <1>12, <1>13, <1>14, <1>15

LEMMA FileIs ==
  ASSUME G!IsFile(file)
  PROVE  /\ file # NoValue /\ file.size \in Nat /\ file.kv_count \in Nat
         /\ Len(file.entries) \in Nat /\ DOMAIN file.entries = 1..Len(file.entries)
         /\ \A k \in 1..Len(file.entries) :
              G!Written(file.entries[k]) /\ file.entries[k].bytes \in Nat \ {0}
<1>1. file.entries \in Seq(G!Range(file.entries))
  BY DEF G!IsFile
<1>2. Len(file.entries) \in Nat /\ DOMAIN file.entries = 1..Len(file.entries)
  BY <1>1
<1>3. \A k \in 1..Len(file.entries) : file.entries[k] \in G!Range(file.entries)
  BY <1>2 DEF G!Range
<1>4. \A k \in 1..Len(file.entries) : G!Written(file.entries[k])
  BY <1>3 DEF G!IsFile
<1>5. \A k \in 1..Len(file.entries) : file.entries[k].bytes \in Nat \ {0}
  BY <1>4 DEF G!Written
<1> QED  BY <1>2, <1>4, <1>5 DEF G!IsFile

\* Where the entries are: each begins where the one before it ends.
LEMMA Offsets ==
  ASSUME G!IsFile(file)
  PROVE  /\ G!Offset(1) = 24
         /\ \A k \in 1..Len(file.entries) : G!Offset(k + 1) = G!Offset(k) + file.entries[k].bytes
         /\ \A k \in 1..(Len(file.entries) + 1) : G!Offset(k) \in Nat
<1> DEFINE n == Len(file.entries)
           Body(f) == [k \in 0..n |-> IF k = 0 THEN 24 ELSE f[k - 1] + file.entries[k].bytes]
           step == [x \in Nat \X (1..n) |-> x[1] + file.entries[x[2]].bytes]
           f == CHOOSE f : f = Body(f)
<1>1. n \in Nat /\ \A k \in 1..n : file.entries[k].bytes \in Nat
  BY FileIs
<1>2. \E x : x = Body(x) /\ \A k \in 0..n : x[k] \in Nat
  <2>1. \A x \in Nat, i \in 1..n : step[<<x, i>>] = x + file.entries[i].bytes
    OBVIOUS
  <2> HIDE DEF step, n
  <2>2. Recurrence(n, Nat, 24, step)
    BY <1>1, <2>1 DEF Recurrence
  <2>3. PICK x : Follows(n, Nat, 24, step, x)
    BY <2>2, Recursion
  <2>4. x \in [0..n -> Nat] /\ x[0] = 24 /\ \A i \in 1..n : x[i] = step[<<x[i - 1], i>>]
    BY <2>3 DEF Follows
  <2>5. \A i \in 1..n : x[i - 1] \in Nat
    BY <1>1, <2>4
  <2>6. \A i \in 0..n : x[i] = IF i = 0 THEN 24 ELSE x[i - 1] + file.entries[i].bytes
    <3> TAKE i \in 0..n
    <3>1. CASE i = 0
      BY <2>4, <3>1
    <3>2. CASE i # 0
      <4>1. i \in 1..n
        BY <1>1, <3>2
      <4> QED  BY <2>1, <2>4, <2>5, <3>2, <4>1
    <3> QED  BY <3>1, <3>2
  <2>7. x = [i \in 0..n |-> x[i]]
    BY <2>4
  <2> QED  BY <2>4, <2>6, <2>7
<1>3. f = Body(f)
  <2> HIDE DEF Body
  <2> QED  BY <1>2
<1>4. \A k : G!Offset(k) = f[k - 1]
  BY DEF G!Offset, G!HeaderBytes
<1> HIDE DEF f, n
<1>5. f[0] = 24 /\ \A k \in 1..n : f[k] = f[k - 1] + file.entries[k].bytes
  BY <1>1, <1>3
<1> DEFINE Done == {k \in Nat : k <= n => f[k] \in Nat}
<1>6. 0 \in Done
  BY <1>5
<1>7. ASSUME NEW k \in Nat, k \in Done PROVE k + 1 \in Done
  <2> SUFFICES ASSUME k + 1 <= n PROVE f[k + 1] \in Nat
    OBVIOUS
  <2>1. k + 1 \in 1..n /\ (k + 1) - 1 = k /\ f[k] \in Nat
    BY <1>1, <1>7
  <2> QED  BY <1>1, <1>5, <2>1
<1>8. \A k \in Nat : k \in Done
  <2> HIDE DEF Done
  <2> QED  BY <1>6, <1>7, InductionOnSets
<1>9. \A k \in 1..n : (k + 1) - 1 = k
  OBVIOUS
<1>10. ASSUME NEW k \in 1..(n + 1) PROVE f[k - 1] \in Nat
  <2>1. k - 1 \in Nat /\ k - 1 <= n
    BY <1>1
  <2> QED  BY <1>8, <2>1
<1>11. G!Offset(1) = 24
  BY <1>4, <1>5
<1>12. ASSUME NEW k \in 1..n PROVE G!Offset(k + 1) = G!Offset(k) + file.entries[k].bytes
  <2>1. G!Offset(k + 1) = f[k] /\ G!Offset(k) = f[k - 1]
    BY <1>4, <1>9
  <2> QED  BY <1>5, <2>1
<1>13. \A k \in 1..(n + 1) : G!Offset(k) \in Nat
  BY <1>4, <1>10
<1> QED  BY <1>11, <1>12, <1>13 DEF n

\* No two entries begin at the same place.
LEMMA OffsetsGrow ==
  ASSUME G!IsFile(file), NEW i \in Nat, NEW j \in Nat, i >= 1, i < j, j <= Len(file.entries) + 1
  PROVE  G!Offset(i) < G!Offset(j)
<1> DEFINE n == Len(file.entries)
           Done == {d \in Nat : i + d + 1 <= n + 1 => G!Offset(i) < G!Offset(i + d + 1)}
<1>1. n \in Nat /\ \A k \in 1..n : file.entries[k].bytes \in Nat \ {0}
  BY FileIs
<1>2. /\ \A k \in 1..n : G!Offset(k + 1) = G!Offset(k) + file.entries[k].bytes
      /\ \A k \in 1..(n + 1) : G!Offset(k) \in Nat
  BY Offsets
<1> HIDE DEF n
<1>3. ASSUME NEW k \in 1..n PROVE G!Offset(k) < G!Offset(k + 1)
  <2>1. k \in 1..(n + 1)
    BY <1>1
  <2>2. G!Offset(k) \in Nat /\ file.entries[k].bytes \in Nat /\ file.entries[k].bytes > 0
    BY <1>1, <1>2, <2>1
  <2> HIDE DEF n
  <2>3. G!Offset(k + 1) = G!Offset(k) + file.entries[k].bytes
    BY <1>2
  <2> QED  BY <2>2, <2>3
<1>4. 0 \in Done
  <2> SUFFICES ASSUME i + 1 <= n + 1 PROVE G!Offset(i) < G!Offset(i + 0 + 1)
    BY <1>1
  <2>1. i \in 1..n /\ i + 0 + 1 = i + 1
    BY <1>1
  <2> QED  BY <1>3, <2>1
<1>5. ASSUME NEW d \in Nat, d \in Done PROVE d + 1 \in Done
  <2> SUFFICES ASSUME i + (d + 1) + 1 <= n + 1 PROVE G!Offset(i) < G!Offset(i + (d + 1) + 1)
    OBVIOUS
  <2> DEFINE k == i + d + 1
  <2>1. k \in 1..n /\ i + (d + 1) + 1 = k + 1 /\ k <= n + 1 /\ i \in 1..(n + 1)
        /\ k \in 1..(n + 1) /\ k + 1 \in 1..(n + 1)
    BY <1>1
  <2>2. G!Offset(i) < G!Offset(k)
    BY <1>5, <2>1
  <2> HIDE DEF k
  <2>3. G!Offset(k) < G!Offset(k + 1)
    BY <1>3, <2>1
  <2>4. G!Offset(i) \in Nat /\ G!Offset(k) \in Nat /\ G!Offset(k + 1) \in Nat
    BY <1>2, <2>1
  <2>5. G!Offset(i) < G!Offset(k + 1)
    BY <2>2, <2>3, <2>4
  <2> QED  BY <2>1, <2>5
<1>6. \A d \in Nat : d \in Done
  <2> HIDE DEF Done
  <2> QED  BY <1>4, <1>5, InductionOnSets
<1>7. j - i - 1 \in Nat /\ i + (j - i - 1) + 1 = j
  OBVIOUS
<1>8. j - i - 1 \in Done
  <2> HIDE DEF Done
  <2> QED  BY <1>6, <1>7
<1>9. i + (j - i - 1) + 1 <= n + 1 => G!Offset(i) < G!Offset(i + (j - i - 1) + 1)
  BY <1>8
<1> QED  BY <1>7, <1>9 DEF n

-----------------------------------------------------------------------------
(* The reader: where it is, what it has kept, and what it makes of it.     *)

Scalar(e) == [key |-> e.key, type |-> e.type, value |-> e.value]

\* The scalars kept are the first under their keys, and every key is kept.
KeptInv ==
  /\ \A s \in scalars : \E j \in 1..walked :
       s = Scalar(file.entries[j]) /\ G!Defines(j, file.entries[j].key)
  /\ \A j \in 1..walked :
       /\ G!Defines(j, file.entries[j].key) => Scalar(file.entries[j]) \in scalars
       /\ file.entries[j].type # "array" => \E s \in scalars : s.key = file.entries[j].key

\* The reader stands where an entry begins that follows legal ones, or it has
\* failed, and rightly so.
ReadingInv ==
  /\ file \in Files
  /\ walked \in 0..Len(file.entries)
  /\ KeptInv
  /\ \/ /\ pos = G!Offset(walked + 1) /\ pos <= file.size
        /\ \A i \in 1..walked : G!Legal(file.entries[i])
     \/ pos = -1 /\ ~G!Whole
  /\ G!MetadataIsTheFiles

ReaderInv ==
  /\ pc = "reading" <=> file # NoValue
  /\ file = NoValue => G!Unread
  /\ file # NoValue => ReadingInv

\* What a result has to be for the file that is read.
FieldIsTheFiles(v, f) ==
  LET given == {j \in 1..file.kv_count : G!Gives(j, f)}
  IN IF \E j \in given : G!IsNumber(file.entries[j])
     THEN \A j \in given : v = file.entries[j].value
     ELSE v = NoValue \/ \E j \in given : file.entries[j].type = "bool"

ResultIsTheFiles(g) ==
  /\ g.valid <=> G!Whole
  /\ g.valid => \A f \in G!Fields : FieldIsTheFiles(g.field[f], f)

LEMMA FilesAre ==
  ASSUME file \in Files PROVE G!IsFile(file)
BY SessionAssumption

LEMMA FileStays ==
  ASSUME file' = file
  PROVE  /\ \A i : G!Offset(i)' = G!Offset(i)
         /\ \A i, key : G!Defines(i, key)' = G!Defines(i, key)
         /\ \A j, f : G!Gives(j, f)' = G!Gives(j, f)
         /\ G!Whole' = G!Whole
<1>1. ASSUME NEW i PROVE G!Offset(i)' = G!Offset(i)
  BY DEF G!Offset
<1>2. ASSUME NEW i, NEW key PROVE G!Defines(i, key)' = G!Defines(i, key)
  BY DEF G!Defines
<1>3. ASSUME NEW j, NEW f PROVE G!Gives(j, f)' = G!Gives(j, f)
  BY DEF G!Gives, G!Defines
<1>4. G!Whole' = G!Whole
  BY DEF G!Whole, G!Offset
<1> QED  BY <1>1, <1>2, <1>3, <1>4

\* What is found under a key is the first scalar that has it.
LEMMA FoundIs ==
  ASSUME walked \in Nat, KeptInv, NEW key
  PROVE  /\ \A j \in 1..walked : G!Defines(j, key) => G!Found(key) = {Scalar(file.entries[j])}
         /\ (\A j \in 1..walked : ~G!Defines(j, key)) => G!Found(key) = {}
<1>1. \A e : Scalar(e).key = e.key
  BY DEF Scalar
<1>2. \A s \in G!Found(key) : \E j \in 1..walked :
        s = Scalar(file.entries[j]) /\ G!Defines(j, key)
  BY <1>1 DEF KeptInv, G!Found, G!Defines
<1>3. \A j \in 1..walked : G!Defines(j, key) => Scalar(file.entries[j]) \in G!Found(key)
  BY <1>1 DEF KeptInv, G!Found, G!Defines
<1>4. ASSUME NEW i \in 1..walked, NEW j \in 1..walked,
             G!Defines(i, key), G!Defines(j, key)
      PROVE  i = j
  <2>1. i < j => i \in 1..(j - 1)
    OBVIOUS
  <2>2. j < i => j \in 1..(i - 1)
    OBVIOUS
  <2> QED  BY <1>4, <2>1, <2>2 DEF G!Defines
<1> QED  BY <1>2, <1>3, <1>4

\* What the reader makes of a section that it has read to the end.
LEMMA MetadataIs ==
  ASSUME walked \in Nat, KeptInv, walked = file.kv_count, NEW f,
         \A j \in 1..walked : file.entries[j].type = "string" => file.entries[j].value # NoValue
  PROVE  FieldIsTheFiles(IF G!Architecture = NoValue THEN NoValue
                         ELSE G!FindUint(<<G!Architecture, f>>), f)
<1> DEFINE arch == <<"general", "architecture">>
           a == G!Architecture
           given == {j \in 1..file.kv_count : G!Gives(j, f)}
<1>1. \A e : Scalar(e).key = e.key /\ Scalar(e).type = e.type /\ Scalar(e).value = e.value
  BY DEF Scalar
<1>2. ASSUME NEW i \in 1..walked, G!Defines(i, arch)
      PROVE  G!Found(arch) = {Scalar(file.entries[i])}
  <2> HIDE DEF arch
  <2> QED  BY <1>2, FoundIs
<1>3. (\A i \in 1..walked : ~G!Defines(i, arch)) => G!Found(arch) = {}
  <2> HIDE DEF arch
  <2> QED  BY FoundIs
<1>4. a = IF \E s \in G!Found(arch) : s.type = "string"
          THEN (CHOOSE s \in G!Found(arch) : TRUE).value ELSE NoValue
  BY DEF G!Architecture, G!FindString
<1>5. \A j : j \in given <=>
        /\ j \in 1..walked
        /\ \E i \in 1..walked : /\ G!Defines(i, arch) /\ file.entries[i].type = "string"
                               /\ G!Defines(j, <<file.entries[i].value, f>>)
  BY DEF G!Gives
<1> HIDE DEF arch, a, given
<1>6. CASE ~\E i \in 1..walked : G!Defines(i, arch) /\ file.entries[i].type = "string"
  <2>1. ~\E s \in G!Found(arch) : s.type = "string"
    <3>1. CASE \E i \in 1..walked : G!Defines(i, arch)
      BY <1>1, <1>2, <1>6, <3>1
    <3> QED  BY <1>3, <3>1
  <2>2. a = NoValue
    BY <1>4, <2>1
  <2>3. given = {}
    BY <1>5, <1>6
  <2> QED  BY <2>2, <2>3 DEF FieldIsTheFiles, a, given
<1>7. ASSUME NEW i \in 1..walked, G!Defines(i, arch), file.entries[i].type = "string"
      PROVE  FieldIsTheFiles(IF a = NoValue THEN NoValue ELSE G!FindUint(<<a, f>>), f)
  <2>1. G!Found(arch) = {Scalar(file.entries[i])}
    BY <1>2, <1>7
  <2>2. a = file.entries[i].value
    <3>1. (CHOOSE s \in G!Found(arch) : TRUE) = Scalar(file.entries[i])
      BY <2>1
    <3>2. \E s \in G!Found(arch) : s.type = "string"
      BY <1>1, <1>7, <2>1
    <3> QED  BY <1>1, <1>4, <3>1, <3>2
  <2>3. a # NoValue
    BY <1>7, <2>2
  <2>4. ASSUME NEW k \in 1..walked, G!Defines(k, arch) PROVE file.entries[k].value = a
    <3>1. G!Found(arch) = {Scalar(file.entries[k])}
      BY <1>2, <2>4
    <3>2. Scalar(file.entries[k]) = Scalar(file.entries[i])
      BY <2>1, <3>1
    <3> QED  BY <1>1, <2>2, <3>2
  <2> DEFINE key == <<a, f>>
  <2>5. \A j : j \in given <=> j \in 1..walked /\ G!Defines(j, key)
    BY <1>5, <1>7, <2>2, <2>4
  <2> HIDE DEF key
  <2>6. /\ \A j \in 1..walked : G!Defines(j, key) => G!Found(key) = {Scalar(file.entries[j])}
        /\ (\A j \in 1..walked : ~G!Defines(j, key)) => G!Found(key) = {}
    BY FoundIs
  <2>7. G!FindUint(key) = IF G!Found(key) = {} THEN NoValue
                          ELSE G!AsUint64(CHOOSE s \in G!Found(key) : TRUE)
    BY DEF G!FindUint
  <2>8. CASE given = {}
    <3>1. G!FindUint(key) = NoValue
      BY <2>5, <2>6, <2>7, <2>8
    <3> QED  BY <2>3, <2>8, <3>1 DEF FieldIsTheFiles, given, key
  <2>9. CASE given # {}
    <3>1. PICK j \in given : TRUE
      BY <2>9
    <3>2. G!Found(key) = {Scalar(file.entries[j])}
      BY <2>5, <2>6, <3>1
    <3>3. \A k \in given : Scalar(file.entries[k]) = Scalar(file.entries[j])
      BY <2>5, <2>6, <3>2
    <3> DEFINE e == file.entries[j]
               v == G!FindUint(key)
    <3>4. (CHOOSE s \in G!Found(key) : TRUE) = Scalar(e)
      BY <3>2
    <3>5. v = G!AsUint64(Scalar(e))
      BY <2>7, <3>2, <3>4
    <3>6. G!IsNumber(e) => v = e.value
      <4>1. CASE e.type \in G!UInts
        <5>1. e.type \notin G!Ints /\ e.type # "bool"
          BY <4>1 DEF G!UInts, G!Ints
        <5> QED  BY <1>1, <3>5, <4>1, <5>1 DEF G!AsUint64
      <4>2. CASE e.type \in G!Ints /\ e.value >= 0
        <5>1. e.type \notin G!UInts /\ e.type # "bool"
          BY <4>2 DEF G!UInts, G!Ints
        <5> QED  BY <1>1, <3>5, <4>2, <5>1 DEF G!AsUint64
      <4> QED  BY <4>1, <4>2 DEF G!IsNumber
    <3>7. ~G!IsNumber(e) /\ e.type # "bool" => v = NoValue
      BY <1>1, <3>5 DEF G!AsUint64, G!IsNumber
    <3>8. \A k \in given : /\ file.entries[k].type = e.type /\ file.entries[k].value = e.value
                           /\ G!IsNumber(file.entries[k]) <=> G!IsNumber(e)
      <4>1. \A k \in given : file.entries[k].type = e.type /\ file.entries[k].value = e.value
        BY <1>1, <3>3
      <4> QED  BY <4>1 DEF G!IsNumber
    <3> HIDE DEF v, e
    <3>9. FieldIsTheFiles(v, f)
      BY <3>1, <3>6, <3>7, <3>8 DEF FieldIsTheFiles, given, e
    <3> QED  BY <2>3, <3>9 DEF v, key
  <2> QED  BY <2>8, <2>9
<1> QED  BY <1>6, <1>7 DEF a

\* A section read to the end is whole, and its fields are the file's.
LEMMA Accepted ==
  ASSUME ReadingInv, G!Header, walked = file.kv_count
  PROVE  ResultIsTheFiles(G!Metadata)
<1>1. G!IsFile(file)
  BY FilesAre DEF ReadingInv
<1>2. /\ walked \in Nat /\ walked <= Len(file.entries)
      /\ G!Offset(walked + 1) <= file.size
      /\ \A i \in 1..walked : G!Legal(file.entries[i])
  BY <1>1, FileIs DEF ReadingInv, G!Header, G!Failed
<1>3. G!Whole
  BY <1>2 DEF G!Header, G!Whole
<1>4. \A j \in 1..walked : file.entries[j].type = "string" => file.entries[j].value # NoValue
  <2>1. \A j \in 1..walked : G!Written(file.entries[j])
    BY <1>1, <1>2, FileIs
  <2> QED  BY <2>1 DEF G!Written
<1>5. ASSUME NEW f \in G!Fields PROVE FieldIsTheFiles(G!Metadata.field[f], f)
  <2>1. G!Metadata.field[f] = IF G!Architecture = NoValue THEN NoValue
                              ELSE G!FindUint(<<G!Architecture, f>>)
    BY DEF G!Metadata
  <2>2. KeptInv
    BY DEF ReadingInv
  <2> QED  BY <1>2, <1>4, <2>1, <2>2, MetadataIs
<1>6. G!Metadata.valid
  BY DEF G!Metadata
<1> QED  BY <1>3, <1>5, <1>6 DEF ResultIsTheFiles

\* What is refused is not whole.
LEMMA Rejected ==
  ASSUME ReadingInv, ~G!Header \/ (walked < file.kv_count /\ G!StartsAt(pos) = {})
  PROVE  ResultIsTheFiles(G!Invalid)
<1>1. /\ file.kv_count \in Nat /\ Len(file.entries) \in Nat
      /\ DOMAIN file.entries = 1..Len(file.entries)
  BY FilesAre, FileIs DEF ReadingInv
<1>2. ~G!Whole
  <2>1. CASE pos # -1 /\ ~G!Header
    BY <2>1 DEF G!Header, G!Whole, G!Failed
  <2>2. CASE pos # -1 /\ walked < file.kv_count /\ G!StartsAt(pos) = {}
    <3>1. walked \in 0..Len(file.entries) /\ G!Offset(walked + 1) = pos
      BY <2>2 DEF ReadingInv
    <3>2. walked + 1 \notin 1..Len(file.entries)
      BY <1>1, <2>2, <3>1 DEF G!StartsAt
    <3>3. walked = Len(file.entries)
      BY <1>1, <3>1, <3>2
    <3> QED  BY <1>1, <2>2, <3>3 DEF G!Whole
  <2>3. CASE pos = -1
    <3>1. G!Offset(walked + 1) \in Nat
      <4>1. walked + 1 \in 1..(Len(file.entries) + 1)
        BY <1>1 DEF ReadingInv
      <4>2. \A k \in 1..(Len(file.entries) + 1) : G!Offset(k) \in Nat
        BY FilesAre, Offsets DEF ReadingInv
      <4> QED  BY <4>1, <4>2
    <3> QED  BY <2>3, <3>1 DEF ReadingInv
  <2> QED  BY <2>1, <2>2, <2>3
<1> QED  BY <1>2 DEF ResultIsTheFiles, G!Invalid

\* Keeping an entry keeps the invariant.
LEMMA Keeps ==
  ASSUME KeptInv, walked \in Nat, file' = file, walked' = walked + 1,
         scalars' = G!Kept(file.entries[walked + 1])
  PROVE  KeptInv'
<1> DEFINE w == walked + 1
           e == file.entries[w]
<1>1. 1..w = 1..walked \cup {w} /\ w - 1 = walked /\ w \notin 1..walked
  OBVIOUS
<1>2. \A x : Scalar(x).key = x.key
  BY DEF Scalar
<1>3. G!Defines(w, e.key) <=> e.type # "array" /\ ~\E s \in scalars : s.key = e.key
  <2>1. G!Defines(w, e.key) <=>
          /\ e.type # "array"
          /\ \A j \in 1..walked : file.entries[j].key # e.key \/ file.entries[j].type = "array"
    BY <1>1 DEF G!Defines
  <2>2. ASSUME NEW s \in scalars, s.key = e.key
        PROVE  \E j \in 1..walked : file.entries[j].key = e.key /\ file.entries[j].type # "array"
    BY <1>2, <2>2 DEF KeptInv, G!Defines
  <2>3. ASSUME NEW j \in 1..walked, file.entries[j].key = e.key, file.entries[j].type # "array"
        PROVE  \E s \in scalars : s.key = e.key
    BY <2>3 DEF KeptInv
  <2> QED  BY <2>1, <2>2, <2>3
<1>4. scalars' = IF G!Defines(w, e.key) THEN scalars \cup {Scalar(e)} ELSE scalars
  <2>1. Scalar(e) = [key |-> e.key, type |-> e.type, value |-> e.value]
    BY DEF Scalar
  <2> HIDE DEF e
  <2> QED  BY <1>3, <2>1 DEF G!Kept, e, w
<1>5. \A i, key : G!Defines(i, key)' = G!Defines(i, key)
  BY FileStays
<1> HIDE DEF w
<1>6. ASSUME NEW s \in scalars'
      PROVE  \E j \in 1..w : s = Scalar(file.entries[j]) /\ G!Defines(j, file.entries[j].key)
  BY <1>1, <1>4, <1>6 DEF KeptInv
<1>7. ASSUME NEW j \in 1..w, G!Defines(j, file.entries[j].key)
      PROVE  Scalar(file.entries[j]) \in scalars'
  BY <1>1, <1>4, <1>7 DEF KeptInv
<1>8. ASSUME NEW j \in 1..w, file.entries[j].type # "array"
      PROVE  \E s \in scalars' : s.key = file.entries[j].key
  <2>1. scalars \subseteq scalars'
    BY <1>4
  <2>2. CASE j \in 1..walked
    BY <1>8, <2>1, <2>2 DEF KeptInv
  <2>3. CASE j = w /\ G!Defines(w, e.key)
    BY <1>2, <1>4, <2>3
  <2>4. CASE j = w /\ ~G!Defines(w, e.key)
    BY <1>3, <1>8, <2>1, <2>4
  <2> QED  BY <1>1, <2>2, <2>3, <2>4
<1>9. walked' = w
  BY DEF w
<1>10. \A x : Scalar(x)' = Scalar(x)
  BY DEF Scalar
<1> QED  BY <1>5, <1>6, <1>7, <1>8, <1>9, <1>10 DEF KeptInv, Scalar

\* One turn of the loop.
LEMMA Walks ==
  ASSUME ReadingInv, G!Walk
  PROVE  ReadingInv'
<1>1. G!IsFile(file)
  BY FilesAre DEF ReadingInv
<1>2. /\ file.size \in Nat /\ file.kv_count \in Nat /\ Len(file.entries) \in Nat
      /\ DOMAIN file.entries = 1..Len(file.entries)
      /\ \A k \in 1..Len(file.entries) : G!Written(file.entries[k])
  BY <1>1, FileIs
<1>3. /\ file' = file /\ gguf' = gguf /\ gguf = NoValue
      /\ pos # -1 /\ walked < file.kv_count
  BY DEF G!Walk, G!Header, G!Failed
<1> DEFINE w == walked + 1
<1>4. /\ walked \in Nat /\ walked <= Len(file.entries) /\ KeptInv
      /\ pos = G!Offset(w) /\ pos <= file.size
      /\ \A i \in 1..walked : G!Legal(file.entries[i])
  BY <1>2, <1>3 DEF ReadingInv
<1>5. PICK i \in G!StartsAt(pos) :
        LET e == file.entries[i]
            q == G!ReadEntry(pos, e)
        IN IF q = -1 THEN pos' = -1 /\ UNCHANGED <<walked, scalars>>
           ELSE pos' = q /\ walked' = walked + 1 /\ scalars' = G!Kept(e)
  BY DEF G!Walk, G!Failed
<1>6. i = w
  <2>1. i \in 1..Len(file.entries) /\ G!Offset(i) = G!Offset(w)
    BY <1>2, <1>4 DEF G!StartsAt
  <2>2. w \in Nat /\ w >= 1 /\ w <= Len(file.entries) + 1 /\ i \in Nat /\ i >= 1
        /\ i <= Len(file.entries) + 1
    BY <1>2, <1>4, <2>1
  <2>3. \A k \in 1..(Len(file.entries) + 1) : G!Offset(k) \in Nat
    BY <1>1, Offsets
  <2>4. G!Offset(i) \in Nat
    BY <2>2, <2>3
  <2> HIDE DEF w
  <2>5. ~(i < w)
    <3> SUFFICES ASSUME i < w PROVE FALSE
      OBVIOUS
    <3>1. G!Offset(i) < G!Offset(w)
      BY <1>1, <2>2, OffsetsGrow
    <3> QED  BY <2>1, <2>4, <3>1
  <2>6. ~(w < i)
    <3> SUFFICES ASSUME w < i PROVE FALSE
      OBVIOUS
    <3>1. G!Offset(w) < G!Offset(i)
      BY <1>1, <2>2, OffsetsGrow
    <3> QED  BY <2>1, <2>4, <3>1
  <2> QED  BY <2>2, <2>5, <2>6
<1> DEFINE e == file.entries[w]
<1>7. w \in 1..Len(file.entries) /\ G!Written(e) /\ e.bytes \in Nat
  <2>1. w \in 1..Len(file.entries)
    BY <1>2, <1>6 DEF G!StartsAt
  <2> QED  BY <1>2, <2>1 DEF G!Written
<1>8. /\ G!Offset(w + 1) = pos + e.bytes
      /\ pos \in Nat /\ InFile(pos)
  <2>1. /\ \A k \in 1..Len(file.entries) : G!Offset(k + 1) = G!Offset(k) + file.entries[k].bytes
        /\ \A k \in 1..(Len(file.entries) + 1) : G!Offset(k) \in Nat
    BY <1>1, Offsets
  <2>2. w \in 1..(Len(file.entries) + 1)
    BY <1>2, <1>7
  <2>3. G!Offset(w) \in Nat
    BY <2>1, <2>2
  <2> HIDE DEF w
  <2> QED  BY <1>2, <1>4, <1>7, <2>1, <2>3 DEF InFile
<1>9. G!ReadEntry(pos, e) = IF G!Legal(e) THEN Past(pos, e.bytes) ELSE -1
  <2>1. {MaxKeyBytes, MaxStringBytes, MaxArrayElements} \subseteq Nat
    BY SessionAssumption
  <2> HIDE DEF e
  <2> QED  BY <1>2, <1>7, <1>8, <2>1, ReadsEntry
<1>10. \A k : G!Offset(k)' = G!Offset(k)
  BY <1>3, FileStays
<1>11. G!MetadataIsTheFiles'
  BY <1>3 DEF G!MetadataIsTheFiles
<1>12. \A x : G!Legal(x)' <=> G!Legal(x)
  BY DEF G!Legal
<1>13. CASE G!ReadEntry(pos, e) # -1
  <2>1. pos' = G!ReadEntry(pos, e) /\ walked' = w /\ scalars' = G!Kept(e)
    BY <1>5, <1>6, <1>13
  <2>2. G!Legal(e) /\ pos' = pos + e.bytes /\ pos' <= file.size
    BY <1>9, <1>13, <2>1 DEF Past
  <2>3. KeptInv'
    BY <1>3, <1>4, <2>1, Keeps
  <2>4. ASSUME NEW k \in 1..w PROVE G!Legal(file.entries[k])
    <3>1. k \in 1..walked \/ k = w
      BY <1>4
    <3> QED  BY <1>4, <2>2, <3>1
  <2>5. walked' \in 0..Len(file.entries)
    BY <1>2, <1>7, <2>1
  <2>6. pos' = G!Offset(walked' + 1)
    BY <1>8, <2>1, <2>2
  <2>7. (pos = G!Offset(walked + 1))'
    <3> DEFINE v == walked + 1
    <3>1. v' = walked' + 1
      OBVIOUS
    <3>2. (G!Offset(walked + 1))' = G!Offset(walked' + 1)
      BY <1>3 DEF G!Offset
    <3> QED  BY <2>6, <3>2
  <2>8. (\A k \in 1..walked : G!Legal(file.entries[k]))'
    <3>1. ASSUME NEW k \in 1..walked' PROVE (G!Legal(file.entries[k]))'
      <4>1. G!Legal(file.entries[k])
        BY <2>1, <2>4, <3>1
      <4> QED  BY <1>3, <4>1 DEF G!Legal
    <3> QED  BY <3>1
  <2> QED  BY <1>3, <1>11, <2>2, <2>3, <2>5, <2>7, <2>8 DEF ReadingInv
<1>14. CASE G!ReadEntry(pos, e) = -1
  <2>1. pos' = -1 /\ walked' = walked /\ scalars' = scalars
    BY <1>5, <1>6, <1>14
  <2>2. ~G!Whole
    <3> SUFFICES ASSUME G!Whole PROVE FALSE
      OBVIOUS
    <3> DEFINE n == file.kv_count
    <3>1. /\ n <= Len(file.entries) /\ G!Offset(n + 1) <= file.size
          /\ \A k \in 1..n : G!Legal(file.entries[k])
      BY DEF G!Whole
    <3>2. w \in 1..n
      BY <1>2, <1>3, <1>4
    <3>3. Past(pos, e.bytes) = -1
      BY <1>9, <1>14, <3>1, <3>2
    <3>4. pos + e.bytes > file.size
      BY <1>2, <1>7, <1>8, <3>3 DEF Past
    <3>5. G!Offset(w + 1) <= G!Offset(n + 1)
      <4>1. w + 1 \in Nat /\ n + 1 \in Nat /\ w + 1 >= 1 /\ n + 1 <= Len(file.entries) + 1
            /\ (w + 1 < n + 1 \/ w = n)
        BY <1>2, <1>4, <3>1, <3>2
      <4>2. G!Offset(n + 1) \in Nat
        <5>1. n + 1 \in 1..(Len(file.entries) + 1)
          BY <1>2, <4>1
        <5> HIDE DEF n
        <5> QED  BY <1>1, <5>1, Offsets
      <4>3. CASE w = n
        BY <4>2, <4>3
      <4> DEFINE a == w + 1
                 b == n + 1
      <4>4. CASE a < b
        <5>1. a \in Nat /\ b \in Nat /\ a >= 1 /\ b <= Len(file.entries) + 1
          BY <4>1
        <5> HIDE DEF a, b
        <5>2. G!Offset(a) < G!Offset(b)
          BY <1>1, <4>4, <5>1, OffsetsGrow
        <5>3. G!Offset(a) \in Nat /\ G!Offset(b) \in Nat
          BY <1>7, <1>8, <4>2 DEF a, b
        <5>4. G!Offset(a) <= G!Offset(b)
          BY <5>2, <5>3
        <5> QED  BY <5>4 DEF a, b
      <4> QED  BY <4>1, <4>3, <4>4
    <3>6. G!Offset(n + 1) \in Nat
      <4>1. n + 1 \in 1..(Len(file.entries) + 1)
        BY <1>2, <3>1
      <4> HIDE DEF n
      <4> QED  BY <1>1, <4>1, Offsets
    <3> HIDE DEF n, w, e
    <3> QED  BY <1>2, <1>7, <1>8, <3>1, <3>4, <3>5, <3>6
  <2>3. ~G!Whole'
    BY <1>3, <2>2, FileStays
  <2>4. KeptInv'
    BY <1>3, <1>4, <2>1 DEF KeptInv, G!Defines, Scalar
  <2> QED  BY <1>3, <1>4, <1>11, <2>1, <2>3, <2>4 DEF ReadingInv
<1> QED  BY <1>13, <1>14

\* A result that is right for the file.
LEMMA Finishes ==
  ASSUME ReadingInv, NEW g, ResultIsTheFiles(g), G!Finish(g)
  PROVE  ReadingInv'
<1>1. file' = file /\ pos' = pos /\ walked' = walked /\ scalars' = scalars /\ gguf' = g
  BY DEF G!Finish
<1>2. /\ \A i : G!Offset(i)' = G!Offset(i)
      /\ \A i, key : G!Defines(i, key)' = G!Defines(i, key)
      /\ \A j, f : G!Gives(j, f)' = G!Gives(j, f)
      /\ G!Whole' = G!Whole
  BY <1>1, FileStays
<1>3. KeptInv'
  BY <1>1, <1>2 DEF KeptInv, ReadingInv, Scalar
<1>4. G!MetadataIsTheFiles'
  <2>1. ASSUME NEW f \in G!Fields
        PROVE  {j \in 1..file.kv_count : G!Gives(j, f)}'
                   = {j \in 1..file.kv_count : G!Gives(j, f)}
    BY <1>1, <1>2
  <2> QED  BY <1>1, <1>2, <2>1
           DEF G!MetadataIsTheFiles, ResultIsTheFiles, FieldIsTheFiles, G!IsNumber
<1>5. (G!Offset(walked + 1))' = G!Offset(walked + 1)
  BY <1>1 DEF G!Offset
<1>6. (\A i \in 1..walked : G!Legal(file.entries[i]))'
        <=> \A i \in 1..walked : G!Legal(file.entries[i])
  BY <1>1 DEF G!Legal
<1> QED  BY <1>1, <1>2, <1>3, <1>4, <1>5, <1>6 DEF ReadingInv

\* A file that is opened is at its first entry, if it has one.
LEMMA BeginsAt ==
  file \in Files => /\ G!Offset(1) = 24 /\ (G!Whole => 24 <= file.size)
                    /\ 0 \in 0..Len(file.entries)
<1> SUFFICES ASSUME file \in Files
             PROVE  /\ G!Offset(1) = 24 /\ (G!Whole => 24 <= file.size)
                    /\ 0 \in 0..Len(file.entries)
  OBVIOUS
<1>1. G!IsFile(file)
  BY FilesAre
<1>2. file.size \in Nat /\ file.kv_count \in Nat /\ Len(file.entries) \in Nat
  BY <1>1, FileIs
<1>3. G!Offset(1) = 24
  BY <1>1, Offsets
<1>4. G!Whole => 24 <= file.size
  <2> SUFFICES ASSUME G!Whole PROVE 24 <= file.size
    OBVIOUS
  <2> DEFINE b == file.kv_count + 1
  <2>1. b \in Nat /\ b <= Len(file.entries) + 1 /\ G!Offset(b) <= file.size /\ (b = 1 \/ 1 < b)
    BY <1>2 DEF G!Whole
  <2>2. b \in 1..(Len(file.entries) + 1)
    BY <1>2, <2>1
  <2> HIDE DEF b
  <2>3. G!Offset(b) \in Nat
    BY <1>1, <2>2, Offsets
  <2>4. CASE b = 1
    BY <1>3, <2>1, <2>4
  <2>5. CASE 1 < b
    <3>1. G!Offset(1) < G!Offset(b)
      BY <1>1, <2>1, <2>5, OffsetsGrow
    <3> QED  BY <1>2, <1>3, <2>1, <2>3, <3>1
  <2> QED  BY <2>1, <2>4, <2>5
<1> QED  BY <1>2, <1>3, <1>4

\* A file that was opened.
LEMMA Opens ==
  ASSUME G!Unread, NEW f \in Files, G!Open(f)
  PROVE  ReadingInv'
<1>1. /\ file' = f /\ walked' = 0 /\ scalars' = {} /\ gguf' = NoValue
      /\ pos' = IF f.size >= 24 THEN 24 ELSE -1
  BY DEF G!Unread, G!Open, G!HeaderBytes, G!Failed
<1>2. (file \in Files => /\ G!Offset(1) = 24 /\ (G!Whole => 24 <= file.size)
                         /\ 0 \in 0..Len(file.entries))'
  BY BeginsAt, PTL
<1>3. G!Offset(1)' = 24 /\ (G!Whole' => 24 <= f.size) /\ 0 \in 0..Len(f.entries)
  BY <1>1, <1>2
<1>4. (G!Offset(walked + 1))' = G!Offset(1)'
  BY <1>1 DEF G!Offset
<1>5. 1..0 = {}
  OBVIOUS
<1>6. f.size \in Nat
  BY SessionAssumption DEF G!IsFile
<1>7. G!MetadataIsTheFiles'
  BY <1>1 DEF G!MetadataIsTheFiles
<1>8. KeptInv'
  BY <1>1, <1>5 DEF KeptInv
<1> QED  BY <1>1, <1>3, <1>4, <1>5, <1>6, <1>7, <1>8 DEF ReadingInv

\* Nothing else touches the reader.
LEMMA ReaderStays ==
  ASSUME ReaderInv, UNCHANGED reader, pc' = "reading" <=> pc = "reading"
  PROVE  ReaderInv'
<1>1. file' = file /\ pos' = pos /\ walked' = walked /\ scalars' = scalars /\ gguf' = gguf
  BY DEF reader
<1>2. G!Unread => G!Unread'
  BY <1>1 DEF G!Unread
<1>3. ReadingInv => ReadingInv'
  <2> SUFFICES ASSUME ReadingInv PROVE ReadingInv'
    OBVIOUS
  <2>1. /\ \A i : G!Offset(i)' = G!Offset(i)
        /\ \A i, key : G!Defines(i, key)' = G!Defines(i, key)
        /\ \A j, f : G!Gives(j, f)' = G!Gives(j, f)
        /\ G!Whole' = G!Whole
    BY <1>1, FileStays
  <2>2. KeptInv'
    BY <1>1, <2>1 DEF KeptInv, ReadingInv, Scalar
  <2>3. G!MetadataIsTheFiles'
    <3>1. ASSUME NEW f \in G!Fields
          PROVE  {j \in 1..file.kv_count : G!Gives(j, f)}'
                   = {j \in 1..file.kv_count : G!Gives(j, f)}
      BY <1>1, <2>1
    <3> QED  BY <1>1, <2>1, <3>1 DEF G!MetadataIsTheFiles, ReadingInv, G!IsNumber
  <2>4. (G!Offset(walked + 1))' = G!Offset(walked + 1)
    BY <1>1 DEF G!Offset
  <2>5. (\A i \in 1..walked : G!Legal(file.entries[i]))'
        <=> \A i \in 1..walked : G!Legal(file.entries[i])
    BY <1>1 DEF G!Legal
  <2> QED  BY <1>1, <2>1, <2>2, <2>3, <2>4, <2>5 DEF ReadingInv
<1> QED  BY <1>1, <1>2, <1>3 DEF ReaderInv

-----------------------------------------------------------------------------
(* The invariant of Session.                                               *)

Extras == {[flag |-> M!ServeFlags[k], value |-> NoValue] : k \in 1..4}

\* The menu's action names a model that exists by the time it is dispatched.
MenuInv ==
  /\ action \in [kind : {"None", "Doctor", "Tune", "Serve"}, model : Models \cup {NoValue},
                 context : Figures \cup {"4096"}, headroom : Figures \cup {"0"},
                 repeats : {"0", "3"}, extra : Seq(Extras)]
  /\ action.kind \in {"Tune", "Serve"} => action.model \in Models
  /\ at \in {"model", "path"} => purpose \in {"Tune", "Serve"}

Acceptable(user) == IsSeq(user) /\ Mentioned(user) \cap Depth = {}

JobInv ==
  /\ pc \in {"tune", "reading", "save"} =>
       \E m \in Models, c \in Nat : \E bench, best :
         /\ job = [kind |-> "tune", model |-> m, context |-> c, bench |-> bench, best |-> best]
         /\ pc = "save" => best.context \in Nat
  /\ pc \in {"load", "launch", "child"} =>
       \E m \in Models : \E tool, user :
         Acceptable(user) /\ job = [kind |-> tool, model |-> m, user |-> user]

\* A profile holds the command line that its configuration was measured with.
ProfileInv ==
  /\ DOMAIN profiles = Models
  /\ \A m \in Models : profiles[m] # NoValue =>
       \E c, bench : /\ profiles[m] = [best |-> c, measured |-> BenchArguments(m, c, bench)]
                     /\ c.context \in Nat

LaunchInv ==
  /\ pc \in {"launch", "child"} => profiles[job.model] # NoValue
  /\ pc = "child" =>
       \E flags \in LaunchFlags :
         command = [args |-> MergeUserOverrides(ProfileArguments(flags), job.user),
                    flags |-> flags]

SInv == MenuInv /\ JobInv /\ ProfileInv /\ LaunchInv

\* The invariant says that what is launched was measured.
LEMMA ServedFollows == SInv => ServedAsMeasured
<1> SUFFICES ASSUME SInv, pc = "child" PROVE ServedAsMeasured
  BY DEF ServedAsMeasured
<1>1. PICK m \in Models : \E tool, user :
        Acceptable(user) /\ job = [kind |-> tool, model |-> m, user |-> user]
  BY DEF SInv, JobInv
<1>9. PICK tool, user :
        Acceptable(user) /\ job = [kind |-> tool, model |-> m, user |-> user]
  BY <1>1
<1>2. job.kind = tool /\ job.model = m /\ job.user = user
  BY <1>9
<1>3. PICK c, bench : /\ profiles[m] = [best |-> c, measured |-> BenchArguments(m, c, bench)]
                      /\ c.context \in Nat
  BY <1>2 DEF SInv, LaunchInv, ProfileInv
<1>4. profiles[m].best = c /\ profiles[m].measured = BenchArguments(m, c, bench)
  BY <1>3
<1>5. PICK flags \in LaunchFlags :
        command = [args |-> MergeUserOverrides(ProfileArguments(flags), job.user),
                   flags |-> flags]
  BY DEF SInv, LaunchInv
<1> DEFINE args == MergeUserOverrides(
                     ConfigArguments(m, c, flags) \o ServerPart(tool, flags), user)
<1>6. command.args = args /\ command.flags = flags
  <2>1. ProfileArguments(flags) = ConfigArguments(m, c, flags) \o ServerPart(tool, flags)
    BY <1>2, <1>4 DEF ProfileArguments, ServerPart
  <2> QED  BY <1>2, <1>5, <2>1
<1>7. flags \cap (ShortFlags \cup Depth) = {}
  BY SessionAssumption
<1> HIDE DEF args
<1>8. Serves(args, user, BenchArguments(m, c, bench), flags)
  <2>1. IsSeq(user) /\ Mentioned(user) \cap Depth = {}
    BY <1>9 DEF Acceptable
  <2>2. args = MergeUserOverrides(ConfigArguments(m, c, flags) \o ServerPart(tool, flags), user)
    BY DEF args
  <2>3. c.context \in Nat
    BY <1>3
  <2> QED  BY <1>7, <2>1, <2>2, <2>3, CommandLine
<1> QED  BY <1>2, <1>4, <1>6, <1>8 DEF ServedAsMeasured, Serves, ServesOption

LEMMA ServedInit == Init => SInv
<1> SUFFICES ASSUME Init PROVE SInv
  OBVIOUS
<1>1. MenuInv
  <2>1. action = M!None /\ at = "off"
    BY DEF Init, M!Off
  <2>2. <<>> \in Seq(Extras)
    OBVIOUS
  <2> QED  BY <2>1, <2>2 DEF MenuInv, M!None
<1> QED  BY <1>1 DEF Init, SInv, JobInv, ProfileInv, LaunchInv

-----------------------------------------------------------------------------
(* The menu's steps.                                                       *)

LEMMA NoneIsAction ==
  M!None \in [kind : {"None", "Doctor", "Tune", "Serve"}, model : Models \cup {NoValue},
              context : Figures \cup {"4096"}, headroom : Figures \cup {"0"},
              repeats : {"0", "3"}, extra : Seq(Extras)]
<1>1. <<>> \in Seq(Extras)
  OBVIOUS
<1> QED  BY <1>1 DEF M!None

LEMMA NoneIsMenuInv ==
  ASSUME action' = M!None, at' \notin {"model", "path"}
  PROVE  MenuInv'
<1>1. M!None.kind = "None"
  BY DEF M!None
<1> QED  BY <1>1, NoneIsAction DEF MenuInv

\* Whatever is typed, the action stays one that can be dispatched.
LEMMA MenuAnswers ==
  ASSUME MenuInv, NEW line, M!Answer(line)
  PROVE  MenuInv'
<1> USE DEF MenuInv
<1>0. /\ action.kind \in {"None", "Doctor", "Tune", "Serve"}
      /\ \A f \in {"choice", "continue", "context", "headroom", "report", "planned", "check"} :
           f \notin {"model", "path"}
  OBVIOUS
<1>1. CASE M!Choice(line)
  <2>1. CASE action' = M!None /\ at' = "planned"
    BY <2>1, NoneIsMenuInv
  <2>2. CASE at' = "planned" /\ action' = [M!None EXCEPT !.kind = "Doctor"]
    BY <2>2, NoneIsAction
  <2>3. CASE at' = "model" /\ purpose' \in {"Tune", "Serve"} /\ UNCHANGED action
    BY <2>3
  <2>4. CASE UNCHANGED <<at, action, purpose>>
    BY <2>4
  <2> QED  BY <1>1, <2>1, <2>2, <2>3, <2>4 DEF M!Choice
<1>2. ASSUME NEW m \in Models, M!Chosen(m), purpose \in {"Tune", "Serve"}
      PROVE  MenuInv'
  BY <1>2, NoneIsAction DEF M!Chosen
<1>3. ASSUME M!Back PROVE MenuInv'
  BY <1>3, NoneIsMenuInv DEF M!Back
<1>4. CASE M!ChooseModel(line)
  <2>1. purpose \in {"Tune", "Serve"}
    BY <1>4 DEF M!ChooseModel
  <2>2. CASE at' = "path" /\ UNCHANGED <<action, purpose>>
    BY <2>1, <2>2
  <2>3. CASE /\ line \in DOMAIN M!Number /\ M!Number[line] <= Len(Listed)
             /\ M!Chosen(Listed[M!Number[line]])
    <3>1. M!Number[line] \in 1..Len(Listed)
      BY <2>3, SessionAssumption DEF M!Number
    <3>2. Listed[M!Number[line]] \in Models
      BY <3>1, SessionAssumption
    <3> QED  BY <1>2, <2>1, <2>3, <3>2
  <2> QED  BY <1>3, <1>4, <2>2, <2>3 DEF M!ChooseModel
<1>5. CASE M!TypePath(line)
  <2>1. purpose \in {"Tune", "Serve"}
    BY <1>5 DEF M!TypePath
  <2> QED  BY <1>2, <1>3, <1>5, <2>1 DEF M!TypePath
<1>6. CASE M!Continue(line)
  <2>1. CASE at' = "context" /\ UNCHANGED <<action, purpose>>
    BY <2>1
  <2> QED  BY <1>3, <1>6, <2>1 DEF M!Continue
<1>7. CASE M!AskContext(line)
  <2>1. M!Default(line, "4096") \in Figures \cup {"4096"}
    BY <1>7 DEF M!AskContext, M!Reads, M!Default, M!EOF
  <2> QED  BY <1>7, <2>1 DEF M!AskContext
<1>8. CASE M!AskHeadroom(line)
  <2>1. M!Default(line, "0") \in Figures \cup {"0"}
    BY <1>8 DEF M!AskHeadroom, M!Reads, M!Default, M!EOF
  <2> QED  BY <1>8, <2>1 DEF M!AskHeadroom
<1>9. CASE M!AskReport(line)
  BY <1>9 DEF M!AskReport
<1>10. CASE M!AskFlag(line)
  <2>1. PICK k \in DOMAIN M!ServeFlags :
          /\ at' = IF k < Len(M!ServeFlags) THEN M!ServeFlags[k + 1] ELSE "planned"
          /\ \/ action' = [action EXCEPT !.extra =
                             Append(@, [flag |-> M!ServeFlags[k], value |-> NoValue])]
             \/ action' = action
    BY <1>10 DEF M!AskFlag
  <2>2. k \in 1..4 /\ Len(M!ServeFlags) = 4
    BY DEF M!ServeFlags
  <2>3. at' \notin {"model", "path"}
    BY <2>1, <2>2 DEF M!ServeFlags
  <2>4. [flag |-> M!ServeFlags[k], value |-> NoValue] \in Extras
    BY <2>2 DEF Extras
  <2>5. Append(action.extra, [flag |-> M!ServeFlags[k], value |-> NoValue]) \in Seq(Extras)
    BY <2>4
  <2> QED  BY <2>1, <2>3, <2>5
<1> QED  BY <1>1, <1>4, <1>5, <1>6, <1>7, <1>8, <1>9, <1>10 DEF M!Answer

LEMMA MenuChecks ==
  ASSUME MenuInv, M!Check(Tuned)
  PROVE  MenuInv'
<1>1. CASE at' = M!ServeFlags[1] /\ UNCHANGED <<action, purpose>>
  <2>1. at' = "--jinja"
    BY <1>1 DEF M!ServeFlags
  <2> QED  BY <1>1, <2>1 DEF MenuInv
<1>2. CASE M!Back
  BY <1>2, NoneIsMenuInv DEF M!Back
<1> QED  BY <1>1, <1>2 DEF M!Check

\* The flags that the menu adds mean nothing but themselves.
LEMMA ExtrasAcceptable ==
  ASSUME NEW extra \in Seq(Extras)
  PROVE  Acceptable(extra)
<1>1. IsSeq(extra)
  BY DEF IsSeq
<1>2. ASSUME NEW a \in Range(extra) PROVE a.flag \notin Depth
  <2>1. a \in Extras
    BY DEF Range
  <2>2. PICK k \in 1..4 : a = [flag |-> M!ServeFlags[k], value |-> NoValue]
    BY <2>1 DEF Extras
  <2> QED  BY <2>2 DEF M!ServeFlags, Depth
<1> QED  BY <1>1, <1>2 DEF Acceptable, Mentioned

\* The user's arguments mean nothing but themselves either.
LEMMA UserAcceptable ==
  ASSUME NEW user \in UserArguments
  PROVE  Acceptable(user)
BY SessionAssumption DEF Acceptable, Mentioned, IsSeq

\* stoul gives a number or throws.
LEMMA StoulIs ==
  ASSUME NEW line, Stoul(line) # NoValue
  PROVE  Stoul(line) \in Nat
<1>1. CASE line = "4096" \/ line = "8192" \/ line = "0"
  BY <1>1 DEF Stoul
<1>2. CASE ~(line = "4096" \/ line = "8192" \/ line = "0")
  BY <1>2 DEF Stoul
<1> QED  BY <1>1, <1>2

-----------------------------------------------------------------------------
(* Every step of Session.                                                  *)

LEMMA MenuStays ==
  ASSUME SInv, UNCHANGED menu
  PROVE  MenuInv'
BY DEF SInv, MenuInv, menu

LEMMA MenuLeft ==
  ASSUME M!Leave
  PROVE  MenuInv'
BY NoneIsMenuInv DEF M!Leave

\* Where a command ends, or has yet to begin, it owes nothing.
LEMMA Ended ==
  ASSUME SInv, pc' \in {"idle", "menu"}, MenuInv', profiles' = profiles
  PROVE  SInv'
BY DEF SInv, JobInv, ProfileInv, LaunchInv

LEMMA ToTune ==
  ASSUME SInv, MenuInv', UNCHANGED profiles, pc' = "tune",
         NEW m \in Models, NEW c \in Nat, job' = Tuning(m, c)
  PROVE  SInv'
BY DEF SInv, JobInv, ProfileInv, LaunchInv, Tuning

LEMMA ToLoad ==
  ASSUME SInv, MenuInv', UNCHANGED profiles, pc' = "load",
         NEW tool, NEW m \in Models, NEW user, Acceptable(user), job' = Launching(tool, m, user)
  PROVE  SInv'
<1>1. JobInv'
  BY DEF JobInv, Launching
<1> QED  BY <1>1 DEF SInv, ProfileInv, LaunchInv

\* The menu's action becomes a job.
LEMMA DispatchServed ==
  ASSUME SInv, Dispatch
  PROVE  SInv'
<1>1. profiles' = profiles /\ MenuInv
  BY DEF Dispatch, SInv
<1>2. CASE action.kind = "None"
  BY <1>1, <1>2, MenuLeft, Ended DEF Dispatch, End
<1>3. CASE action.kind = "Doctor"
  <2>1. pc' = "menu" /\ at' = "choice" /\ action' = M!None
    BY <1>3 DEF Dispatch
  <2> QED  BY <1>1, <2>1, NoneIsMenuInv, Ended
<1>4. CASE action.kind = "Serve"
  <2>1. pc' = "load" /\ job' = Launching("llama-server", action.model, action.extra) /\ M!Leave
    BY <1>4 DEF Dispatch
  <2>2. action.model \in Models /\ Acceptable(action.extra)
    <3>1. action.extra \in Seq(Extras)
      BY <1>1 DEF MenuInv
    <3> QED  BY <1>1, <1>4, <3>1, ExtrasAcceptable DEF MenuInv
  <2> QED  BY <1>1, <2>1, <2>2, MenuLeft, ToLoad
<1>5. CASE action.kind = "Tune"
  <2>1. /\ M!Leave
        /\ \/ End
           \/ /\ Stoul(action.context) # NoValue
              /\ pc' = "tune" /\ job' = Tuning(action.model, Stoul(action.context))
    BY <1>5 DEF Dispatch
  <2>2. CASE End
    BY <1>1, <2>1, <2>2, MenuLeft, Ended DEF End
  <2>3. CASE /\ Stoul(action.context) # NoValue
             /\ pc' = "tune" /\ job' = Tuning(action.model, Stoul(action.context))
    <3>1. action.model \in Models /\ Stoul(action.context) \in Nat
      BY <1>1, <1>5, <2>3, StoulIs DEF MenuInv
    <3> QED  BY <1>1, <2>1, <2>3, <3>1, MenuLeft, ToTune
  <2> QED  BY <2>1, <2>2, <2>3
<1> QED  BY <1>1, <1>2, <1>3, <1>4, <1>5 DEF MenuInv

\* A command of its own begins.
LEMMA BeginServed ==
  ASSUME SInv, Begin
  PROVE  SInv'
<1>1. CASE BeginMenu
  <2>1. pc' = "menu" /\ profiles' = profiles /\ action' = M!None /\ at' = "choice"
    BY <1>1 DEF BeginMenu, M!Start
  <2> QED  BY <2>1, NoneIsMenuInv, Ended
<1>2. ASSUME NEW m \in Models, NEW line \in Figures, BeginTune(m, line) PROVE SInv'
  <2>1. /\ pc' = "tune" /\ job' = Tuning(m, Stoul(line)) /\ profiles' = profiles
        /\ UNCHANGED menu /\ Stoul(line) \in Nat
    BY <1>2, StoulIs DEF BeginTune
  <2> QED  BY <2>1, MenuStays, ToTune
<1>3. ASSUME NEW m \in Models, NEW tool \in Tools, NEW user \in UserArguments,
             BeginLaunch(tool, m, user)
      PROVE  SInv'
  <2>1. /\ pc' = "load" /\ job' = Launching(tool, m, user) /\ profiles' = profiles
        /\ UNCHANGED menu /\ Acceptable(user)
    BY <1>3, UserAcceptable DEF BeginLaunch
  <2> QED  BY <2>1, MenuStays, ToLoad
<1> QED  BY <1>1, <1>2, <1>3 DEF Begin

\* A tune saves the command line that it measured with.
LEMMA TuneServed ==
  ASSUME SInv, (\E f \in Files : Prepare(f)) \/ ReadMetadata \/ Search \/ Save
  PROVE  SInv'
<1>1. MenuInv'
  BY MenuStays DEF Prepare, ReadMetadata, Search, Save
<1>2. pc \in {"tune", "reading", "save"} /\ JobInv /\ ProfileInv
  BY DEF Prepare, ReadMetadata, Search, Save, SInv
<1>3. PICK m \in Models, c \in Nat : \E bench, best :
        /\ job = [kind |-> "tune", model |-> m, context |-> c, bench |-> bench, best |-> best]
        /\ pc = "save" => best.context \in Nat
  BY <1>2 DEF JobInv
<1>4. PICK bench, best :
        /\ job = [kind |-> "tune", model |-> m, context |-> c, bench |-> bench, best |-> best]
        /\ pc = "save" => best.context \in Nat
  BY <1>3
<1>5. CASE pc' = "idle" /\ profiles' = profiles
  BY <1>1, <1>5, Ended
<1>6. ASSUME NEW f \in Files, Prepare(f), pc' # "idle" PROVE SInv'
  <2>1. /\ \E flags \in BenchFlags : job' = [job EXCEPT !.bench = flags]
        /\ pc' = "reading" /\ profiles' = profiles
    BY <1>6 DEF Prepare, End
  <2>2. PICK flags \in BenchFlags : job' = [job EXCEPT !.bench = flags]
    BY <2>1
  <2>3. job' = [kind |-> "tune", model |-> m, context |-> c, bench |-> flags, best |-> best]
    BY <1>4, <2>2
  <2> QED  BY <1>1, <1>2, <2>1, <2>3 DEF SInv, JobInv, ProfileInv, LaunchInv
<1>7. CASE ReadMetadata
  <2>1. pc' = pc /\ pc' = "reading" /\ job' = job /\ profiles' = profiles
    BY <1>7 DEF ReadMetadata
  <2> QED  BY <1>1, <1>2, <1>4, <2>1 DEF SInv, JobInv, ProfileInv, LaunchInv
<1>8. CASE Search /\ pc' # "idle"
  <2>1. /\ \E w \in Winners : job' = [job EXCEPT !.best = w]
        /\ pc' = "save" /\ profiles' = profiles
    BY <1>8 DEF Search, End
  <2>2. PICK w \in Winners : job' = [job EXCEPT !.best = w]
    BY <2>1
  <2>3. w.context = job.context
    BY DEF Winners, Config
  <2>4. job' = [kind |-> "tune", model |-> m, context |-> c, bench |-> bench, best |-> w]
    BY <1>4, <2>2
  <2>5. w.context \in Nat
    BY <1>4, <2>3
  <2> QED  BY <1>1, <1>2, <2>1, <2>4, <2>5 DEF SInv, JobInv, ProfileInv, LaunchInv
<1>9. CASE Save
  <2>1. pc = "save" /\ pc' = "idle"
    BY <1>9 DEF Save, End
  <2>2. CASE profiles' = profiles
    BY <1>1, <2>1, <2>2, Ended
  <2>3. CASE profiles' = [profiles EXCEPT ![job.model] =
               [best |-> job.best, measured |-> BenchArguments(job.model, job.best, job.bench)]]
    <3> DEFINE stored == [best |-> best, measured |-> BenchArguments(m, best, bench)]
    <3>1. job.model = m /\ job.best = best /\ job.bench = bench /\ best.context \in Nat
      BY <1>4, <2>1
    <3>2. profiles' = [profiles EXCEPT ![m] = stored]
      BY <2>3, <3>1
    <3>3. \E b, x : /\ stored = [best |-> b, measured |-> BenchArguments(m, b, x)]
                    /\ b.context \in Nat
      BY <3>1
    <3> HIDE DEF stored
    <3>4. DOMAIN profiles' = Models /\ profiles'[m] = stored
          /\ \A n \in Models \ {m} : profiles'[n] = profiles[n]
      BY <1>2, <3>2 DEF ProfileInv
    <3>5. ProfileInv'
      <4>1. ASSUME NEW n \in Models, profiles'[n] # NoValue
            PROVE  \E b, x : /\ profiles'[n] = [best |-> b, measured |-> BenchArguments(n, b, x)]
                             /\ b.context \in Nat
        <5>1. CASE n = m
          BY <3>3, <3>4, <5>1
        <5>2. CASE n # m
          BY <1>2, <3>4, <4>1, <5>2 DEF ProfileInv
        <5> QED  BY <5>1, <5>2
      <4> QED  BY <3>4, <4>1 DEF ProfileInv
    <3> QED  BY <1>1, <2>1, <3>5 DEF SInv, JobInv, LaunchInv
  <2> QED  BY <1>9, <2>2, <2>3 DEF Save
<1> QED  BY <1>5, <1>6, <1>7, <1>8, <1>9 DEF Prepare, Search

\* A launch takes the profile that is there.
LEMMA LaunchServed ==
  ASSUME SInv, Load \/ Launch \/ ChildEnds
  PROVE  SInv'
<1>1. MenuInv'
  BY MenuStays DEF Load, Launch, ChildEnds
<1>2. profiles' = profiles
  BY DEF Load, Launch, ChildEnds
<1>3. CASE pc' = "idle"
  BY <1>1, <1>2, <1>3, Ended
<1>4. CASE Load /\ pc' # "idle"
  <2>1. pc = "load" /\ pc' = "launch" /\ job' = job /\ profiles[job.model] # NoValue
    BY <1>4 DEF Load, End
  <2> QED  BY <1>1, <1>2, <2>1 DEF SInv, JobInv, ProfileInv, LaunchInv
<1>5. CASE Launch /\ pc' # "idle"
  <2>1. /\ pc = "launch" /\ pc' = "child" /\ job' = job
        /\ \E flags \in LaunchFlags :
             command' = [args |-> MergeUserOverrides(ProfileArguments(flags), job.user),
                         flags |-> flags]
    BY <1>5 DEF Launch, End
  <2>2. \A flags : ProfileArguments(flags)' = ProfileArguments(flags)
    BY <1>2, <2>1 DEF ProfileArguments
  <2>3. LaunchInv'
    BY <1>2, <2>1, <2>2 DEF SInv, LaunchInv
  <2> QED  BY <1>1, <1>2, <2>1, <2>3 DEF SInv, JobInv, ProfileInv
<1> QED  BY <1>3, <1>4, <1>5 DEF Load, Launch, ChildEnds, End

LEMMA ServedStep == SInv /\ [Next]_vars => SInv'
<1> SUFFICES ASSUME SInv, [Next]_vars PROVE SInv'
  OBVIOUS
<1>1. ASSUME NEW line, UseMenu(line) PROVE SInv'
  <2>1. pc' = "menu" /\ profiles' = profiles /\ (M!Answer(line) \/ M!Check(Tuned))
    BY <1>1 DEF UseMenu
  <2>2. MenuInv'
    BY <2>1, MenuAnswers, MenuChecks DEF SInv
  <2> QED  BY <2>1, <2>2, Ended
<1>2. CASE UNCHANGED vars
  <2>1. UNCHANGED <<pc, job, profiles, command, menu>>
    BY <1>2 DEF vars
  <2>2. \A flags : ProfileArguments(flags)' = ProfileArguments(flags)
    BY <2>1 DEF ProfileArguments
  <2>3. LaunchInv'
    BY <2>1, <2>2 DEF SInv, LaunchInv
  <2> QED  BY <2>1, <2>3, MenuStays DEF SInv, JobInv, ProfileInv
<1>3. CASE Next
  <2>1. CASE Begin
    BY <2>1, BeginServed
  <2>2. CASE \E line \in M!Lines : UseMenu(line)
    BY <1>1, <2>2
  <2>3. CASE Dispatch
    BY <2>3, DispatchServed
  <2>4. CASE (\E f \in Files : Prepare(f)) \/ ReadMetadata \/ Search \/ Save
    BY <2>4, TuneServed
  <2>5. CASE Load \/ Launch \/ ChildEnds
    BY <2>5, LaunchServed
  <2> QED  BY <1>3, <2>1, <2>2, <2>3, <2>4, <2>5 DEF Next, Steps
<1> QED  BY <1>2, <1>3

\* What llama-cli or llama-server is started with is what llama-bench was
\* measured with, but for what the user gives, whatever the models, the flags
\* that each tool turns out to have, and the user's arguments
\* (tuner.cpp:42-96, main.cpp:541-598, llama_runner.cpp:127-149).
THEOREM LaunchedAsMeasured == Spec => []ServedAsMeasured
<1>1. SInv => ServedAsMeasured
  BY ServedFollows
<1> QED  BY <1>1, ServedInit, ServedStep, PTL DEF Spec

-----------------------------------------------------------------------------
(* The reader's steps, and the types.                                      *)

LEMMA ReaderInit == Init => ReaderInv
BY DEF Init, G!Unread, ReaderInv

LEMMA ReaderStep == MenuInv /\ ReaderInv /\ [Next]_vars => ReaderInv'
<1> SUFFICES ASSUME MenuInv, ReaderInv, [Next]_vars PROVE ReaderInv'
  OBVIOUS
<1>1. CASE UNCHANGED vars
  BY <1>1, ReaderStays DEF vars, reader
<1>2. CASE Begin
  BY <1>2, ReaderStays DEF Begin, BeginMenu, BeginTune, BeginLaunch
<1>3. CASE \E line \in M!Lines : UseMenu(line)
  BY <1>3, ReaderStays DEF UseMenu
<1>4. CASE Dispatch
  <2>1. UNCHANGED reader /\ pc = "menu"
    BY <1>4 DEF Dispatch
  <2>2. pc' # "reading"
    <3>1. action.kind \in {"None", "Doctor", "Tune", "Serve"}
      BY DEF MenuInv
    <3> QED  BY <1>4, <2>1, <3>1 DEF Dispatch, End
  <2> QED  BY <2>1, <2>2, ReaderStays
<1>5. CASE Save \/ Load \/ Launch \/ ChildEnds
  BY <1>5, ReaderStays DEF Save, Load, Launch, ChildEnds, End
<1>6. ASSUME NEW f \in Files, Prepare(f) PROVE ReaderInv'
  <2>1. pc = "tune" /\ file = NoValue /\ G!Unread
    BY <1>6 DEF Prepare, ReaderInv
  <2>2. CASE End /\ UNCHANGED reader
    BY <2>1, <2>2, ReaderStays DEF End
  <2>3. CASE pc' = "reading" /\ G!Open(f)
    <3>1. ReadingInv'
      BY <2>1, <2>3, Opens
    <3>2. file' = f /\ f # NoValue
      BY <2>3, SessionAssumption DEF G!Open, G!IsFile
    <3> QED  BY <2>3, <3>1, <3>2 DEF ReaderInv
  <2> QED  BY <1>6, <2>2, <2>3 DEF Prepare
<1>7. CASE ReadMetadata
  <2>1. pc = "reading" /\ pc' = pc /\ file # NoValue /\ ReadingInv
    BY <1>7 DEF ReadMetadata, ReaderInv
  <2>2. file' = file
    BY <1>7 DEF ReadMetadata, G!Read, G!Walk, G!Reject, G!Accept, G!Finish
  <2>3. CASE G!Walk
    BY <2>1, <2>2, <2>3, Walks DEF ReaderInv
  <2>4. CASE G!Reject
    <3>1. /\ ~G!Header \/ (walked < file.kv_count /\ G!StartsAt(pos) = {})
          /\ G!Finish(G!Invalid)
      BY <2>4 DEF G!Reject
    <3>2. ReadingInv'
      BY <2>1, <3>1, Rejected, Finishes
    <3> QED  BY <2>1, <2>2, <3>2 DEF ReaderInv
  <2>5. CASE G!Accept
    <3>1. ReadingInv'
      BY <2>1, <2>5, Accepted, Finishes DEF G!Accept
    <3> QED  BY <2>1, <2>2, <3>1 DEF ReaderInv
  <2> QED  BY <1>7, <2>3, <2>4, <2>5 DEF ReadMetadata, G!Read
<1>8. CASE Search
  BY <1>8 DEF Search, G!Close, G!Unread, End, ReaderInv
<1> QED  BY <1>1, <1>2, <1>3, <1>4, <1>5, <1>6, <1>7, <1>8 DEF Next, Steps

\* Whatever a file holds and wherever it ends: its metadata is accepted exactly
\* if the section is whole, and each field is the first that the file gives
\* (gguf_metadata.cpp:343-462).
THEOREM MetadataIsRight == Spec => []MetadataIsTheFiles
<1>1. ReaderInv => MetadataIsTheFiles
  <2>1. G!Unread => gguf = NoValue
    BY DEF G!Unread
  <2> QED  BY <2>1 DEF ReaderInv, ReadingInv, MetadataIsTheFiles, G!MetadataIsTheFiles
<1>2. SInv => MenuInv
  BY DEF SInv
<1> QED  BY <1>1, <1>2, ReaderInit, ReaderStep, ServedInit, ServedStep, PTL DEF Spec

\* What TypeOK says and the other invariants do not.
TypeInv ==
  /\ pc \in {"idle", "menu", "tune", "reading", "save", "load", "launch", "child"}
  /\ IF pc \in {"idle", "menu"} THEN job = NoJob ELSE job.kind \in Tools \cup {"tune"}
  /\ IF pc = "child" THEN DOMAIN command = {"args", "flags"} ELSE command = NoValue
  /\ at \in M!Questions \cup {"off", "check", "planned"}
  /\ pc = "menu" <=> at # "off"
  /\ at \in {"choice", "planned"} \/ (IF at = "off" THEN purpose = NoValue
                                      ELSE purpose \in {"Tune", "Serve"})

\* Where the menu is, and what for.
AtInv ==
  /\ at \in M!Questions \cup {"check", "planned"}
  /\ at \in {"choice", "planned"} \/ purpose \in {"Tune", "Serve"}

LEMMA QuestionsAre ==
  M!Questions = {"choice", "model", "path", "continue", "context", "headroom", "report",
                 "--jinja", "--no-mmap", "--webui-mcp-proxy", "--reasoning-preserve"}
<1>1. DOMAIN M!ServeFlags = 1..4 /\ 1..4 = {1, 2, 3, 4}
  BY DEF M!ServeFlags
<1>2. M!Range(M!ServeFlags) =
        {"--jinja", "--no-mmap", "--webui-mcp-proxy", "--reasoning-preserve"}
  BY <1>1 DEF M!ServeFlags, M!Range
<1> QED  BY <1>2 DEF M!Questions

\* Every answer leads to a question, or to the end of them.
LEMMA AnswersStay ==
  ASSUME AtInv, NEW line, M!Answer(line) \/ M!Check(Tuned)
  PROVE  AtInv'
<1> USE DEF AtInv
<1>0. M!Questions = {"choice", "model", "path", "continue", "context", "headroom", "report",
                     "--jinja", "--no-mmap", "--webui-mcp-proxy", "--reasoning-preserve"}
  BY QuestionsAre
<1>1. CASE M!Back
  BY <1>0, <1>1 DEF M!Back
<1>2. CASE M!Choice(line)
  BY <1>0, <1>2 DEF M!Choice
<1>3. ASSUME NEW m, M!Chosen(m), purpose \in {"Tune", "Serve"} PROVE AtInv'
  BY <1>0, <1>3 DEF M!Chosen
<1>4. CASE M!ChooseModel(line)
  BY <1>0, <1>1, <1>3, <1>4 DEF M!ChooseModel
<1>5. CASE M!TypePath(line)
  BY <1>0, <1>1, <1>3, <1>5 DEF M!TypePath
<1>6. CASE M!Continue(line)
  BY <1>0, <1>1, <1>6 DEF M!Continue
<1>7. CASE M!AskContext(line) \/ M!AskHeadroom(line) \/ M!AskReport(line)
  BY <1>0, <1>7 DEF M!AskContext, M!AskHeadroom, M!AskReport
<1>8. CASE M!AskFlag(line)
  <2>1. PICK k \in DOMAIN M!ServeFlags :
          /\ at = M!ServeFlags[k] /\ purpose' = purpose
          /\ at' = IF k < Len(M!ServeFlags) THEN M!ServeFlags[k + 1] ELSE "planned"
    BY <1>8 DEF M!AskFlag
  <2>2. DOMAIN M!ServeFlags = 1..4 /\ Len(M!ServeFlags) = 4
    BY DEF M!ServeFlags
  <2>3. k \in {1, 2, 3, 4}
    BY <2>1, <2>2
  <2>4. \A i \in {1, 2, 3, 4} :
          M!ServeFlags[i]
            \in {"--jinja", "--no-mmap", "--webui-mcp-proxy", "--reasoning-preserve"}
    BY DEF M!ServeFlags
  <2>5. k < 4 => k + 1 \in {1, 2, 3, 4}
    BY <2>3
  <2>6. purpose \in {"Tune", "Serve"}
    BY <2>1, <2>3, <2>4
  <2> QED  BY <1>0, <2>1, <2>2, <2>4, <2>5, <2>6
<1>9. CASE M!Check(Tuned)
  BY <1>0, <1>1, <1>9 DEF M!Check, M!ServeFlags
<1> QED  BY <1>2, <1>4, <1>5, <1>6, <1>7, <1>8, <1>9 DEF M!Answer

LEMMA TypeInit == Init => TypeInv
BY DEF Init, TypeInv, M!Off

\* A command that has ended, and one that begins without the menu.
LEMMA EndTyped ==
  ASSUME TypeInv, End, at' = at, purpose' = purpose, at = "off", command' = NoValue
  PROVE  TypeInv'
BY DEF TypeInv, End, NoJob

LEMMA TypeStep == SInv /\ TypeInv /\ [Next]_vars => TypeInv'
<1> SUFFICES ASSUME SInv, TypeInv, [Next]_vars PROVE TypeInv'
  OBVIOUS
<1>0. /\ action.kind \in {"None", "Doctor", "Tune", "Serve"}
      /\ pc \in {"tune", "reading", "save"} =>
           \E m \in Models, c \in Nat : \E bench, best :
             job = [kind |-> "tune", model |-> m, context |-> c, bench |-> bench, best |-> best]
  BY DEF SInv, MenuInv, JobInv
<1>1. CASE UNCHANGED vars
  BY <1>1 DEF vars, menu, TypeInv
<1>2. CASE Begin
  <2>1. CASE BeginMenu
    BY <2>1, QuestionsAre DEF BeginMenu, M!Start, TypeInv
  <2>2. ASSUME NEW m, NEW line, BeginTune(m, line) PROVE TypeInv'
    BY <2>2 DEF BeginTune, Tuning, menu, TypeInv
  <2>3. ASSUME NEW m, NEW tool \in Tools, NEW user, BeginLaunch(tool, m, user) PROVE TypeInv'
    BY <2>3 DEF BeginLaunch, Launching, menu, TypeInv
  <2> QED  BY <1>2, <2>1, <2>2, <2>3 DEF Begin
<1>3. ASSUME NEW line, UseMenu(line) PROVE TypeInv'
  <2>1. /\ pc = "menu" /\ UNCHANGED <<pc, job, command>>
        /\ M!Answer(line) \/ M!Check(Tuned)
    BY <1>3 DEF UseMenu
  <2>2. AtInv
    BY <2>1 DEF TypeInv, AtInv
  <2>3. AtInv'
    BY <2>1, <2>2, AnswersStay
  <2>4. "off" \notin M!Questions
    BY QuestionsAre
  <2> QED  BY <2>1, <2>3, <2>4 DEF TypeInv, AtInv
<1>4. CASE Dispatch
  <2>1. pc = "menu" /\ command' = command /\ command = NoValue
    BY <1>4 DEF Dispatch, TypeInv
  <2>2. CASE action.kind = "Doctor"
    <3>1. pc' = "menu" /\ at' = "choice" /\ UNCHANGED <<job, purpose>>
      BY <1>4, <2>1, <2>2 DEF Dispatch
    <3> QED  BY <2>1, <3>1, QuestionsAre DEF TypeInv
  <2>3. CASE M!Leave /\ End
    BY <2>1, <2>3 DEF M!Leave, End, TypeInv
  <2>4. CASE /\ M!Leave /\ pc' = "load"
             /\ job' = Launching("llama-server", action.model, action.extra)
    BY <2>1, <2>4 DEF M!Leave, Launching, Tools, TypeInv
  <2>5. CASE M!Leave /\ pc' = "tune" /\ job' = Tuning(action.model, Stoul(action.context))
    BY <2>1, <2>5 DEF M!Leave, Tuning, TypeInv
  <2> QED  BY <1>0, <1>4, <2>2, <2>3, <2>4, <2>5 DEF Dispatch
<1>5. CASE (\E f \in Files : Prepare(f)) \/ ReadMetadata \/ Search \/ Save
  <2>1. /\ pc \in {"tune", "reading", "save"} /\ command' = command /\ command = NoValue
        /\ at' = at /\ purpose' = purpose /\ at = "off"
    BY <1>5 DEF Prepare, ReadMetadata, Search, Save, menu, TypeInv
  <2>2. CASE End
    BY <2>1, <2>2, EndTyped
  <2>3. CASE /\ pc' \in {"reading", "save"}
             /\ \/ job' = job \/ \E x : job' = [job EXCEPT !.bench = x]
                \/ \E x : job' = [job EXCEPT !.best = x]
    <3>1. job.kind = "tune" /\ "kind" \in DOMAIN job
      BY <1>0, <2>1
    <3>2. job'.kind = "tune"
      BY <1>0, <2>1, <2>3
    <3> QED  BY <2>1, <2>3, <3>2 DEF TypeInv
  <2> QED  BY <1>5, <2>2, <2>3 DEF Prepare, ReadMetadata, Search, Save
<1>6. CASE Load
  BY <1>6 DEF Load, End, NoJob, menu, TypeInv
<1>7. CASE Launch
  BY <1>7 DEF Launch, End, NoJob, menu, TypeInv
<1>8. CASE ChildEnds
  BY <1>8 DEF ChildEnds, End, NoJob, menu, TypeInv
<1> QED  BY <1>1, <1>2, <1>3, <1>4, <1>5, <1>6, <1>7, <1>8 DEF Next, Steps

\* Every command keeps to its own state, however the commands follow each other
\* (main.cpp:688-821).
THEOREM TypeCorrect == Spec => []TypeOK
<1>1. SInv /\ ReaderInv /\ TypeInv => TypeOK
  <2> SUFFICES ASSUME SInv, ReaderInv, TypeInv PROVE TypeOK
    OBVIOUS
  <2>1. job.kind \in Tools \cup {"tune", "none"} /\ (pc \in {"idle", "menu"} <=> job = NoJob)
    BY DEF TypeInv, NoJob, Tools
  <2>2. walked \in Nat /\ pos \in Nat \cup {-1}
    <3>1. CASE file = NoValue
      BY <3>1 DEF ReaderInv, G!Unread
    <3>2. CASE file # NoValue
      <4>1. ReadingInv /\ G!IsFile(file)
        BY <3>2, FilesAre DEF ReaderInv, ReadingInv
      <4>2. walked + 1 \in 1..(Len(file.entries) + 1) /\ walked \in Nat
        BY <4>1, FileIs DEF ReadingInv
      <4>3. \A k \in 1..(Len(file.entries) + 1) : G!Offset(k) \in Nat
        BY <4>1, Offsets
      <4>4. G!Offset(walked + 1) \in Nat
        BY <4>2, <4>3
      <4> QED  BY <4>1, <4>2, <4>4 DEF ReadingInv
    <3> QED  BY <3>1, <3>2
  <2> QED  BY <2>1, <2>2 DEF TypeOK, TypeInv, SInv, ProfileInv, ReaderInv
<1>2. SInv => MenuInv
  BY DEF SInv
<1> QED  BY <1>1, <1>2, ReaderInit, ReaderStep, ServedInit, ServedStep, TypeInit, TypeStep, PTL
         DEF Spec
==============================================================================
