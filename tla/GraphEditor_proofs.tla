-------------------------- MODULE GraphEditor_proofs --------------------------
(***************************************************************************)
(* The graph editor for every bound.                                       *)
(*                                                                         *)
(* The session: whatever undo, redo or a reload brings back fits together, *)
(* no two sessions within reach use one identity for different things, the *)
(* count of the history's bytes is exact, and the history implements the   *)
(* one line of sessions of Timeline.                                       *)
(*                                                                         *)
(* The simulation: for every set of nodes, every number of clocks and      *)
(* every validated wiring the search refuses the graphs with a cycle and   *)
(* no others, and what it admits is put in order.                          *)
(***************************************************************************)
EXTENDS MCGraphEditor, FiniteSetTheorems, SequenceTheorems, WellFoundedInduction, TLAPS

Partial(domain, range) == UNION {[S -> range] : S \in SUBSET domain}

Ids == 1..MaxId
Cursors == 1..(MaxId + 1)
Nodes == [made : Nat, text : Nat]
Wires == [source : Ids, target : Ids, made : Nat]
Probes == [source : Ids, capture : 1..MaxSamples]

Workspaces ==
    [line : Nat, digest : Nat, nextNode : Cursors, nextWire : Cursors,
     nodes : Partial(Ids, Nodes), wires : Partial(Ids, Wires)]
Sidecars ==
    [next : Cursors, of : Nat, trigger : [probe : Nat, window : Nat],
     probes : Partial(Ids, Probes)]
Components == [of : Int, text : Int]
Sessions == [workspace : Workspaces, probes : Sidecars, jobs : Int, component : Components]

\* Of two workspaces of one line the later one uses what the earlier one had room for
\* as the earlier one does, or not at all.
Follows(v, w) ==
    /\ v.line <= w.line
    /\ v.line = w.line =>
         /\ v.nextNode <= w.nextNode /\ v.nextWire <= w.nextWire
         /\ \A n \in DOMAIN w.nodes : n < v.nextNode =>
              n \in DOMAIN v.nodes /\ v.nodes[n].made = w.nodes[n].made
         /\ \A n \in DOMAIN w.wires : n < v.nextWire =>
              n \in DOMAIN v.wires /\ v.wires[n] = w.wires[n]

After(s, t) == Follows(s.workspace, t.workspace)

\* The history is one line of sessions, each after the one before it.
Ordered(u, s, r) ==
    /\ \A i, j \in DOMAIN u : i < j => After(u[i], u[j])
    /\ \A i, j \in DOMAIN r : i < j => After(r[j], r[i])
    /\ \A i \in DOMAIN u : After(u[i], s)
    /\ \A j \in DOMAIN r : After(s, r[j])
    /\ \A i \in DOMAIN u, j \in DOMAIN r : After(u[i], r[j])

\* A session that may be brought back after so many edits.
Admitted(s, done) == s \in Sessions /\ ValidSession(s) /\ s.workspace.line <= done

Whole(u, s, r, done) ==
    /\ u \in Seq(Sessions) /\ r \in Seq(Sessions)
    /\ Admitted(s, done)
    /\ \A i \in DOMAIN u : Admitted(u[i], done)
    /\ \A i \in DOMAIN r : Admitted(r[i], done)
    /\ Ordered(u, s, r)

Exact(u, r, total) ==
    /\ total = Total(u) + Total(r) /\ total <= MaxBytes
    /\ Len(u) <= MaxSnapshots /\ Len(r) <= MaxSnapshots

HistoryInv == Whole(undo, session, redo, edits) /\ Exact(undo, redo, bytes)

KeptInv ==
    /\ HistoryInv
    /\ stored # NoSession => Admitted(stored, edits)
    /\ SavedIsStored
    /\ dirty \in BOOLEAN /\ attempted \in BOOLEAN
    /\ edits \in 0..MaxEdits /\ visits \in 0..MaxVisits

SessionInv == KeptInv /\ PendingIsLive /\ pending \in 0..MaxId

-----------------------------------------------------------------------------
(* Sums.  What a recursive function computes is shown with the smallest     *)
(* argument for which it would not.                                        *)

LEMMA SmallestOf ==
    ASSUME NEW T \in SUBSET Nat, T # {}
    PROVE  \E m \in T : \A n \in T : m <= n
  <1>1. PICK m \in T : \A n \in T : ~ (<<n, m>> \in OpToRel(<, Nat))
    BY NatLessThanWellFounded, WFMin
  <1>2. \A n \in T : ~ (n < m)
    BY <1>1 DEF OpToRel
  <1> QED
    BY <1>2

\* The sum of the first n of a sequence of numbers is the nth value of this function.
IsSum(sum, f, n) ==
    sum = [k \in 0..n |-> IF k = 0 THEN 0 ELSE sum[k - 1] + f[k]]

LEMMA SumExists ==
    ASSUME NEW f, NEW n \in Nat
    PROVE  \E sum : IsSum(sum, f, n)
  <1> DEFINE T == {m \in Nat : ~ \E sum : IsSum(sum, f, m)}
  <1> SUFFICES ASSUME T # {} PROVE FALSE
    OBVIOUS
  <1>1. PICK m \in T : \A k \in T : m <= k
    BY SmallestOf
  <1>2. m # 0
    <2>1. IsSum([k \in 0..0 |-> 0], f, 0)
      BY DEF IsSum
    <2> QED
      BY <2>1
  <1>3. m - 1 \in Nat /\ m - 1 \notin T
    BY <1>1, <1>2
  <1>4. PICK sum : IsSum(sum, f, m - 1)
    BY <1>3
  <1> DEFINE more == [k \in 0..m |-> IF k = m THEN sum[m - 1] + f[m] ELSE sum[k]]
  <1>5. more = [k \in 0..m |-> IF k = 0 THEN 0 ELSE more[k - 1] + f[k]]
    <2> SUFFICES ASSUME NEW k \in 0..m
                 PROVE  more[k] = IF k = 0 THEN 0 ELSE more[k - 1] + f[k]
      OBVIOUS
    <2>1. CASE k = m
      <3>1. k # 0 /\ m - 1 \in 0..m /\ m - 1 # m
        BY <1>2, <1>3, <2>1
      <3> QED
        BY <2>1, <3>1
    <2>2. CASE k # m
      <3>1. k \in 0..(m - 1)
        BY <1>3, <2>2
      <3>2. sum[k] = IF k = 0 THEN 0 ELSE sum[k - 1] + f[k]
        BY <1>4, <3>1 DEF IsSum
      <3>3. more[k] = sum[k]
        BY <2>2
      <3>4. k # 0 => more[k - 1] = sum[k - 1]
        BY <1>3, <3>1
      <3> QED
        BY <3>2, <3>3, <3>4
    <2> QED
      BY <2>1, <2>2
  <1> HIDE DEF more
  <1> QED
    BY <1>1, <1>5 DEF IsSum

\* Two sums, of sequences that agree up to n.
Agree(s, f, a, t, g, b, n) ==
    /\ a \in Nat /\ b \in Nat /\ n \in Nat /\ n <= a /\ n <= b
    /\ IsSum(s, f, a) /\ IsSum(t, g, b)
    /\ \A k \in 1..n : f[k] = g[k]

LEMMA SumUnique ==
    ASSUME NEW f, NEW g, NEW a, NEW b, NEW n, NEW s, NEW t, Agree(s, f, a, t, g, b, n)
    PROVE  s[n] = t[n]
  <1> USE DEF Agree
  <1> DEFINE T == {k \in Nat : k <= n /\ s[k] # t[k]}
  <1> SUFFICES ASSUME T # {} PROVE FALSE
    OBVIOUS
  <1>1. PICK m \in T : \A k \in T : m <= k
    BY SmallestOf
  <1>2. m \in 0..a /\ m \in 0..b /\ (m # 0 => m \in 1..n /\ m - 1 \in Nat)
    BY <1>1
  <1>3. /\ s[m] = IF m = 0 THEN 0 ELSE s[m - 1] + f[m]
        /\ t[m] = IF m = 0 THEN 0 ELSE t[m - 1] + g[m]
    BY <1>2 DEF IsSum
  <1>4. m # 0 => s[m - 1] = t[m - 1]
    BY <1>1, <1>2
  <1> QED
    BY <1>1, <1>2, <1>3, <1>4

LEMMA SumTyped ==
    ASSUME NEW f, NEW a \in Nat, NEW s, IsSum(s, f, a), \A k \in 1..a : f[k] \in Nat
    PROVE  /\ s[0] = 0
           /\ \A n \in 0..a : s[n] \in Nat
           /\ \A n \in 1..a : s[n] = s[n - 1] + f[n]
  <1>1. /\ s[0] = 0
        /\ \A n \in 1..a : s[n] = s[n - 1] + f[n]
    BY DEF IsSum
  <1> DEFINE T == {n \in Nat : n <= a /\ s[n] \notin Nat}
  <1>2. T = {}
    <2> SUFFICES ASSUME T # {} PROVE FALSE
      OBVIOUS
    <2>1. PICK m \in T : \A k \in T : m <= k
      BY SmallestOf
    <2>2. m # 0
      BY <1>1, <2>1
    <2>3. m \in 1..a /\ m - 1 \in Nat /\ m - 1 <= a /\ m - 1 \notin T
      BY <2>1, <2>2
    <2>4. s[m - 1] \in Nat /\ f[m] \in Nat
      BY <2>3
    <2> QED
      BY <1>1, <2>1, <2>3, <2>4
  <1> QED
    BY <1>1, <1>2

\* A sum, and the sum of what follows the first n.
Splits(s, f, a, t, g, n) ==
    /\ a \in Nat /\ n \in 0..a
    /\ IsSum(s, f, a) /\ \A k \in 1..a : f[k] \in Nat
    /\ IsSum(t, g, a - n) /\ \A k \in 1..(a - n) : g[k] = f[n + k]

LEMMA SumOfRest ==
    ASSUME NEW f, NEW a, NEW n, NEW s, NEW g, NEW t, Splits(s, f, a, t, g, n)
    PROVE  t[a - n] = s[a] - s[n]
  <1> USE DEF Splits
  <1>1. /\ \A k \in 0..a : s[k] \in Nat
        /\ \A k \in 1..a : s[k] = s[k - 1] + f[k]
    BY SumTyped
  <1>2. /\ a - n \in Nat
        /\ \A k \in 1..(a - n) : n + k \in 1..a /\ n + (k - 1) \in 0..a /\ (n + k) - 1 = n + (k - 1)
    OBVIOUS
  <1>3. \A k \in 1..(a - n) : g[k] \in Nat
    BY <1>2
  <1>4. /\ t[0] = 0
        /\ \A k \in 0..(a - n) : t[k] \in Nat
        /\ \A k \in 1..(a - n) : t[k] = t[k - 1] + g[k]
    BY <1>2, <1>3, SumTyped
  <1> DEFINE T == {k \in Nat : k <= a - n /\ t[k] # s[n + k] - s[n]}
  <1>5. T = {}
    <2> SUFFICES ASSUME T # {} PROVE FALSE
      OBVIOUS
    <2>1. PICK m \in T : \A k \in T : m <= k
      BY SmallestOf
    <2>2. m # 0
      <3>1. s[n] \in Nat /\ n + 0 = n
        BY <1>1
      <3> QED
        BY <1>4, <2>1, <3>1
    <2>3. m \in 1..(a - n) /\ m - 1 \in Nat /\ m - 1 <= a - n /\ m - 1 \notin T
      BY <1>2, <2>1, <2>2
    <2>4. t[m - 1] = s[n + (m - 1)] - s[n]
      BY <2>3
    <2>5. s[n + m] = s[n + (m - 1)] + f[n + m]
      BY <1>1, <1>2, <2>3
    <2>6. t[m] = t[m - 1] + f[n + m]
      BY <1>4, <2>3
    <2>7. s[n] \in Nat /\ s[n + (m - 1)] \in Nat /\ f[n + m] \in Nat
      BY <1>1, <1>2, <2>3
    <2> QED
      BY <2>1, <2>4, <2>5, <2>6, <2>7
  <1>6. a - n \notin T /\ n + (a - n) = a
    BY <1>5
  <1> QED
    BY <1>2, <1>6

-----------------------------------------------------------------------------
(* Bytes.                                                                  *)

LEMMA PartialFinite ==
    ASSUME NEW range, NEW f \in Partial(Ids, range)
    PROVE  Cardinality(DOMAIN f) \in Nat /\ IsFiniteSet(DOMAIN f) /\ DOMAIN f \subseteq Ids
  <1>1. DOMAIN f \subseteq Ids
    BY DEF Partial
  <1>2. IsFiniteSet(Ids)
    BY BoundAssumption, FS_Interval DEF Ids
  <1>3. IsFiniteSet(DOMAIN f)
    BY <1>1, <1>2, FS_Subset
  <1> QED
    BY <1>1, <1>3, FS_CardinalityType

LEMMA SizeTyped ==
    ASSUME NEW s \in Sessions
    PROVE  Size(s) \in Nat
  <1>1. /\ Cardinality(DOMAIN s.workspace.nodes) \in Nat
        /\ Cardinality(DOMAIN s.workspace.wires) \in Nat
        /\ Cardinality(DOMAIN s.probes.probes) \in Nat
    BY PartialFinite DEF Sessions, Workspaces, Sidecars
  <1> QED
    BY <1>1 DEF Size

Sizes(pile) == [k \in 1..Len(pile) |-> Size(pile[k])]

LEMMA SizesTyped ==
    ASSUME NEW pile \in Seq(Sessions)
    PROVE  /\ Len(pile) \in Nat
           /\ \A k \in 1..Len(pile) : Sizes(pile)[k] = Size(pile[k]) /\ Sizes(pile)[k] \in Nat
  <1>1. \A k \in 1..Len(pile) : pile[k] \in Sessions
    OBVIOUS
  <1> QED
    BY <1>1, SizeTyped DEF Sizes

LEMMA TotalIsSum ==
    ASSUME NEW pile \in Seq(Sessions)
    PROVE  \E sum : IsSum(sum, Sizes(pile), Len(pile)) /\ Total(pile) = sum[Len(pile)]
  <1> DEFINE Made(sum) ==
        sum = [n \in 0..Len(pile) |-> IF n = 0 THEN 0 ELSE sum[n - 1] + Size(pile[n])]
  <1>1. \A sum : Made(sum) <=> IsSum(sum, Sizes(pile), Len(pile))
    <2> SUFFICES ASSUME NEW sum
                 PROVE  \A n \in 0..Len(pile) :
                          n # 0 => Size(pile[n]) = Sizes(pile)[n]
      BY DEF IsSum
    <2> QED
      BY SizesTyped DEF Sizes
  <1>2. \E sum : Made(sum)
    BY <1>1, SumExists, SizesTyped
  <1>3. Made(CHOOSE sum : Made(sum))
    BY <1>2
  <1>4. Total(pile) = (CHOOSE sum : Made(sum))[Len(pile)]
    BY DEF Total
  <1> HIDE DEF Made
  <1> QED
    BY <1>1, <1>3, <1>4

LEMMA TotalTyped ==
    ASSUME NEW pile \in Seq(Sessions)
    PROVE  Total(pile) \in Nat
  <1>1. PICK sum : IsSum(sum, Sizes(pile), Len(pile)) /\ Total(pile) = sum[Len(pile)]
    BY TotalIsSum
  <1>2. \A k \in 0..Len(pile) : sum[k] \in Nat
    BY <1>1, SizesTyped, SumTyped
  <1> QED
    BY <1>1, <1>2, SizesTyped

LEMMA TotalOfNone == Total(<<>>) = 0
  <1>1. <<>> \in Seq(Sessions) /\ Len(<<>>) = 0
    OBVIOUS
  <1>2. PICK sum : IsSum(sum, Sizes(<<>>), 0) /\ Total(<<>>) = sum[0]
    BY <1>1, TotalIsSum
  <1> QED
    BY <1>2 DEF IsSum

\* The bytes of the first n, of the last of them, and of those that follow.
LEMMA TotalOfSome ==
    ASSUME NEW pile \in Seq(Sessions), NEW n \in 0..Len(pile)
    PROVE  /\ SubSeq(pile, 1, n) \in Seq(Sessions) /\ Drop(pile, n) \in Seq(Sessions)
           /\ Len(SubSeq(pile, 1, n)) = n /\ Len(Drop(pile, n)) = Len(pile) - n
           /\ Total(pile) = Total(SubSeq(pile, 1, n)) + Total(Drop(pile, n))
           /\ n = Len(pile) - 1 => Total(pile) = Total(SubSeq(pile, 1, n)) + Size(pile[n + 1])
  <1> DEFINE f == Sizes(pile)
             a == Len(pile)
             head == SubSeq(pile, 1, n)
             rest == Drop(pile, n)
  <1>1. a \in Nat /\ \A k \in 1..a : f[k] = Size(pile[k]) /\ f[k] \in Nat
    BY SizesTyped
  <1>2. /\ head \in Seq(Sessions) /\ Len(head) = n
        /\ \A k \in 1..n : head[k] = pile[k]
    BY <1>1
  <1>3. /\ rest \in Seq(Sessions) /\ Len(rest) = a - n
        /\ \A k \in 1..(a - n) : rest[k] = pile[n + k]
    BY <1>1 DEF Drop
  <1>4. PICK s : IsSum(s, f, a) /\ Total(pile) = s[a]
    BY TotalIsSum
  <1>5. PICK t : IsSum(t, Sizes(head), n) /\ Total(head) = t[n]
    BY <1>2, TotalIsSum
  <1>6. PICK u : IsSum(u, Sizes(rest), a - n) /\ Total(rest) = u[a - n]
    BY <1>3, TotalIsSum
  <1> HIDE DEF head, rest
  <1>7. \A k \in 1..n : Sizes(head)[k] = f[k]
    BY <1>1, <1>2, SizesTyped
  <1>8. \A k \in 1..(a - n) : Sizes(rest)[k] = f[n + k]
    <2> SUFFICES ASSUME NEW k \in 1..(a - n) PROVE Sizes(rest)[k] = f[n + k]
      OBVIOUS
    <2>1. n + k \in 1..a
      BY <1>1
    <2>2. Sizes(rest)[k] = Size(rest[k])
      BY <1>3, SizesTyped
    <2> QED
      BY <1>1, <1>3, <2>1, <2>2
  <1> HIDE DEF f, a
  <1>9. n \in Nat /\ n <= a /\ n \in 0..a
    BY <1>1 DEF a
  <1>10. t[n] = s[n]
    <2>1. n <= n /\ a \in Nat
      BY <1>1, <1>9
    <2>2. Agree(t, Sizes(head), n, s, f, a, n)
      BY <1>4, <1>5, <1>7, <1>9, <2>1, Zenon DEF Agree
    <2>3. t[n] = s[n]
      BY <2>2, SumUnique
    <2> QED
      BY <2>3
  <1>11. u[a - n] = s[a] - s[n]
    <2>1. a \in Nat /\ \A k \in 1..a : f[k] \in Nat
      BY <1>1
    <2>2. Splits(s, f, a, u, Sizes(rest), n)
      BY <1>4, <1>6, <1>8, <1>9, <2>1, Zenon DEF Splits
    <2> QED
      BY <2>2, SumOfRest
  <1>12. /\ s[a] \in Nat /\ s[n] \in Nat
         /\ n = a - 1 => s[a] = s[n] + f[n + 1]
    <2>1. /\ \A k \in 0..a : s[k] \in Nat
          /\ \A k \in 1..a : s[k] = s[k - 1] + f[k]
      BY <1>1, <1>4, SumTyped
    <2>2. a \in 0..a /\ (n = a - 1 => a \in 1..a /\ n + 1 = a)
      BY <1>1, <1>9
    <2> QED
      BY <1>9, <2>1, <2>2
  <1>13. n = a - 1 => f[n + 1] = Size(pile[n + 1])
    BY <1>1, <1>9
  <1> QED
    BY <1>2, <1>3, <1>4, <1>5, <1>6, <1>10, <1>11, <1>12, <1>13 DEF head, rest, a

LEMMA TotalOfOneMore ==
    ASSUME NEW pile \in Seq(Sessions), NEW s \in Sessions
    PROVE  Total(Append(pile, s)) = Total(pile) + Size(s)
  <1> DEFINE more == Append(pile, s)
             n == Len(pile)
  <1>1. /\ more \in Seq(Sessions) /\ Len(more) = n + 1 /\ n \in 0..Len(more)
        /\ n = Len(more) - 1 /\ more[n + 1] = s
    OBVIOUS
  <1>2. SubSeq(more, 1, n) = pile
    <2>1. n \in Nat /\ SubSeq(more, 1, n) \in Seq(Sessions) /\ Len(SubSeq(more, 1, n)) = n
      BY <1>1
    <2>2. \A k \in 1..n : SubSeq(more, 1, n)[k] = more[k] /\ more[k] = pile[k]
      BY <1>1
    <2> QED
      BY <2>1, <2>2, SeqEqual
  <1>3. Total(more) = Total(SubSeq(more, 1, n)) + Size(more[n + 1])
    <2> HIDE DEF more
    <2> QED
      BY <1>1, TotalOfSome
  <1> QED
    BY <1>1, <1>2, <1>3

LEMMA TotalOfFront ==
    ASSUME NEW pile \in Seq(Sessions), pile # <<>>
    PROVE  /\ Front(pile) \in Seq(Sessions) /\ Len(Front(pile)) = Len(pile) - 1
           /\ Last(pile) \in Sessions
           /\ Total(pile) = Total(Front(pile)) + Size(Last(pile))
           /\ \A i \in DOMAIN Front(pile) : i \in DOMAIN pile /\ Front(pile)[i] = pile[i]
  <1> DEFINE n == Len(pile) - 1
  <1>1. n \in 0..Len(pile) /\ n + 1 = Len(pile) /\ Len(pile) \in DOMAIN pile
    OBVIOUS
  <1>2. Total(pile) = Total(SubSeq(pile, 1, n)) + Size(pile[n + 1])
    BY <1>1, TotalOfSome
  <1> QED
    BY <1>1, <1>2 DEF Front, Last

-----------------------------------------------------------------------------
(* History.                                                                *)

LEMMA TurnsMade ==
    ASSUME NEW stops, NEW first \in Nat, NEW last \in Nat, first <= last
    PROVE  LET n == Turns(stops, first, last) IN
           /\ n \in first..last
           /\ n \in stops \/ n = last
           /\ \A m \in first..last : m < n => m \notin stops
  <1> DEFINE T == {n \in first..last : n \in stops \/ n = last}
             P(n) == (n \in stops \/ n = last) /\ \A m \in first..last : m < n => m \notin stops
  <1>1. T \in SUBSET Nat /\ last \in T
    OBVIOUS
  <1>2. PICK n \in T : \A m \in T : n <= m
    BY <1>1, SmallestOf
  <1>3. n \in first..last /\ P(n)
    BY <1>2
  <1>4. Turns(stops, first, last) = CHOOSE k \in first..last : P(k)
    BY DEF Turns
  <1> HIDE DEF P
  <1>5. Turns(stops, first, last) \in first..last /\ P(Turns(stops, first, last))
    BY <1>3, <1>4
  <1> QED
    BY <1>5 DEF P

\* Enforcing the limits drops the oldest of both stacks and keeps count.
LEMMA LimitsEnforced ==
    ASSUME NEW h, h.undo \in Seq(Sessions), h.redo \in Seq(Sessions),
           h.bytes = Total(h.undo) + Total(h.redo)
    PROVE  \E u \in 0..Len(h.undo), r \in 0..Len(h.redo) :
             /\ EnforceLimits(h).undo = Drop(h.undo, u)
             /\ EnforceLimits(h).redo = Drop(h.redo, r)
             /\ Exact(Drop(h.undo, u), Drop(h.redo, r), EnforceLimits(h).bytes)
  <1> DEFINE Left(u, r) == h.bytes - Total(SubSeq(h.undo, 1, u)) - Total(SubSeq(h.redo, 1, r))
             a == Len(h.undo)
             b == Len(h.redo)
             x == Excess(h.redo)
             us == {n \in 0..a : Left(n, x) <= MaxBytes}
             u == Turns(us, Excess(h.undo), a)
             rs == {n \in 0..b : Left(u, n) <= MaxBytes}
             r == Turns(rs, x, b)
  <1>1. EnforceLimits(h) = [undo |-> Drop(h.undo, u), redo |-> Drop(h.redo, r), bytes |-> Left(u, r)]
    BY Zenon DEF EnforceLimits
  <1>2. /\ a \in Nat /\ b \in Nat
        /\ Excess(h.undo) \in 0..a /\ a - Excess(h.undo) <= MaxSnapshots
        /\ x \in 0..b /\ b - x <= MaxSnapshots
    BY BoundAssumption DEF Excess
  <1>3. /\ u \in Excess(h.undo)..a
        /\ u \in us \/ u = a
    BY <1>2, TurnsMade
  <1>4. /\ r \in x..b
        /\ r \in rs \/ r = b
        /\ \A m \in x..b : m < r => m \notin rs
    BY <1>2, TurnsMade
  <1>5. u \in 0..a /\ r \in 0..b /\ a - u <= MaxSnapshots /\ b - r <= MaxSnapshots
    <2> HIDE DEF u, r, x, a, b
    <2> QED
      BY <1>2, <1>3, <1>4, BoundAssumption
  <1>6. Left(u, r) = Total(Drop(h.undo, u)) + Total(Drop(h.redo, r))
    <2>1. /\ Total(h.undo) = Total(SubSeq(h.undo, 1, u)) + Total(Drop(h.undo, u))
          /\ Total(SubSeq(h.undo, 1, u)) \in Nat /\ Total(Drop(h.undo, u)) \in Nat
      <3> HIDE DEF u
      <3> QED
        BY <1>5, TotalOfSome, TotalTyped
    <2>2. /\ Total(h.redo) = Total(SubSeq(h.redo, 1, r)) + Total(Drop(h.redo, r))
          /\ Total(SubSeq(h.redo, 1, r)) \in Nat /\ Total(Drop(h.redo, r)) \in Nat
      <3> HIDE DEF r
      <3> QED
        BY <1>5, TotalOfSome, TotalTyped
    <2> HIDE DEF u, r
    <2> QED
      BY <2>1, <2>2
  <1>7. Len(Drop(h.undo, u)) = a - u /\ Len(Drop(h.redo, r)) = b - r
    <2> HIDE DEF u, r
    <2> QED
      BY <1>5, TotalOfSome
  <1>8. Left(u, r) <= MaxBytes
    <2>1. CASE r \in rs
      BY <2>1
    <2>2. CASE r \notin rs /\ u \in us
      <3>1. x \in rs
        BY <1>2, <2>2
      <3>2. x \in x..b /\ ~ (x < r)
        <4> HIDE DEF x, b, rs, r
        <4> QED
          BY <1>2, <1>4, <3>1
      <3>3. r = x
        <4> HIDE DEF x, b, rs, r
        <4> QED
          BY <1>2, <1>4, <3>2
      <3> QED
        BY <2>2, <3>1, <3>3
    <2>3. CASE r \notin rs /\ u \notin us
      <3>1. u = a /\ r = b
        BY <1>3, <1>4, <2>3
      <3>2. SubSeq(h.undo, 1, a) = h.undo /\ SubSeq(h.redo, 1, b) = h.redo
        OBVIOUS
      <3>3. Left(a, b) = 0
        <4>1. Total(h.undo) \in Nat /\ Total(h.redo) \in Nat
          BY TotalTyped
        <4>2. Left(a, b) = h.bytes - Total(h.undo) - Total(h.redo)
          BY <3>2, Zenon
        <4> HIDE DEF Left
        <4> QED
          BY <4>1, <4>2
      <3> HIDE DEF u, r, a, b
      <3> QED
        BY <3>1, <3>3, BoundAssumption
    <2> QED
      BY <2>1, <2>2, <2>3
  <1> HIDE DEF Left, u, r, a, b
  <1>9. Exact(Drop(h.undo, u), Drop(h.redo, r), Left(u, r))
    BY <1>5, <1>6, <1>7, <1>8 DEF Exact
  <1> QED
    BY <1>1, <1>5, <1>9 DEF a, b

LEMMA FollowsOn ==
    ASSUME NEW v \in Workspaces, NEW w \in Workspaces, NEW x \in Workspaces,
           Follows(v, w), Follows(w, x)
    PROVE  Follows(v, x)
  <1>1. v.line \in Nat /\ w.line \in Nat /\ x.line \in Nat
    BY DEF Workspaces
  <1>2. /\ v.nextNode \in Int /\ w.nextNode \in Int /\ x.nextNode \in Int
        /\ v.nextWire \in Int /\ w.nextWire \in Int /\ x.nextWire \in Int
    BY BoundAssumption DEF Workspaces, Cursors
  <1>3. /\ DOMAIN w.nodes \subseteq Int /\ DOMAIN x.nodes \subseteq Int
        /\ DOMAIN w.wires \subseteq Int /\ DOMAIN x.wires \subseteq Int
    <2>1. Ids \subseteq Int
      BY DEF Ids
    <2> QED
      BY <2>1, PartialFinite DEF Workspaces
  <1>4. v.line <= x.line
    BY <1>1 DEF Follows
  <1> SUFFICES ASSUME v.line = x.line
               PROVE  /\ v.nextNode <= x.nextNode /\ v.nextWire <= x.nextWire
                      /\ \A n \in DOMAIN x.nodes : n < v.nextNode =>
                           n \in DOMAIN v.nodes /\ v.nodes[n].made = x.nodes[n].made
                      /\ \A n \in DOMAIN x.wires : n < v.nextWire =>
                           n \in DOMAIN v.wires /\ v.wires[n] = x.wires[n]
    BY <1>4 DEF Follows
  <1>5. v.line = w.line /\ w.line = x.line
    BY <1>1 DEF Follows
  <1>6. /\ v.nextNode <= w.nextNode /\ w.nextNode <= x.nextNode
        /\ v.nextWire <= w.nextWire /\ w.nextWire <= x.nextWire
    BY <1>5 DEF Follows
  <1>7. ASSUME NEW n \in DOMAIN x.nodes, n < v.nextNode
        PROVE  n \in DOMAIN v.nodes /\ v.nodes[n].made = x.nodes[n].made
    <2>1. n < w.nextNode
      BY <1>2, <1>3, <1>6, <1>7
    <2>2. n \in DOMAIN w.nodes /\ w.nodes[n].made = x.nodes[n].made
      BY <1>5, <2>1 DEF Follows
    <2>3. n \in DOMAIN v.nodes /\ v.nodes[n].made = w.nodes[n].made
      BY <1>5, <1>7, <2>2 DEF Follows
    <2> QED
      BY <2>2, <2>3
  <1>8. ASSUME NEW n \in DOMAIN x.wires, n < v.nextWire
        PROVE  n \in DOMAIN v.wires /\ v.wires[n] = x.wires[n]
    <2>1. n < w.nextWire
      BY <1>2, <1>3, <1>6, <1>8
    <2>2. n \in DOMAIN w.wires /\ w.wires[n] = x.wires[n]
      BY <1>5, <2>1 DEF Follows
    <2>3. n \in DOMAIN v.wires /\ v.wires[n] = w.wires[n]
      BY <1>5, <1>8, <2>2 DEF Follows
    <2> QED
      BY <2>2, <2>3
  <1>9. v.nextNode <= x.nextNode /\ v.nextWire <= x.nextWire
    BY <1>2, <1>6
  <1> QED
    BY <1>7, <1>8, <1>9

LEMMA StaysAfter ==
    ASSUME NEW ws \in Workspaces
    PROVE  Follows(ws, ws)
  <1>1. ws.line \in Int /\ ws.nextNode \in Int /\ ws.nextWire \in Int
    BY DEF Workspaces, Cursors
  <1> QED
    BY <1>1 DEF Follows

LEMMA AfterOn ==
    ASSUME NEW s \in Sessions, NEW t \in Sessions, NEW x \in Sessions, After(s, t), After(t, x)
    PROVE  After(s, x)
  BY FollowsOn DEF After, Sessions

LEMMA AdmittedLater ==
    ASSUME NEW s, NEW done \in Nat, NEW later \in Nat, done <= later, Admitted(s, done)
    PROVE  Admitted(s, later)
  <1>1. s.workspace.line \in Nat
    BY DEF Admitted, Sessions, Workspaces
  <1> QED
    BY <1>1 DEF Admitted

LEMMA WholeLater ==
    ASSUME NEW u, NEW s, NEW r, NEW done \in Nat, NEW later \in Nat, done <= later,
           Whole(u, s, r, done)
    PROVE  Whole(u, s, r, later)
  BY AdmittedLater DEF Whole

\* A line without some of its oldest and some of its newest sessions is one still.
LEMMA DropWhole ==
    ASSUME NEW u, NEW s, NEW r, NEW done, Whole(u, s, r, done),
           NEW a \in 0..Len(u), NEW b \in 0..Len(r)
    PROVE  Whole(Drop(u, a), s, Drop(r, b), done)
  <1>1. u \in Seq(Sessions) /\ r \in Seq(Sessions)
    BY DEF Whole
  <1>2. /\ Drop(u, a) \in Seq(Sessions) /\ DOMAIN Drop(u, a) = 1..(Len(u) - a)
        /\ \A i \in DOMAIN Drop(u, a) : i + a \in DOMAIN u /\ Drop(u, a)[i] = u[i + a]
    BY <1>1 DEF Drop
  <1>3. /\ Drop(r, b) \in Seq(Sessions) /\ DOMAIN Drop(r, b) = 1..(Len(r) - b)
        /\ \A i \in DOMAIN Drop(r, b) : i + b \in DOMAIN r /\ Drop(r, b)[i] = r[i + b]
    BY <1>1 DEF Drop
  <1>4. Len(u) \in Nat /\ Len(r) \in Nat
    BY <1>1
  <1> DEFINE v == Drop(u, a)
             w == Drop(r, b)
  <1>5. Ordered(v, s, w)
    <2>1. ASSUME NEW i \in DOMAIN v, NEW j \in DOMAIN v, i < j
          PROVE  After(v[i], v[j])
      <3>1. i + a < j + a
        BY <1>2, <1>4, <2>1
      <3> QED
        BY <1>2, <3>1 DEF Whole, Ordered
    <2>2. ASSUME NEW i \in DOMAIN w, NEW j \in DOMAIN w, i < j
          PROVE  After(w[j], w[i])
      <3>1. i + b < j + b
        BY <1>3, <1>4, <2>2
      <3> QED
        BY <1>3, <3>1 DEF Whole, Ordered
    <2>3. /\ \A i \in DOMAIN v : After(v[i], s)
          /\ \A j \in DOMAIN w : After(s, w[j])
          /\ \A i \in DOMAIN v, j \in DOMAIN w : After(v[i], w[j])
      BY <1>2, <1>3 DEF Whole, Ordered
    <2> HIDE DEF v, w
    <2> QED
      BY <2>1, <2>2, <2>3 DEF Ordered
  <1> QED
    BY <1>2, <1>3, <1>5 DEF Whole

LEMMA LimitsKeepWhole ==
    ASSUME NEW h, NEW s, NEW done, Whole(h.undo, s, h.redo, done),
           h.bytes = Total(h.undo) + Total(h.redo)
    PROVE  /\ Whole(EnforceLimits(h).undo, s, EnforceLimits(h).redo, done)
           /\ Exact(EnforceLimits(h).undo, EnforceLimits(h).redo, EnforceLimits(h).bytes)
  <1>1. h.undo \in Seq(Sessions) /\ h.redo \in Seq(Sessions)
    BY DEF Whole
  <1>2. PICK u \in 0..Len(h.undo), r \in 0..Len(h.redo) :
             /\ EnforceLimits(h).undo = Drop(h.undo, u)
             /\ EnforceLimits(h).redo = Drop(h.redo, r)
             /\ Exact(Drop(h.undo, u), Drop(h.redo, r), EnforceLimits(h).bytes)
    BY <1>1, LimitsEnforced
  <1> QED
    BY <1>2, DropWhole

LEMMA OneMore ==
    ASSUME NEW S, NEW pile \in Seq(S), NEW s \in S
    PROVE  /\ Append(pile, s) \in Seq(S)
           /\ DOMAIN Append(pile, s) = 1..(Len(pile) + 1) /\ DOMAIN pile = 1..Len(pile)
           /\ Append(pile, s)[Len(pile) + 1] = s
           /\ \A i \in DOMAIN Append(pile, s) :
                i # Len(pile) + 1 =>
                    i \in DOMAIN pile /\ i < Len(pile) + 1 /\ Append(pile, s)[i] = pile[i]
  OBVIOUS

\* A session after the current one forgets what had been undone.
LEMMA RecordWhole ==
    ASSUME NEW u, NEW s, NEW r, NEW t, NEW done \in Nat,
           Whole(u, s, r, done), Admitted(t, done + 1), After(s, t)
    PROVE  Whole(Append(u, s), t, <<>>, done + 1)
  <1> DEFINE v == Append(u, s)
             n == Len(u) + 1
  <1>1. /\ u \in Seq(Sessions) /\ s \in Sessions /\ t \in Sessions
        /\ <<>> \in Seq(Sessions) /\ DOMAIN <<>> = {} /\ done + 1 \in Nat /\ done <= done + 1
    BY DEF Whole, Admitted
  <1>2. /\ v \in Seq(Sessions) /\ DOMAIN v = 1..n /\ v[n] = s
        /\ \A i \in DOMAIN v : i # n => i \in DOMAIN u /\ i < n /\ v[i] = u[i]
    BY <1>1, OneMore
  <1>3. Len(u) \in Nat /\ n \in Nat
    BY <1>1
  <1> HIDE DEF v, n
  <1>4. \A i \in DOMAIN v : Admitted(v[i], done + 1)
    <2> SUFFICES ASSUME NEW i \in DOMAIN v PROVE Admitted(v[i], done)
      BY <1>1, AdmittedLater
    <2> QED
      BY <1>2 DEF Whole
  <1>5. ASSUME NEW i \in DOMAIN v
        PROVE  v[i] \in Sessions /\ (i # n => After(v[i], s)) /\ After(v[i], t)
    <2>1. CASE i = n
      BY <1>1, <1>2, <2>1
    <2>2. CASE i # n
      <3>1. v[i] \in Sessions /\ After(v[i], s)
        BY <1>1, <1>2, <2>2 DEF Whole, Ordered, Admitted
      <3> QED
        BY <1>1, <3>1, AfterOn
    <2> QED
      BY <2>1, <2>2
  <1>6. ASSUME NEW i \in DOMAIN v, NEW j \in DOMAIN v, i < j
        PROVE  After(v[i], v[j])
    <2>0. i # n
      BY <1>2, <1>3, <1>6
    <2>1. CASE j = n
      BY <1>2, <1>5, <2>0, <2>1
    <2>2. CASE j # n
      BY <1>2, <1>6, <2>0, <2>2 DEF Whole, Ordered
    <2> QED
      BY <2>1, <2>2
  <1>7. Ordered(v, t, <<>>)
    BY <1>1, <1>5, <1>6 DEF Ordered
  <1> QED
    BY <1>1, <1>2, <1>4, <1>7 DEF Whole, v

\* The last of one stack becomes the current session and that one the last of the other.
LEMMA UndoWhole ==
    ASSUME NEW u, NEW s, NEW r, NEW done, Whole(u, s, r, done), u # <<>>
    PROVE  Whole(Front(u), Last(u), Append(r, s), done)
  <1> DEFINE v == Front(u)
             m == Len(u)
             w == Append(r, s)
             n == Len(r) + 1
  <1>1. /\ u \in Seq(Sessions) /\ r \in Seq(Sessions) /\ s \in Sessions
    BY DEF Whole, Admitted
  <1>2. /\ w \in Seq(Sessions) /\ DOMAIN w = 1..n /\ w[n] = s
        /\ \A i \in DOMAIN w : i # n => i \in DOMAIN r /\ i < n /\ w[i] = r[i]
    BY <1>1, OneMore
  <1>3. /\ m \in Nat /\ n \in Nat /\ m \in DOMAIN u /\ Last(u) = u[m]
        /\ v \in Seq(Sessions) /\ DOMAIN v = 1..(m - 1)
        /\ \A i \in DOMAIN v : i \in DOMAIN u /\ i < m /\ v[i] = u[i]
    BY <1>1, TotalOfFront DEF Last
  <1> HIDE DEF v, m, w, n
  <1>4. ASSUME NEW i \in DOMAIN v, NEW j \in DOMAIN v, i < j
        PROVE  After(v[i], v[j])
    BY <1>3, <1>4 DEF Whole, Ordered
  <1>5. ASSUME NEW i \in DOMAIN w, NEW j \in DOMAIN w, i < j
        PROVE  After(w[j], w[i])
    <2>0. i # n
      BY <1>2, <1>3, <1>5
    <2>1. CASE j = n
      BY <1>2, <2>0, <2>1 DEF Whole, Ordered
    <2>2. CASE j # n
      BY <1>2, <1>5, <2>0, <2>2 DEF Whole, Ordered
    <2> QED
      BY <2>1, <2>2
  <1>6. /\ \A i \in DOMAIN v : After(v[i], u[m])
        /\ \A j \in DOMAIN w : After(u[m], w[j])
    BY <1>2, <1>3 DEF Whole, Ordered
  <1>7. ASSUME NEW i \in DOMAIN v, NEW j \in DOMAIN w
        PROVE  After(v[i], w[j])
    BY <1>2, <1>3 DEF Whole, Ordered
  <1>8. Ordered(v, Last(u), w)
    BY <1>3, <1>4, <1>5, <1>6, <1>7 DEF Ordered
  <1>9. /\ Admitted(u[m], done)
        /\ \A i \in DOMAIN v : Admitted(v[i], done)
        /\ \A i \in DOMAIN w : Admitted(w[i], done)
    BY <1>2, <1>3 DEF Whole
  <1> QED
    BY <1>2, <1>3, <1>8, <1>9 DEF Whole, v, w

LEMMA RedoWhole ==
    ASSUME NEW u, NEW s, NEW r, NEW done, Whole(u, s, r, done), r # <<>>
    PROVE  Whole(Append(u, s), Last(r), Front(r), done)
  <1> DEFINE v == Append(u, s)
             m == Len(u) + 1
             w == Front(r)
             n == Len(r)
  <1>1. /\ u \in Seq(Sessions) /\ r \in Seq(Sessions) /\ s \in Sessions
    BY DEF Whole, Admitted
  <1>2. /\ v \in Seq(Sessions) /\ DOMAIN v = 1..m /\ v[m] = s
        /\ \A i \in DOMAIN v : i # m => i \in DOMAIN u /\ i < m /\ v[i] = u[i]
    BY <1>1, OneMore
  <1>3. /\ m \in Nat /\ n \in Nat /\ n \in DOMAIN r /\ Last(r) = r[n]
        /\ w \in Seq(Sessions) /\ DOMAIN w = 1..(n - 1)
        /\ \A i \in DOMAIN w : i \in DOMAIN r /\ i < n /\ w[i] = r[i]
    BY <1>1, TotalOfFront DEF Last
  <1> HIDE DEF v, m, w, n
  <1>4. ASSUME NEW i \in DOMAIN w, NEW j \in DOMAIN w, i < j
        PROVE  After(w[j], w[i])
    BY <1>3, <1>4 DEF Whole, Ordered
  <1>5. ASSUME NEW i \in DOMAIN v, NEW j \in DOMAIN v, i < j
        PROVE  After(v[i], v[j])
    <2>0. i # m
      BY <1>2, <1>3, <1>5
    <2>1. CASE j = m
      BY <1>2, <2>0, <2>1 DEF Whole, Ordered
    <2>2. CASE j # m
      BY <1>2, <1>5, <2>0, <2>2 DEF Whole, Ordered
    <2> QED
      BY <2>1, <2>2
  <1>6. /\ \A i \in DOMAIN v : After(v[i], r[n])
        /\ \A j \in DOMAIN w : After(r[n], w[j])
    BY <1>2, <1>3 DEF Whole, Ordered
  <1>7. ASSUME NEW i \in DOMAIN v, NEW j \in DOMAIN w
        PROVE  After(v[i], w[j])
    BY <1>2, <1>3 DEF Whole, Ordered
  <1>8. Ordered(v, Last(r), w)
    BY <1>3, <1>4, <1>5, <1>6, <1>7 DEF Ordered
  <1>9. /\ Admitted(r[n], done)
        /\ \A i \in DOMAIN v : Admitted(v[i], done)
        /\ \A i \in DOMAIN w : Admitted(w[i], done)
    BY <1>2, <1>3 DEF Whole
  <1> QED
    BY <1>2, <1>3, <1>8, <1>9 DEF Whole, v, w

LEMMA NoHistory ==
    ASSUME NEW s, NEW done, Admitted(s, done)
    PROVE  Whole(<<>>, s, <<>>, done) /\ Exact(<<>>, <<>>, 0)
  <1>1. <<>> \in Seq(Sessions) /\ DOMAIN <<>> = {} /\ Len(<<>>) = 0
    OBVIOUS
  <1>2. Ordered(<<>>, s, <<>>)
    BY <1>1 DEF Ordered
  <1>3. Exact(<<>>, <<>>, 0)
    BY <1>1, TotalOfNone, BoundAssumption DEF Exact
  <1> QED
    BY <1>1, <1>2, <1>3 DEF Whole

-----------------------------------------------------------------------------
(* Documents.                                                              *)

LEMMA WithoutValues ==
    ASSUME NEW f, NEW ids
    PROVE  /\ DOMAIN Without(f, ids) = DOMAIN f \ ids
           /\ \A j \in DOMAIN f \ ids : Without(f, ids)[j] = f[j]
  BY DEF Without

LEMMA PartialMore ==
    ASSUME NEW D, NEW R, NEW f \in Partial(D, R), NEW i \in D, NEW v \in R
    PROVE  With(f, i, v) \in Partial(D, R)
  <1>1. PICK S \in SUBSET D : f \in [S -> R]
    BY DEF Partial
  <1>2. S \cup {i} \in SUBSET D /\ With(f, i, v) \in [S \cup {i} -> R]
    BY <1>1 DEF With
  <1> QED
    BY <1>1, <1>2 DEF Partial

LEMMA PartialLess ==
    ASSUME NEW D, NEW R, NEW f \in Partial(D, R), NEW ids
    PROVE  Without(f, ids) \in Partial(D, R)
  <1>1. PICK S \in SUBSET D : f \in [S -> R]
    BY DEF Partial
  <1>2. S \ ids \in SUBSET D /\ Without(f, ids) \in [S \ ids -> R]
    BY <1>1 DEF Without
  <1> QED
    BY <1>1, <1>2 DEF Partial

LEMMA PartialTyped ==
    ASSUME NEW D, NEW R, NEW f \in Partial(D, R)
    PROVE  DOMAIN f \subseteq D /\ \A i \in DOMAIN f : f[i] \in R
  BY DEF Partial

LEMMA PartialOther ==
    ASSUME NEW D, NEW R, NEW f \in Partial(D, R), NEW i \in DOMAIN f, NEW v \in R
    PROVE  [f EXCEPT ![i] = v] \in Partial(D, R)
  <1>1. PICK S \in SUBSET D : f \in [S -> R]
    BY DEF Partial
  <1>2. [f EXCEPT ![i] = v] \in [S -> R]
    BY <1>1
  <1> QED
    BY <1>2 DEF Partial

\* A workspace is sound if only that it may be circular.
Sound(ws) ==
    /\ ws \in Workspaces
    /\ \A n \in DOMAIN ws.nodes : n < ws.nextNode
    /\ \A w \in DOMAIN ws.wires :
          /\ w < ws.nextWire
          /\ ws.wires[w].source \in DOMAIN ws.nodes /\ ws.wires[w].target \in DOMAIN ws.nodes
          /\ \A v \in DOMAIN ws.wires : ws.wires[v].target = ws.wires[w].target => v = w

LEMMA SoundIsValid ==
    ASSUME NEW ws \in Workspaces
    PROVE  ValidWorkspace(ws) <=> Sound(ws) /\ Acyclic(ws)
  <1>1. DOMAIN ws.nodes \subseteq 1..MaxId /\ DOMAIN ws.wires \subseteq 1..MaxId
    BY PartialTyped DEF Workspaces, Ids
  <1> QED
    BY <1>1 DEF ValidWorkspace, Sound

\* What a change may make of the workspace of an admitted session.
Candidate(old, ws, done) == Sound(ws) /\ Follows(old, ws) /\ ws.line <= done + 1

LEMMA NodeCreatedFits ==
    ASSUME NEW ws, Sound(ws), ws.nextNode <= MaxId, ws.line <= edits, edits \in Nat
    PROVE  Candidate(ws, NodeCreated(ws), edits)
  <1> DEFINE more == NodeCreated(ws)
             node == [made |-> edits + 1, text |-> 0]
  <1>1. /\ ws.nodes \in Partial(Ids, Nodes)
        /\ ws.wires \in Partial(Ids, Wires)
        /\ ws.nextNode \in Ids /\ ws.nextNode + 1 \in Cursors /\ ws.nextNode \in Int
        /\ ws.line \in Nat /\ node \in Nodes
    BY BoundAssumption DEF Sound, Workspaces, Cursors, Ids, Nodes
  <1>2. /\ With(ws.nodes, ws.nextNode, node) \in Partial(Ids, Nodes)
        /\ DOMAIN With(ws.nodes, ws.nextNode, node) = DOMAIN ws.nodes \cup {ws.nextNode}
        /\ \A j \in DOMAIN ws.nodes :
             j # ws.nextNode => With(ws.nodes, ws.nextNode, node)[j] = ws.nodes[j]
    <2> HIDE DEF node
    <2>1. With(ws.nodes, ws.nextNode, node) \in Partial(Ids, Nodes)
      BY <1>1, PartialMore
    <2>2. DOMAIN With(ws.nodes, ws.nextNode, node) = DOMAIN ws.nodes \cup {ws.nextNode}
      BY DEF With
    <2>3. \A j \in DOMAIN ws.nodes :
             j # ws.nextNode => With(ws.nodes, ws.nextNode, node)[j] = ws.nodes[j]
      BY DEF With
    <2> QED
      BY <2>1, <2>2, <2>3
  <1> HIDE DEF node
  <1>3. /\ more \in Workspaces
        /\ more.nodes = With(ws.nodes, ws.nextNode, node) /\ more.wires = ws.wires
        /\ more.nextNode = ws.nextNode + 1 /\ more.nextWire = ws.nextWire /\ more.line = ws.line
    BY <1>1, <1>2 DEF NodeCreated, Sound, Workspaces, node
  <1>4. /\ DOMAIN ws.nodes \subseteq Int /\ DOMAIN ws.wires \subseteq Int
        /\ ws.nextNode \in Int /\ ws.nextWire \in Int
    BY BoundAssumption, PartialTyped DEF Sound, Workspaces, Ids, Cursors
  <1> HIDE DEF more
  <1>5. Sound(more)
    <2>1. \A n \in DOMAIN more.nodes : n < more.nextNode
      BY <1>2, <1>3, <1>4 DEF Sound
    <2> QED
      BY <1>2, <1>3, <2>1 DEF Sound
  <1>6. Follows(ws, more)
    <2>1. \A n \in DOMAIN more.nodes : n < ws.nextNode =>
                n \in DOMAIN ws.nodes /\ ws.nodes[n].made = more.nodes[n].made
      BY <1>2, <1>3, <1>4
    <2> QED
      BY <1>1, <1>3, <1>4, <2>1 DEF Follows
  <1> QED
    BY <1>1, <1>3, <1>5, <1>6 DEF Candidate, more

LEMMA LessFits ==
    ASSUME NEW ws, Sound(ws), ws.line <= edits, edits \in Nat, NEW nodes, NEW links,
           \A w \in DOMAIN ws.wires \ links :
               ws.wires[w].source \notin nodes /\ ws.wires[w].target \notin nodes
    PROVE  Candidate(ws, [ws EXCEPT !.nodes = Without(@, nodes), !.wires = Without(@, links)], edits)
  <1> DEFINE less == [ws EXCEPT !.nodes = Without(@, nodes), !.wires = Without(@, links)]
  <1>0. ws.nodes \in Partial(Ids, Nodes) /\ ws.wires \in Partial(Ids, Wires)
    BY DEF Sound, Workspaces
  <1>1. /\ Without(ws.nodes, nodes) \in Partial(Ids, Nodes)
        /\ DOMAIN Without(ws.nodes, nodes) = DOMAIN ws.nodes \ nodes
        /\ \A j \in DOMAIN ws.nodes \ nodes : Without(ws.nodes, nodes)[j] = ws.nodes[j]
    BY <1>0, PartialLess, WithoutValues
  <1>2. /\ Without(ws.wires, links) \in Partial(Ids, Wires)
        /\ DOMAIN Without(ws.wires, links) = DOMAIN ws.wires \ links
        /\ \A j \in DOMAIN ws.wires \ links : Without(ws.wires, links)[j] = ws.wires[j]
    BY <1>0, PartialLess, WithoutValues
  <1>3. /\ less \in Workspaces
        /\ less.nodes = Without(ws.nodes, nodes) /\ less.wires = Without(ws.wires, links)
        /\ less.nextNode = ws.nextNode /\ less.nextWire = ws.nextWire /\ less.line = ws.line
    BY <1>1, <1>2 DEF Sound, Workspaces
  <1>4. /\ ws.line \in Nat /\ ws.nextNode \in Int /\ ws.nextWire \in Int
    BY BoundAssumption DEF Sound, Workspaces, Cursors
  <1> HIDE DEF less
  <1>5. Sound(less)
    BY <1>1, <1>2, <1>3 DEF Sound
  <1>6. Follows(ws, less)
    BY <1>1, <1>2, <1>3, <1>4 DEF Follows
  <1> QED
    BY <1>3, <1>4, <1>5, <1>6 DEF Candidate, less

LEMMA NodeDeletedFits ==
    ASSUME NEW ws, Sound(ws), ws.line <= edits, edits \in Nat, NEW n
    PROVE  Candidate(ws, NodeDeleted(ws, n), edits)
  <1> DEFINE links == {w \in DOMAIN ws.wires : n \in {ws.wires[w].source, ws.wires[w].target}}
  <1>1. \A w \in DOMAIN ws.wires \ links :
            ws.wires[w].source \notin {n} /\ ws.wires[w].target \notin {n}
    OBVIOUS
  <1>2. NodeDeleted(ws, n) = [ws EXCEPT !.nodes = Without(@, {n}), !.wires = Without(@, links)]
    BY DEF NodeDeleted
  <1> HIDE DEF links
  <1>3. Candidate(ws, [ws EXCEPT !.nodes = Without(@, {n}), !.wires = Without(@, links)], edits)
    BY <1>1, LessFits
  <1> QED
    BY <1>2, <1>3

LEMMA DisconnectedFits ==
    ASSUME NEW ws, Sound(ws), ws.line <= edits, edits \in Nat, NEW w
    PROVE  Candidate(ws, [ws EXCEPT !.wires = Without(@, {w})], edits)
  <1>1. Candidate(ws, [ws EXCEPT !.nodes = Without(@, {}), !.wires = Without(@, {w})], edits)
    BY LessFits
  <1>2. ws.nodes = [i \in DOMAIN ws.nodes |-> ws.nodes[i]]
    BY DEF Sound, Workspaces, Partial
  <1>3. Without(ws.nodes, {}) = ws.nodes
    BY <1>2 DEF Without
  <1>4. [ws EXCEPT !.nodes = Without(@, {}), !.wires = Without(@, {w})]
            = [ws EXCEPT !.wires = Without(@, {w})]
    BY <1>3 DEF Sound, Workspaces
  <1> QED
    BY <1>1, <1>4

LEMMA ConnectedFits ==
    ASSUME NEW ws, Sound(ws), ws.nextWire <= MaxId, ws.line <= edits, edits \in Nat,
           NEW from \in DOMAIN ws.nodes, NEW to \in DOMAIN ws.nodes, ~ Owned(ws, to)
    PROVE  Candidate(ws, Connected(ws, from, to), edits)
  <1> DEFINE more == Connected(ws, from, to)
  <1>0. PICK wire : wire = [source |-> from, target |-> to, made |-> edits + 1]
    OBVIOUS
  <1> DEFINE links == With(ws.wires, ws.nextWire, wire)
  <1>1. /\ ws.wires \in Partial(Ids, Wires)
        /\ ws.nextWire \in Ids /\ ws.nextWire + 1 \in Cursors /\ ws.nextWire \in Int
        /\ ws.line \in Nat
    BY BoundAssumption DEF Sound, Workspaces, Cursors, Ids
  <1>2. wire \in Wires
    <2>1. DOMAIN ws.nodes \subseteq Ids
      BY PartialTyped DEF Sound, Workspaces
    <2> QED
      BY <1>0, <2>1 DEF Wires
  <1>3. links \in Partial(Ids, Wires)
    BY <1>1, <1>2, PartialMore
  <1>4. /\ DOMAIN links = DOMAIN ws.wires \cup {ws.nextWire} /\ links[ws.nextWire] = wire
        /\ \A j \in DOMAIN ws.wires : j # ws.nextWire => links[j] = ws.wires[j]
    BY DEF With
  <1> HIDE DEF links
  <1>5. /\ more \in Workspaces
        /\ more.nodes = ws.nodes /\ more.wires = links
        /\ more.nextNode = ws.nextNode /\ more.nextWire = ws.nextWire + 1 /\ more.line = ws.line
    <2>1. more = [ws EXCEPT !.wires = links, !.nextWire = ws.nextWire + 1]
      BY <1>0 DEF Connected, links
    <2> QED
      BY <1>1, <1>3, <2>1 DEF Sound, Workspaces
  <1>6. /\ DOMAIN ws.nodes \subseteq Int /\ DOMAIN ws.wires \subseteq Int
        /\ ws.nextNode \in Int /\ ws.nextWire \in Int
    BY BoundAssumption, PartialTyped DEF Sound, Workspaces, Ids, Cursors
  <1> HIDE DEF more
  <1>7. Sound(more)
    <2>1. \A n \in DOMAIN more.nodes : n < more.nextNode
      BY <1>5 DEF Sound
    <2>2. ASSUME NEW w \in DOMAIN links
          PROVE  /\ w < ws.nextWire + 1
                 /\ links[w].source \in DOMAIN ws.nodes /\ links[w].target \in DOMAIN ws.nodes
      <3>1. CASE w = ws.nextWire
        BY <1>0, <1>4, <1>6, <3>1
      <3>2. CASE w # ws.nextWire
        BY <1>4, <1>6, <3>2 DEF Sound
      <3> QED
        BY <3>1, <3>2
    <2>3. ASSUME NEW w \in DOMAIN links, NEW v \in DOMAIN links, links[v].target = links[w].target
          PROVE  v = w
      <3>1. \A x \in DOMAIN ws.wires : x # ws.nextWire /\ links[x].target # to
        <4>1. \A x \in DOMAIN ws.wires : x < ws.nextWire /\ ws.wires[x].target # to
          BY DEF Owned, Sound
        <4> QED
          BY <1>4, <1>6, <4>1
      <3>2. links[ws.nextWire].target = to
        BY <1>0, <1>4
      <3>3. CASE w \in DOMAIN ws.wires /\ v \in DOMAIN ws.wires
        BY <1>4, <2>3, <3>1, <3>3 DEF Sound
      <3> QED
        BY <1>4, <2>3, <3>1, <3>2, <3>3
    <2> QED
      BY <1>5, <2>1, <2>2, <2>3 DEF Sound
  <1>8. Follows(ws, more)
    <2>1. \A w \in DOMAIN links : w < ws.nextWire =>
                w \in DOMAIN ws.wires /\ ws.wires[w] = links[w]
      BY <1>4, <1>6
    <2> QED
      BY <1>1, <1>5, <1>6, <2>1 DEF Follows
  <1> QED
    BY <1>1, <1>5, <1>7, <1>8 DEF Candidate, more

LEMMA EditedFits ==
    ASSUME NEW ws, Sound(ws), ws.line <= edits, edits \in Nat,
           NEW n \in DOMAIN ws.nodes, NEW text \in Nat
    PROVE  /\ Candidate(ws, [ws EXCEPT !.nodes[n].text = text], edits)
           /\ DOMAIN [ws EXCEPT !.nodes[n].text = text].nodes = DOMAIN ws.nodes
  <1> DEFINE node == [ws.nodes[n] EXCEPT !.text = text]
             nodes == [ws.nodes EXCEPT ![n] = node]
             more == [ws EXCEPT !.nodes = nodes]
  <1>1. /\ ws.nodes \in Partial(Ids, Nodes) /\ ws.line \in Nat
        /\ ws.nextNode \in Int /\ ws.nextWire \in Int
    BY BoundAssumption DEF Sound, Workspaces, Cursors
  <1>2. ws.nodes[n] \in Nodes
    BY <1>1, PartialTyped
  <1>3. node \in Nodes /\ node.made = ws.nodes[n].made
    BY <1>2 DEF Nodes
  <1> HIDE DEF node
  <1>4. /\ nodes \in Partial(Ids, Nodes)
        /\ DOMAIN nodes = DOMAIN ws.nodes
        /\ \A j \in DOMAIN ws.nodes : nodes[j] = IF j = n THEN node ELSE ws.nodes[j]
    <2>1. nodes \in Partial(Ids, Nodes)
      BY <1>1, <1>3, PartialOther
    <2> QED
      BY <2>1
  <1>5. \A j \in DOMAIN ws.nodes : nodes[j].made = ws.nodes[j].made
    BY <1>3, <1>4
  <1> HIDE DEF nodes
  <1>6. /\ more \in Workspaces
        /\ more.nodes = nodes /\ more.wires = ws.wires
        /\ more.nextNode = ws.nextNode /\ more.nextWire = ws.nextWire /\ more.line = ws.line
    BY <1>4 DEF Sound, Workspaces
  <1>7. more = [ws EXCEPT !.nodes[n].text = text]
    BY DEF nodes, node
  <1> HIDE DEF more
  <1>8. Sound(more)
    BY <1>4, <1>6 DEF Sound
  <1>9. Follows(ws, more)
    BY <1>1, <1>4, <1>5, <1>6 DEF Follows
  <1>10. Candidate(ws, more, edits)
    BY <1>1, <1>6, <1>8, <1>9 DEF Candidate
  <1> QED
    BY <1>4, <1>6, <1>7, <1>10

LEMMA ImportedFits ==
    ASSUME NEW ws, Sound(ws), ws.line <= edits, edits \in Nat, NEW f \in Foreign
    PROVE  Candidate(ws, Imported(f), edits)
  <1> DEFINE more == Imported(f)
             nodes == [n \in f.nodes |-> [made |-> 0, text |-> 0]]
             links == [w \in DOMAIN f.wires |-> f.wires[w]]
  <1>1. /\ f.nodes \subseteq 1..MaxId /\ f.nextNode \in 1..(MaxId + 1)
        /\ \A n \in f.nodes : n < f.nextNode
        /\ f.nextWire \in 1..(MaxId + 1)
        /\ f.wires \in [DOMAIN f.wires -> [source : f.nodes, target : f.nodes, made : {0}]]
        /\ \A w \in DOMAIN f.wires :
              /\ w \in 1..MaxId /\ w < f.nextWire
              /\ \A v \in DOMAIN f.wires : f.wires[v].target = f.wires[w].target => v = w
    BY ForeignAssumption
  <1>2. nodes \in [f.nodes -> Nodes] /\ f.nodes \in SUBSET Ids
    BY <1>1 DEF Nodes, Ids
  <1>3. \A w \in DOMAIN f.wires : f.wires[w] \in [source : f.nodes, target : f.nodes, made : {0}]
    BY <1>1
  <1>4. \A w \in DOMAIN f.wires :
           /\ f.wires[w] \in Wires
           /\ f.wires[w].source \in f.nodes /\ f.wires[w].target \in f.nodes
    BY <1>1, <1>3 DEF Wires, Ids
  <1>5. links \in [DOMAIN f.wires -> Wires] /\ DOMAIN f.wires \in SUBSET Ids
    BY <1>1, <1>4 DEF Ids
  <1>6. nodes \in Partial(Ids, Nodes) /\ DOMAIN nodes = f.nodes
    BY <1>2 DEF Partial
  <1>7. /\ links \in Partial(Ids, Wires) /\ DOMAIN links = DOMAIN f.wires
        /\ \A w \in DOMAIN links : links[w] = f.wires[w]
    BY <1>5 DEF Partial
  <1> HIDE DEF nodes, links
  <1>8. more = [line |-> edits + 1, digest |-> edits + 1,
                nextNode |-> f.nextNode, nextWire |-> f.nextWire, nodes |-> nodes, wires |-> links]
    BY DEF Imported, nodes, links
  <1>9. more \in Workspaces
    BY <1>1, <1>6, <1>7, <1>8 DEF Workspaces, Cursors
  <1>10. Sound(more)
    BY <1>1, <1>4, <1>6, <1>7, <1>8, <1>9 DEF Sound
  <1>11. Follows(ws, more)
    <2>1. ws.line \in Nat
      BY DEF Sound, Workspaces
    <2> QED
      BY <1>8, <2>1 DEF Follows
  <1> QED
    BY <1>8, <1>10, <1>11 DEF Candidate, more

\* A sidecar is sound if only that its trigger's window may not fit.
SoundProbes(p, ws) ==
    /\ p \in Sidecars
    /\ p.of = ws.digest
    /\ \A i \in DOMAIN p.probes :
          /\ i < p.next
          /\ p.probes[i].source \in DOMAIN ws.nodes
          /\ \A j \in DOMAIN p.probes : p.probes[j].source = p.probes[i].source => j = i

LEMMA SoundIsValidProbes ==
    ASSUME NEW p \in Sidecars, NEW ws
    PROVE  ValidProbes(p, ws) <=> SoundProbes(p, ws) /\ TriggerFits(p)
  <1>1. DOMAIN p.probes \subseteq 1..MaxId
    BY PartialTyped DEF Sidecars, Ids
  <1> QED
    BY <1>1 DEF ValidProbes, SoundProbes

LEMMA NothingPartial ==
    ASSUME NEW D, NEW R
    PROVE  <<>> \in Partial(D, R) /\ DOMAIN <<>> = {}
  <1>1. <<>> \in [{} -> R] /\ {} \in SUBSET D
    OBVIOUS
  <1> QED
    BY <1>1 DEF Partial

LEMMA EmptySound ==
    ASSUME NEW ws \in Workspaces
    PROVE  SoundProbes(EmptyProbes(ws), ws) /\ TriggerFits(EmptyProbes(ws))
  <1>1. <<>> \in Partial(Ids, Probes) /\ DOMAIN <<>> = {}
    BY NothingPartial
  <1>2. ws.digest \in Nat /\ 1 \in Cursors /\ NoTrigger \in [probe : Nat, window : Nat]
    BY BoundAssumption DEF Workspaces, Cursors, NoTrigger
  <1>3. EmptyProbes(ws) \in Sidecars
    BY <1>1, <1>2 DEF EmptyProbes, Sidecars
  <1> QED
    BY <1>1, <1>3 DEF EmptyProbes, SoundProbes, TriggerFits

LEMMA ProbesFollow ==
    ASSUME NEW p, NEW old, NEW ws \in Workspaces, p \in Sidecars, ValidProbes(p, old)
    PROVE  SoundProbes(ProbesFor(p, ws), ws) /\ TriggerFits(ProbesFor(p, ws))
  <1>1. CASE \A i \in DOMAIN p.probes : p.probes[i].source \in DOMAIN ws.nodes
    <2>1. ProbesFor(p, ws) = [p EXCEPT !.of = ws.digest] /\ ws.digest \in Nat
      BY <1>1 DEF ProbesFor, Workspaces
    <2>2. [p EXCEPT !.of = ws.digest] \in Sidecars
      BY <2>1 DEF Sidecars
    <2>3. /\ [p EXCEPT !.of = ws.digest].probes = p.probes
          /\ [p EXCEPT !.of = ws.digest].next = p.next
          /\ [p EXCEPT !.of = ws.digest].of = ws.digest
          /\ [p EXCEPT !.of = ws.digest].trigger = p.trigger
      BY DEF Sidecars
    <2> QED
      BY <1>1, <2>1, <2>2, <2>3, SoundIsValidProbes DEF SoundProbes, TriggerFits
  <1>2. CASE ~ \A i \in DOMAIN p.probes : p.probes[i].source \in DOMAIN ws.nodes
    BY <1>2, EmptySound DEF ProbesFor
  <1> QED
    BY <1>1, <1>2

\* A session made of a workspace and a sidecar that fit together.
LEMMA MadeAdmitted ==
    ASSUME NEW ws, NEW p, NEW jobs \in Int, NEW component \in Components, NEW done,
           Sound(ws), Acyclic(ws), ws.line <= done, SoundProbes(p, ws), TriggerFits(p),
           Size(SessionOf(ws, p, jobs, component)) <= MaxSessionBytes
    PROVE  Admitted(SessionOf(ws, p, jobs, component), done)
  <1> DEFINE made == SessionOf(ws, p, jobs, component)
             piece == ComponentFor(ws, component)
  <1>1. /\ made.workspace = ws /\ made.probes = p /\ made.component = piece
    BY DEF SessionOf
  <1>2. ws \in Workspaces /\ p \in Sidecars /\ ws.digest \in Nat
    BY DEF Sound, SoundProbes, Workspaces
  <1>6. piece \in Components /\ (piece # NoComponent => piece.of = ws.digest)
    BY <1>2 DEF ComponentFor, NoComponent, Components
  <1> HIDE DEF piece
  <1>3. made \in Sessions
    BY <1>2, <1>6 DEF SessionOf, Sessions, piece
  <1>4. ValidWorkspace(ws) /\ ValidProbes(p, ws)
    BY <1>2, SoundIsValid, SoundIsValidProbes
  <1> HIDE DEF made
  <1>5. Size(made) <= MaxSessionBytes
    BY DEF made
  <1> QED
    BY <1>1, <1>3, <1>4, <1>5, <1>6 DEF Admitted, ValidSession, made

LEMMA NoComponentTyped == NoComponent \in Components
  BY DEF NoComponent, Components

Dated(ws, done) == [ws EXCEPT !.digest = done + 1]
\* Only the document's digest is another.
LEMMA DatedFits ==
    ASSUME NEW old, NEW ws, NEW done \in Nat, Candidate(old, ws, done)
    PROVE  Candidate(old, Dated(ws, done), done) /\ Dated(ws, done).nodes = ws.nodes
  <1> DEFINE new == Dated(ws, done)
  <1>1. /\ new \in Workspaces
        /\ new.line = ws.line /\ new.nodes = ws.nodes /\ new.wires = ws.wires
        /\ new.nextNode = ws.nextNode /\ new.nextWire = ws.nextWire
    BY DEF Candidate, Sound, Workspaces, Dated
  <1> HIDE DEF new
  <1>2. Candidate(old, new, done)
    BY <1>1 DEF Candidate, Sound, Follows
  <1> QED
    BY <1>1, <1>2 DEF new

Revised(s, new) == SessionOf(new, ProbesFor(s.probes, new), s.jobs, s.component)

LEMMA RevisedAdmitted ==
    ASSUME NEW s, NEW new, NEW done \in Nat, Admitted(s, done),
           Candidate(s.workspace, new, done),
           Acyclic(new), Size(Revised(s, new)) <= MaxSessionBytes
    PROVE  /\ Admitted(Revised(s, new), done + 1)
           /\ After(s, Revised(s, new))
           /\ Revised(s, new).workspace = new
  <1>1. /\ Sound(new) /\ new \in Workspaces /\ new.line <= done + 1
        /\ Follows(s.workspace, new)
    BY DEF Candidate, Sound
  <1>2. /\ s.probes \in Sidecars /\ ValidProbes(s.probes, s.workspace)
        /\ s.jobs \in Int /\ s.component \in Components
    BY DEF Admitted, Sessions, ValidSession
  <1>3. SoundProbes(ProbesFor(s.probes, new), new) /\ TriggerFits(ProbesFor(s.probes, new))
    BY <1>1, <1>2, ProbesFollow
  <1>4. Size(SessionOf(new, ProbesFor(s.probes, new), s.jobs, s.component)) <= MaxSessionBytes
    BY DEF Revised
  <1>5. Admitted(SessionOf(new, ProbesFor(s.probes, new), s.jobs, s.component), done + 1)
    BY <1>1, <1>2, <1>3, <1>4, MadeAdmitted
  <1>6. Revised(s, new).workspace = new
    BY DEF Revised, SessionOf
  <1> QED
    BY <1>1, <1>5, <1>6 DEF After, Revised

-----------------------------------------------------------------------------
(* Steps.                                                                  *)

LEMMA KeptHistory ==
    ASSUME NEW h, NEW s, NEW done, KeepHistory(h), Whole(h.undo, s, h.redo, done),
           h.bytes = Total(h.undo) + Total(h.redo), session' = s, edits' = done
    PROVE  HistoryInv'
  <1>1. undo' = EnforceLimits(h).undo /\ redo' = EnforceLimits(h).redo /\ bytes' = EnforceLimits(h).bytes
    BY DEF KeepHistory
  <1>2. Whole(undo', s, redo', done) /\ Exact(undo', redo', bytes')
    BY <1>1, LimitsKeepWhole
  <1> QED
    BY <1>2 DEF HistoryInv

LEMMA KeptTypes ==
    ASSUME KeptInv
    PROVE  /\ Whole(undo, session, redo, edits)
           /\ undo \in Seq(Sessions) /\ redo \in Seq(Sessions) /\ session \in Sessions
           /\ Admitted(session, edits) /\ edits \in Nat
           /\ bytes = Total(undo) + Total(redo)
           /\ Total(undo) \in Nat /\ Total(redo) \in Nat /\ Size(session) \in Nat
  <1>1. /\ Whole(undo, session, redo, edits) /\ bytes = Total(undo) + Total(redo)
        /\ edits \in Nat
    BY BoundAssumption DEF KeptInv, HistoryInv, Exact
  <1>2. /\ undo \in Seq(Sessions) /\ redo \in Seq(Sessions)
        /\ Admitted(session, edits) /\ session \in Sessions
    BY <1>1 DEF Whole, Admitted
  <1> QED
    BY <1>1, <1>2, TotalTyped, SizeTyped

\* The rest of the invariant when the session changes and becomes dirty.
LEMMA ChangedKept ==
    ASSUME KeptInv, HistoryInv', Changed, edits' \in 0..MaxEdits, edits <= edits', visits' = visits
    PROVE  KeptInv'
  <1>1. stored' # NoSession => Admitted(stored', edits')
    <2>1. edits \in Nat /\ edits' \in Nat
      BY BoundAssumption DEF KeptInv
    <2> QED
      BY <2>1, AdmittedLater DEF KeptInv, Changed
  <1> QED
    BY <1>1 DEF KeptInv, Changed, SavedIsStored

LEMMA CommitKept ==
    ASSUME KeptInv, NEW next, Commit(next), Admitted(next, edits + 1), After(session, next),
           visits' = visits
    PROVE  KeptInv'
  <1>1. PICK h : h = [undo |-> Append(undo, session), redo |-> <<>>,
                      bytes |-> bytes - Total(redo) + Size(session)]
    OBVIOUS
  <1>2. KeepHistory(h) /\ session' = next /\ edits' = edits + 1 /\ edits < MaxEdits /\ Changed
    BY <1>1 DEF Commit, Record
  <1>3. Whole(h.undo, next, h.redo, edits + 1)
    BY <1>1, KeptTypes, RecordWhole
  <1>4. h.bytes = Total(h.undo) + Total(h.redo)
    <2>1. Total(Append(undo, session)) = Total(undo) + Size(session)
      BY KeptTypes, TotalOfOneMore
    <2>2. h.bytes = bytes - Total(redo) + Size(session) /\ h.undo = Append(undo, session) /\ h.redo = <<>>
      BY <1>1
    <2>3. Total(h.undo) = Total(undo) + Size(session) /\ Total(h.redo) = 0
      BY <2>1, <2>2, TotalOfNone
    <2> QED
      BY <2>2, <2>3, KeptTypes
  <1>5. HistoryInv'
    BY <1>2, <1>3, <1>4, KeptHistory
  <1>6. edits' \in 0..MaxEdits /\ edits <= edits'
    BY <1>2, KeptTypes, BoundAssumption
  <1> QED
    BY <1>2, <1>5, <1>6, ChangedKept

LEMMA UndoKept ==
    ASSUME KeptInv, NavigateUndo, visits' = visits
    PROVE  KeptInv'
  <1>1. PICK h : h = [undo |-> Front(undo), redo |-> Append(redo, session),
                      bytes |-> bytes - Size(Last(undo)) + Size(session)]
    OBVIOUS
  <1>2. KeepHistory(h) /\ session' = Last(undo) /\ edits' = edits /\ undo # <<>> /\ Changed
    BY <1>1 DEF NavigateUndo
  <1>3. Whole(h.undo, Last(undo), h.redo, edits)
    BY <1>1, <1>2, KeptTypes, UndoWhole
  <1>4. h.bytes = Total(h.undo) + Total(h.redo)
    <2>1. Total(Append(redo, session)) = Total(redo) + Size(session)
      BY KeptTypes, TotalOfOneMore
    <2>2. /\ Total(undo) = Total(Front(undo)) + Size(Last(undo))
          /\ Total(Front(undo)) \in Nat /\ Size(Last(undo)) \in Nat
      BY <1>2, KeptTypes, TotalOfFront, TotalTyped, SizeTyped
    <2>3. /\ h.bytes = bytes - Size(Last(undo)) + Size(session)
          /\ h.undo = Front(undo) /\ h.redo = Append(redo, session)
      BY <1>1
    <2>4. Total(h.undo) = Total(Front(undo)) /\ Total(h.redo) = Total(redo) + Size(session)
      BY <2>1, <2>3
    <2> QED
      BY <2>2, <2>3, <2>4, KeptTypes
  <1>5. HistoryInv'
    BY <1>2, <1>3, <1>4, KeptHistory
  <1>6. edits' \in 0..MaxEdits /\ edits <= edits'
    BY <1>2 DEF KeptInv
  <1> QED
    BY <1>2, <1>5, <1>6, ChangedKept

LEMMA RedoKept ==
    ASSUME KeptInv, NavigateRedo, visits' = visits
    PROVE  KeptInv'
  <1>1. PICK h : h = [undo |-> Append(undo, session), redo |-> Front(redo),
                      bytes |-> bytes - Size(Last(redo)) + Size(session)]
    OBVIOUS
  <1>2. KeepHistory(h) /\ session' = Last(redo) /\ edits' = edits /\ redo # <<>> /\ Changed
    BY <1>1 DEF NavigateRedo
  <1>3. Whole(h.undo, Last(redo), h.redo, edits)
    BY <1>1, <1>2, KeptTypes, RedoWhole
  <1>4. h.bytes = Total(h.undo) + Total(h.redo)
    <2>1. Total(Append(undo, session)) = Total(undo) + Size(session)
      BY KeptTypes, TotalOfOneMore
    <2>2. /\ Total(redo) = Total(Front(redo)) + Size(Last(redo))
          /\ Total(Front(redo)) \in Nat /\ Size(Last(redo)) \in Nat
      BY <1>2, KeptTypes, TotalOfFront, TotalTyped, SizeTyped
    <2>3. /\ h.bytes = bytes - Size(Last(redo)) + Size(session)
          /\ h.undo = Append(undo, session) /\ h.redo = Front(redo)
      BY <1>1
    <2>4. Total(h.redo) = Total(Front(redo)) /\ Total(h.undo) = Total(undo) + Size(session)
      BY <2>1, <2>3
    <2> QED
      BY <2>2, <2>3, <2>4, KeptTypes
  <1>5. HistoryInv'
    BY <1>2, <1>3, <1>4, KeptHistory
  <1>6. edits' \in 0..MaxEdits /\ edits <= edits'
    BY <1>2 DEF KeptInv
  <1> QED
    BY <1>2, <1>5, <1>6, ChangedKept

\* Whatever workspace is committed, if it fits the present one.
LEMMA WorkspaceKept ==
    ASSUME KeptInv, NEW ws, Candidate(session.workspace, ws, edits), CommitWorkspace(ws),
           visits' = visits
    PROVE  KeptInv' /\ session'.workspace = ws
  <1>1. Acyclic(ws) /\ Commit(Revised(session, ws))
    BY DEF CommitWorkspace, Revised
  <1>2. Size(Revised(session, ws)) <= MaxSessionBytes /\ session' = Revised(session, ws)
    BY <1>1 DEF Commit
  <1>3. /\ Admitted(Revised(session, ws), edits + 1)
        /\ After(session, Revised(session, ws))
        /\ Revised(session, ws).workspace = ws
    BY <1>1, <1>2, KeptTypes, RevisedAdmitted
  <1> QED
    BY <1>1, <1>2, <1>3, CommitKept

LEMMA NothingKept ==
    ASSUME KeptInv, UNCHANGED <<session, history, persistence, edits, visits>>
    PROVE  KeptInv' /\ session' = session
  BY DEF KeptInv, HistoryInv, SavedIsStored, history, persistence

\* An edit of the workspace: nothing changes, or the nodes are those of the candidate.
LEMMA CandidateKept ==
    ASSUME KeptInv, NEW ws, Candidate(session.workspace, ws, edits), CommitCandidate(ws),
           visits' = visits
    PROVE  KeptInv' /\ session'.workspace.nodes = ws.nodes
  <1>1. CASE ws = session.workspace
    <2>1. UNCHANGED <<session, history, persistence, edits, visits>>
      BY <1>1 DEF CommitCandidate
    <2> QED
      BY <1>1, <2>1, NothingKept
  <1>2. CASE ws # session.workspace
    <2>1. CommitWorkspace(Dated(ws, edits))
      BY <1>2 DEF CommitCandidate, Dated
    <2>2. Candidate(session.workspace, Dated(ws, edits), edits) /\ Dated(ws, edits).nodes = ws.nodes
      BY KeptTypes, DatedFits
    <2> QED
      BY <2>1, <2>2, WorkspaceKept
  <1> QED
    BY <1>1, <1>2

\* An edit of the probes keeps the workspace.
LEMMA ProbesKept ==
    ASSUME KeptInv, NEW p, SoundProbes(p, session.workspace), CommitProbes(p), visits' = visits
    PROVE  KeptInv' /\ session'.workspace = session.workspace
  <1>1. PICK next : next = [session EXCEPT !.probes = p]
    OBVIOUS
  <1>2. TriggerFits(p) /\ Commit(next)
    BY <1>1 DEF CommitProbes
  <1>3. session \in Sessions /\ Admitted(session, edits) /\ edits \in Nat /\ p \in Sidecars
    BY KeptTypes DEF SoundProbes
  <1>4. /\ next \in Sessions /\ next.workspace = session.workspace /\ next.probes = p
        /\ next.component = session.component
    BY <1>1, <1>3 DEF Sessions
  <1>5. ValidProbes(p, session.workspace)
    BY <1>2, <1>3, SoundIsValidProbes
  <1>6. Size(next) <= MaxSessionBytes /\ session' = next
    BY <1>2 DEF Commit
  <1>7. session.workspace.line <= edits + 1
    BY <1>3 DEF Admitted, Sessions, Workspaces
  <1>8. Admitted(next, edits + 1)
    BY <1>3, <1>4, <1>5, <1>6, <1>7 DEF Admitted, ValidSession
  <1>9. After(session, next)
    BY <1>3, <1>4, StaysAfter DEF After, Sessions
  <1> QED
    BY <1>2, <1>4, <1>6, <1>8, <1>9, CommitKept

LEMMA JobsKept ==
    ASSUME KeptInv, NEW jobs \in {0, 1}, EditJobs(jobs), visits' = visits
    PROVE  KeptInv' /\ session'.workspace = session.workspace /\ pending' = pending
  <1>1. PICK next : next = [session EXCEPT !.jobs = jobs]
    OBVIOUS
  <1>2. Commit(next) /\ pending' = pending
    BY <1>1 DEF EditJobs
  <1>3. session \in Sessions /\ Admitted(session, edits) /\ edits \in Nat /\ jobs \in Int
    BY KeptTypes
  <1>4. /\ next \in Sessions /\ next.workspace = session.workspace
        /\ next.probes = session.probes /\ next.component = session.component
    BY <1>1, <1>3 DEF Sessions
  <1>5. Size(next) <= MaxSessionBytes /\ session' = next
    BY <1>2 DEF Commit
  <1>6. session.workspace.line <= edits + 1
    BY <1>3 DEF Admitted, Sessions, Workspaces
  <1>7. Admitted(next, edits + 1)
    BY <1>3, <1>4, <1>5, <1>6 DEF Admitted, ValidSession
  <1>8. After(session, next)
    BY <1>3, <1>4, StaysAfter DEF After, Sessions
  <1> QED
    BY <1>2, <1>4, <1>5, <1>7, <1>8, CommitKept

LEMMA ComponentKept ==
    ASSUME KeptInv, NEW text \in Texts, EditComponent(text), visits' = visits
    PROVE  KeptInv' /\ session'.workspace = session.workspace /\ pending' = pending
  <1> DEFINE piece == [session.component EXCEPT !.text = text]
  <1>1. PICK next : next = [session EXCEPT !.component.text = text]
    OBVIOUS
  <1>2. Commit(next) /\ pending' = pending /\ session.component # NoComponent
    BY <1>1 DEF EditComponent
  <1>3. session \in Sessions /\ Admitted(session, edits) /\ edits \in Nat /\ text \in Int
    BY KeptTypes, BoundAssumption
  <1>4. piece \in Components /\ piece.of = session.component.of
    BY <1>3 DEF Sessions, Components
  <1>5. /\ next \in Sessions /\ next.workspace = session.workspace
        /\ next.probes = session.probes /\ next.component = piece
    BY <1>1, <1>3, <1>4 DEF Sessions
  <1>6. next.component # NoComponent => next.component.of = session.workspace.digest
    BY <1>2, <1>3, <1>4, <1>5 DEF Admitted, ValidSession
  <1>7. Size(next) <= MaxSessionBytes /\ session' = next
    BY <1>2 DEF Commit
  <1>8. session.workspace.line <= edits + 1
    BY <1>3 DEF Admitted, Sessions, Workspaces
  <1>9. Admitted(next, edits + 1)
    BY <1>3, <1>5, <1>6, <1>7, <1>8 DEF Admitted, ValidSession
  <1>10. After(session, next)
    BY <1>3, <1>5, StaysAfter DEF After, Sessions
  <1> QED
    BY <1>2, <1>5, <1>7, <1>9, <1>10, CommitKept

\* A session that comes from outside starts a history.
LEMMA RestoreKept ==
    ASSUME KeptInv, NEW s, Restore(s), Admitted(s, edits'), edits' \in 0..MaxEdits, edits <= edits',
           dirty' \in BOOLEAN, attempted' \in BOOLEAN, visits' \in 0..MaxVisits,
           stored' = stored, ~ dirty' => stored = s
    PROVE  KeptInv'
  <1>1. Whole(<<>>, s, <<>>, edits') /\ Exact(<<>>, <<>>, 0)
    BY NoHistory
  <1>2. HistoryInv'
    BY <1>1 DEF HistoryInv, Restore
  <1>3. stored' # NoSession => Admitted(stored', edits')
    <2>1. edits \in Nat /\ edits' \in Nat
      BY BoundAssumption DEF KeptInv
    <2> QED
      BY <2>1, AdmittedLater DEF KeptInv
  <1> QED
    BY <1>2, <1>3 DEF KeptInv, SavedIsStored, Restore

LEMMA ReferenceAdmitted ==
    ASSUME NEW done \in Nat
    PROVE  Admitted(Reference, done)
  <1> DEFINE nodes == [n \in {1} |-> [made |-> 0, text |-> 0]]
             ws == [line |-> 0, digest |-> 0, nextNode |-> 2, nextWire |-> 1,
                    nodes |-> nodes, wires |-> <<>>]
             probes == [i \in {1} |-> [source |-> 1, capture |-> MaxSamples]]
             p == [EmptyProbes(ws) EXCEPT !.next = 2, !.probes = probes]
  <1>1. Reference = SessionOf(ws, p, 0, NoComponent)
    BY DEF Reference
  <1>2. 1 \in Ids /\ {1} \in SUBSET Ids /\ 2 \in Cursors /\ 1 \in Cursors /\ MaxSamples \in 1..MaxSamples
    BY BoundAssumption DEF Ids, Cursors
  <1>3. nodes \in Partial(Ids, Nodes) /\ DOMAIN nodes = {1}
    <2>1. nodes \in [{1} -> Nodes]
      BY DEF Nodes
    <2> QED
      BY <1>2, <2>1 DEF Partial
  <1>4. probes \in Partial(Ids, Probes) /\ DOMAIN probes = {1} /\ probes[1].source = 1
    <2>1. probes \in [{1} -> Probes]
      BY <1>2 DEF Probes
    <2> QED
      BY <1>2, <2>1 DEF Partial
  <1>5. <<>> \in Partial(Ids, Wires) /\ DOMAIN <<>> = {}
    BY NothingPartial
  <1> HIDE DEF nodes, probes
  <1>6. ws \in Workspaces
    BY <1>2, <1>3, <1>5 DEF Workspaces
  <1>7. Sound(ws)
    BY <1>3, <1>5, <1>6 DEF Sound
  <1>8. Acyclic(ws)
    BY <1>5 DEF Acyclic
  <1>9. SoundProbes(EmptyProbes(ws), ws) /\ EmptyProbes(ws) \in Sidecars /\ ws.nodes = nodes
    BY <1>6, EmptySound DEF SoundProbes
  <1>10. /\ ws.line = 0 /\ DOMAIN ws.nodes = {1} /\ DOMAIN ws.wires = {}
    BY <1>3, <1>5
  <1> HIDE DEF ws
  <1>11. /\ p \in Sidecars /\ p.next = 2 /\ p.probes = probes /\ p.of = ws.digest
         /\ p.trigger = NoTrigger
    BY <1>2, <1>4, <1>9 DEF Sidecars, SoundProbes, EmptyProbes
  <1> HIDE DEF p
  <1>12. SoundProbes(p, ws) /\ TriggerFits(p)
    BY <1>4, <1>10, <1>11 DEF SoundProbes, TriggerFits
  <1>13. Size(SessionOf(ws, p, 0, NoComponent)) <= MaxSessionBytes
    <2>1. /\ Cardinality(DOMAIN ws.nodes) = 1 /\ Cardinality(DOMAIN ws.wires) = 0
          /\ Cardinality(DOMAIN p.probes) = 1
      BY <1>4, <1>10, <1>11, FS_EmptySet, FS_Singleton
    <2>2. Size(SessionOf(ws, p, 0, NoComponent)) <= 4
      BY <2>1 DEF Size, SessionOf
    <2>3. Size(SessionOf(ws, p, 0, NoComponent)) \in Int
      BY <2>1 DEF Size, SessionOf
    <2> QED
      BY <2>2, <2>3, BoundAssumption
  <1>14. ws.line <= done
    BY <1>10
  <1> QED
    BY <1>1, <1>7, <1>8, <1>12, <1>13, <1>14, NoComponentTyped, MadeAdmitted

\* A reset of the draft starts another line.
LEMMA ResetFits ==
    ASSUME NEW old \in Workspaces, old.line <= edits, edits \in Nat
    PROVE  Candidate(old, [Reference.workspace EXCEPT !.line = edits + 1], edits)
  <1>1. PICK ws : ws = Reference.workspace
    OBVIOUS
  <1>2. Sound(ws)
    BY <1>1, ReferenceAdmitted, SoundIsValid DEF Admitted, ValidSession, Sessions
  <1>3. PICK new : new = [ws EXCEPT !.line = edits + 1]
    OBVIOUS
  <1>4. /\ new \in Workspaces /\ new.line = edits + 1 /\ new.nodes = ws.nodes
        /\ new.wires = ws.wires /\ new.nextNode = ws.nextNode /\ new.nextWire = ws.nextWire
    BY <1>2, <1>3 DEF Sound, Workspaces
  <1>5. Sound(new) /\ Follows(old, new)
    BY <1>2, <1>4 DEF Sound, Follows, Workspaces
  <1> QED
    BY <1>1, <1>3, <1>4, <1>5 DEF Candidate

LEMMA ImportKept ==
    ASSUME KeptInv, NEW f \in Foreign, ImportSession(f), visits' = visits
    PROVE  KeptInv'
  <1>1. PICK ws : ws = Imported(f)
    OBVIOUS
  <1>2. /\ edits < MaxEdits /\ edits' = edits + 1 /\ Acyclic(ws)
        /\ Size(SessionOf(ws, EmptyProbes(ws), 0, NoComponent)) <= MaxSessionBytes
        /\ Restore(SessionOf(ws, EmptyProbes(ws), 0, NoComponent)) /\ Changed
    BY <1>1 DEF ImportSession
  <1>3. /\ Admitted(session, edits) /\ edits \in Nat
        /\ edits' \in 0..MaxEdits /\ edits <= edits'
    BY <1>2, KeptTypes, BoundAssumption
  <1>4. Sound(session.workspace) /\ session.workspace.line <= edits
    BY <1>3, SoundIsValid DEF Admitted, ValidSession, Sessions
  <1>5. Sound(ws) /\ ws.line <= edits + 1 /\ ws \in Workspaces
    BY <1>1, <1>3, <1>4, ImportedFits DEF Candidate, Sound
  <1>6. SoundProbes(EmptyProbes(ws), ws) /\ TriggerFits(EmptyProbes(ws))
    BY <1>5, EmptySound
  <1>7. Admitted(SessionOf(ws, EmptyProbes(ws), 0, NoComponent), edits')
    BY <1>2, <1>5, <1>6, NoComponentTyped, MadeAdmitted
  <1>8. /\ dirty' = TRUE /\ attempted' = FALSE /\ stored' = stored /\ visits' \in 0..MaxVisits
    BY <1>2 DEF Changed, KeptInv
  <1> QED
    BY <1>2, <1>3, <1>7, <1>8, RestoreKept

LEMMA SessionParts ==
    ASSUME KeptInv
    PROVE  /\ Sound(session.workspace) /\ session.workspace.line <= edits /\ edits \in Nat
           /\ session.workspace \in Workspaces
           /\ session.probes \in Sidecars /\ ValidProbes(session.probes, session.workspace)
           /\ DOMAIN session.workspace.nodes \subseteq 1..MaxId
  <1>1. session \in Sessions /\ Admitted(session, edits) /\ edits \in Nat
    BY KeptTypes
  <1>2. session.workspace \in Workspaces /\ session.probes \in Sidecars
    BY <1>1 DEF Sessions
  <1>3. DOMAIN session.workspace.nodes \subseteq 1..MaxId
    <2>1. session.workspace.nodes \in Partial(Ids, Nodes)
      BY <1>2 DEF Workspaces
    <2> QED
      BY <2>1, PartialTyped DEF Ids
  <1> QED
    BY <1>1, <1>2, <1>3, SoundIsValid DEF Admitted, ValidSession

LEMMA WorkspaceEditKept ==
    ASSUME SessionInv, visits' = visits,
           \/ CreateNode
           \/ \E n \in 1..MaxId : DeleteNode(n) \/ ConnectInput(n) \/ DisconnectInput(n)
           \/ \E n \in 1..MaxId, text \in Texts : EditNode(n, text)
           \/ \E f \in Foreign : ImportWorkspace(f)
           \/ ResetDraft
    PROVE  SessionInv'
  <1> DEFINE ws == session.workspace
  <1>1. KeptInv /\ PendingIsLive /\ pending \in 0..MaxId
    BY DEF SessionInv
  <1>2. Sound(ws) /\ ws.line <= edits /\ edits \in Nat /\ ws \in Workspaces
    BY <1>1, SessionParts
  <1>3. 0 \in 0..MaxId
    BY BoundAssumption
  <1>4. CASE CreateNode
    <2>1. Candidate(ws, NodeCreated(ws), edits)
      BY <1>2, <1>4, NodeCreatedFits DEF CreateNode
    <2>2. KeptInv' /\ pending' = 0
      BY <1>1, <1>4, <2>1, CandidateKept DEF CreateNode
    <2> QED
      BY <1>3, <2>2 DEF SessionInv, PendingIsLive
  <1>5. ASSUME NEW n \in 1..MaxId, DeleteNode(n) PROVE SessionInv'
    <2>1. Candidate(ws, NodeDeleted(ws, n), edits)
      BY <1>2, NodeDeletedFits
    <2>2. KeptInv' /\ session'.workspace.nodes = NodeDeleted(ws, n).nodes
      BY <1>1, <1>5, <2>1, CandidateKept DEF DeleteNode
    <2>3. NodeDeleted(ws, n).nodes = Without(ws.nodes, {n})
      <3> HIDE DEF ws
      <3> QED
        BY <1>2 DEF NodeDeleted, Workspaces
    <2>4. DOMAIN session'.workspace.nodes = DOMAIN ws.nodes \ {n}
      BY <2>2, <2>3 DEF Without
    <2>5. pending' = IF pending = n THEN 0 ELSE pending
      BY <1>5 DEF DeleteNode
    <2>6. PendingIsLive'
      BY <1>1, <2>4, <2>5 DEF PendingIsLive
    <2> QED
      BY <1>1, <1>3, <2>2, <2>5, <2>6 DEF SessionInv
  <1>6. ASSUME NEW n \in 1..MaxId, ConnectInput(n) PROVE SessionInv'
    <2>1. Candidate(ws, Connected(ws, pending, n), edits)
      BY <1>2, <1>6, ConnectedFits DEF ConnectInput
    <2>2. KeptInv' /\ pending' = 0
      BY <1>1, <1>6, <2>1, CandidateKept DEF ConnectInput
    <2> QED
      BY <1>3, <2>2 DEF SessionInv, PendingIsLive
  <1>7. ASSUME NEW w \in 1..MaxId, DisconnectInput(w) PROVE SessionInv'
    <2>1. Candidate(ws, [ws EXCEPT !.wires = Without(@, {w})], edits)
      BY <1>2, DisconnectedFits
    <2>2. KeptInv' /\ pending' = 0
      BY <1>1, <1>7, <2>1, CandidateKept DEF DisconnectInput
    <2> QED
      BY <1>3, <2>2 DEF SessionInv, PendingIsLive
  <1>8. ASSUME NEW n \in 1..MaxId, NEW text \in Texts, EditNode(n, text) PROVE SessionInv'
    <2>1. n \in DOMAIN ws.nodes /\ text \in Nat
      BY <1>8, BoundAssumption DEF EditNode
    <2>2. /\ Candidate(ws, [ws EXCEPT !.nodes[n].text = text], edits)
          /\ DOMAIN [ws EXCEPT !.nodes[n].text = text].nodes = DOMAIN ws.nodes
      BY <1>2, <2>1, EditedFits
    <2>3. PICK more : more = [ws EXCEPT !.nodes[n].text = text]
      OBVIOUS
    <2>4. Candidate(ws, more, edits) /\ DOMAIN more.nodes = DOMAIN ws.nodes
      BY <2>2, <2>3
    <2>5. CommitCandidate(more) /\ pending' = pending
      BY <1>8, <2>3 DEF EditNode
    <2>6. KeptInv' /\ session'.workspace.nodes = more.nodes
      BY <1>1, <2>4, <2>5, CandidateKept
    <2> QED
      BY <1>1, <2>4, <2>5, <2>6 DEF SessionInv, PendingIsLive
  <1>9. ASSUME NEW f \in Foreign, ImportWorkspace(f) PROVE SessionInv'
    <2>1. Candidate(ws, Imported(f), edits)
      BY <1>2, ImportedFits
    <2>2. KeptInv' /\ pending' = 0
      BY <1>1, <1>9, <2>1, CandidateKept DEF ImportWorkspace
    <2> QED
      BY <1>3, <2>2 DEF SessionInv, PendingIsLive
  <1>10. CASE ResetDraft
    <2>1. PICK new : new = [Reference.workspace EXCEPT !.line = edits + 1]
      OBVIOUS
    <2>2. /\ pending' = 0
          /\ CommitWorkspace(new) \/ UNCHANGED <<session, history, persistence, edits, visits>>
      BY <1>10, <2>1 DEF ResetDraft
    <2>3. Candidate(ws, new, edits)
      BY <1>2, <2>1, ResetFits
    <2>4. KeptInv'
      BY <1>1, <2>2, <2>3, WorkspaceKept, NothingKept
    <2> QED
      BY <1>3, <2>2, <2>4 DEF SessionInv, PendingIsLive
  <1> QED
    BY <1>4, <1>5, <1>6, <1>7, <1>8, <1>9, <1>10

\* The probes of the current sidecar, with another set of them or another trigger.
LEMMA ProbeEditSound ==
    ASSUME NEW p \in Sidecars, NEW ws, ValidProbes(p, ws), DOMAIN ws.nodes \subseteq Ids
    PROVE  /\ \A n \in DOMAIN ws.nodes :
                 p.next <= MaxId /\ (\A i \in DOMAIN p.probes : p.probes[i].source # n) =>
                 SoundProbes([p EXCEPT
                     !.probes = With(@, p.next, [source |-> n, capture |-> MaxSamples]),
                     !.next = @ + 1], ws)
           /\ \A i \in Ids, t \in [probe : Nat, window : Nat] :
                 SoundProbes([p EXCEPT !.probes = Without(@, {i}), !.trigger = t], ws)
           /\ \A i \in DOMAIN p.probes, c \in 1..MaxSamples :
                 SoundProbes([p EXCEPT !.probes[i].capture = c], ws)
           /\ \A t \in [probe : Nat, window : Nat] : SoundProbes([p EXCEPT !.trigger = t], ws)
  <1>1. /\ SoundProbes(p, ws) /\ p.probes \in Partial(Ids, Probes) /\ p.next \in Int
        /\ DOMAIN p.probes \subseteq Int /\ p.next \in Cursors
    <2>1. SoundProbes(p, ws)
      BY SoundIsValidProbes
    <2>2. p.probes \in Partial(Ids, Probes) /\ p.next \in Cursors
      BY DEF Sidecars
    <2>3. DOMAIN p.probes \subseteq Ids
      BY <2>2, PartialTyped
    <2> QED
      BY <2>1, <2>2, <2>3 DEF Cursors, Ids
  <1>2. ASSUME NEW n \in DOMAIN ws.nodes, p.next <= MaxId,
               \A i \in DOMAIN p.probes : p.probes[i].source # n
        PROVE  SoundProbes([p EXCEPT
                   !.probes = With(@, p.next, [source |-> n, capture |-> MaxSamples]),
                   !.next = @ + 1], ws)
    <2>1. PICK probe : probe = [source |-> n, capture |-> MaxSamples]
      OBVIOUS
    <2>2. probe \in Probes /\ p.next \in Ids /\ p.next + 1 \in Cursors
      BY <1>1, <1>2, <2>1, BoundAssumption DEF Probes, Ids, Cursors
    <2>3. PICK probes : probes = With(p.probes, p.next, probe)
      OBVIOUS
    <2>4. /\ DOMAIN probes = DOMAIN p.probes \cup {p.next} /\ probes[p.next] = probe
          /\ \A j \in DOMAIN p.probes : j # p.next => probes[j] = p.probes[j]
      BY <2>3 DEF With
    <2>5. probes \in Partial(Ids, Probes)
      BY <1>1, <2>2, <2>3, PartialMore
    <2>6. PICK more : more = [p EXCEPT !.probes = probes, !.next = p.next + 1]
      OBVIOUS
    <2>7. /\ more \in Sidecars /\ more.probes = probes /\ more.next = p.next + 1
          /\ more.of = p.of
      BY <2>2, <2>5, <2>6 DEF Sidecars
    <2>8. \A j \in DOMAIN p.probes : j < p.next /\ j # p.next
      BY <1>1 DEF SoundProbes
    <2>9. ASSUME NEW i \in DOMAIN probes
          PROVE  i < p.next + 1 /\ probes[i].source \in DOMAIN ws.nodes
      <3>1. CASE i = p.next
        BY <1>1, <2>1, <2>4, <3>1
      <3>2. CASE i # p.next
        BY <1>1, <2>4, <2>8, <3>2 DEF SoundProbes
      <3> QED
        BY <3>1, <3>2
    <2>10. ASSUME NEW i \in DOMAIN probes, NEW j \in DOMAIN probes, probes[j].source = probes[i].source
           PROVE  j = i
      <3>1. probes[p.next].source = n
        BY <2>1, <2>4
      <3>2. \A k \in DOMAIN p.probes : probes[k].source # n
        BY <1>2, <2>4, <2>8
      <3>3. CASE i \in DOMAIN p.probes /\ j \in DOMAIN p.probes
        BY <1>1, <2>4, <2>8, <2>10, <3>3 DEF SoundProbes
      <3> QED
        BY <2>4, <2>10, <3>1, <3>2, <3>3
    <2>11. SoundProbes(more, ws)
      BY <1>1, <2>7, <2>9, <2>10 DEF SoundProbes
    <2> QED
      BY <2>1, <2>3, <2>6, <2>11
  <1>3. ASSUME NEW i \in Ids, NEW t \in [probe : Nat, window : Nat]
        PROVE  SoundProbes([p EXCEPT !.probes = Without(@, {i}), !.trigger = t], ws)
    <2>1. PICK probes : probes = Without(p.probes, {i})
      OBVIOUS
    <2>2. /\ DOMAIN probes = DOMAIN p.probes \ {i}
          /\ \A j \in DOMAIN probes : probes[j] = p.probes[j]
      BY <2>1 DEF Without
    <2>3. probes \in Partial(Ids, Probes)
      BY <1>1, <2>1, PartialLess
    <2>4. PICK less : less = [p EXCEPT !.probes = probes, !.trigger = t]
      OBVIOUS
    <2>5. less \in Sidecars /\ less.probes = probes /\ less.next = p.next /\ less.of = p.of
      BY <2>3, <2>4 DEF Sidecars
    <2>6. SoundProbes(less, ws)
      BY <1>1, <2>2, <2>5 DEF SoundProbes
    <2> QED
      BY <2>1, <2>4, <2>6
  <1>4. ASSUME NEW i \in DOMAIN p.probes, NEW c \in 1..MaxSamples
        PROVE  SoundProbes([p EXCEPT !.probes[i].capture = c], ws)
    <2>1. PICK probe : probe = [p.probes[i] EXCEPT !.capture = c]
      OBVIOUS
    <2>2. probe \in Probes /\ probe.source = p.probes[i].source
      <3>1. p.probes[i] \in Probes
        BY <1>1, PartialTyped
      <3> QED
        BY <2>1, <3>1 DEF Probes
    <2>3. PICK probes : probes = [p.probes EXCEPT ![i] = probe]
      OBVIOUS
    <2>4. probes \in Partial(Ids, Probes)
      BY <1>1, <2>2, <2>3, PartialOther
    <2>5. /\ DOMAIN probes = DOMAIN p.probes
          /\ \A j \in DOMAIN probes : probes[j].source = p.probes[j].source
      BY <2>2, <2>3
    <2>6. PICK more : more = [p EXCEPT !.probes = probes]
      OBVIOUS
    <2>7. more \in Sidecars /\ more.probes = probes /\ more.next = p.next /\ more.of = p.of
      BY <2>4, <2>6 DEF Sidecars
    <2>8. SoundProbes(more, ws)
      BY <1>1, <2>5, <2>7 DEF SoundProbes
    <2> QED
      BY <2>1, <2>3, <2>6, <2>8
  <1>5. ASSUME NEW t \in [probe : Nat, window : Nat]
        PROVE  SoundProbes([p EXCEPT !.trigger = t], ws)
    BY <1>1 DEF SoundProbes, Sidecars
  <1> QED
    BY <1>2, <1>3, <1>4, <1>5

LEMMA ImportedProbesSound ==
    ASSUME NEW ws \in Workspaces, NEW n \in DOMAIN ws.nodes, DOMAIN ws.nodes \subseteq Ids
    PROVE  SoundProbes([EmptyProbes(ws) EXCEPT
              !.next = MaxId + 1,
              !.probes = With(@, MaxId, [source |-> n, capture |-> MaxSamples])], ws)
  <1>1. PICK probe : probe = [source |-> n, capture |-> MaxSamples]
    OBVIOUS
  <1>2. probe \in Probes /\ MaxId \in Ids /\ MaxId + 1 \in Cursors
    BY <1>1, BoundAssumption DEF Probes, Ids, Cursors
  <1>3. PICK p : p = EmptyProbes(ws)
    OBVIOUS
  <1>4. p \in Sidecars /\ p.of = ws.digest /\ p.probes = <<>>
    BY <1>3, EmptySound DEF SoundProbes, EmptyProbes
  <1>5. PICK probes : probes = With(p.probes, MaxId, probe)
    OBVIOUS
  <1>6. DOMAIN probes = {MaxId} /\ probes[MaxId] = probe
    BY <1>4, <1>5, NothingPartial DEF With
  <1>7. probes \in Partial(Ids, Probes)
    BY <1>2, <1>4, <1>5, NothingPartial, PartialMore
  <1>8. PICK more : more = [p EXCEPT !.next = MaxId + 1, !.probes = probes]
    OBVIOUS
  <1>9. more \in Sidecars /\ more.probes = probes /\ more.next = MaxId + 1 /\ more.of = ws.digest
    BY <1>2, <1>4, <1>7, <1>8 DEF Sidecars
  <1>10. MaxId < MaxId + 1
    BY BoundAssumption
  <1>11. SoundProbes(more, ws)
    BY <1>1, <1>6, <1>9, <1>10 DEF SoundProbes
  <1> QED
    BY <1>1, <1>3, <1>5, <1>8, <1>11

LEMMA ProbeEditKept ==
    ASSUME SessionInv, visits' = visits,
           \/ \E n \in 1..MaxId : AddProbe(n) \/ RemoveProbe(n)
           \/ \E n \in 1..MaxId, capture \in 1..MaxSamples : ReplaceProbeMetadata(n, capture)
           \/ \E n \in 1..MaxId, window \in Windows : SetTrigger(n, window)
           \/ ClearTrigger
           \/ \E n \in Watched : ImportProbes(n)
    PROVE  SessionInv'
  <1> DEFINE ws == session.workspace
             p == session.probes
  <1>1. KeptInv /\ PendingIsLive /\ pending \in 0..MaxId
    BY DEF SessionInv
  <1>2. /\ ws \in Workspaces /\ p \in Sidecars /\ ValidProbes(p, ws) /\ DOMAIN ws.nodes \subseteq Ids
    BY <1>1, SessionParts DEF Ids
  <1>3. ASSUME NEW q, SoundProbes(q, ws), CommitProbes(q) PROVE SessionInv'
    <2>1. KeptInv' /\ session'.workspace = ws
      BY <1>1, <1>3, ProbesKept
    <2>2. pending' = pending
      BY <1>3 DEF CommitProbes
    <2> QED
      BY <1>1, <2>1, <2>2 DEF SessionInv, PendingIsLive
  <1>4. NoTrigger \in [probe : Nat, window : Nat]
    BY DEF NoTrigger
  <1>5. ASSUME NEW n \in 1..MaxId, AddProbe(n) PROVE SessionInv'
    <2>1. PICK q : q = [p EXCEPT
              !.probes = With(@, p.next, [source |-> n, capture |-> MaxSamples]), !.next = @ + 1]
      OBVIOUS
    <2>2. /\ n \in DOMAIN ws.nodes /\ p.next <= MaxId
          /\ \A i \in DOMAIN p.probes : p.probes[i].source # n
          /\ CommitProbes(q)
      BY <1>5, <2>1 DEF AddProbe
    <2>3. SoundProbes(q, ws)
      BY <1>2, <2>1, <2>2, ProbeEditSound
    <2> QED
      BY <1>3, <2>2, <2>3
  <1>6. ASSUME NEW i \in 1..MaxId, RemoveProbe(i) PROVE SessionInv'
    <2>1. PICK t : t = IF p.trigger.probe = i THEN NoTrigger ELSE p.trigger
      OBVIOUS
    <2>2. t \in [probe : Nat, window : Nat]
      BY <1>2, <1>4, <2>1 DEF Sidecars
    <2>3. PICK q : q = [p EXCEPT !.probes = Without(@, {i}), !.trigger = t]
      OBVIOUS
    <2>4. CommitProbes(q)
      BY <1>6, <2>1, <2>3 DEF RemoveProbe
    <2>5. SoundProbes(q, ws)
      BY <1>2, <2>2, <2>3, ProbeEditSound DEF Ids
    <2> QED
      BY <1>3, <2>4, <2>5
  <1>7. ASSUME NEW i \in 1..MaxId, NEW c \in 1..MaxSamples, ReplaceProbeMetadata(i, c)
        PROVE  SessionInv'
    <2>1. PICK q : q = [p EXCEPT !.probes[i].capture = c]
      OBVIOUS
    <2>2. i \in DOMAIN p.probes /\ CommitProbes(q)
      BY <1>7, <2>1 DEF ReplaceProbeMetadata
    <2>3. SoundProbes(q, ws)
      BY <1>2, <2>1, <2>2, ProbeEditSound
    <2> QED
      BY <1>3, <2>2, <2>3
  <1>8. ASSUME NEW t \in [probe : Nat, window : Nat], CommitProbes([p EXCEPT !.trigger = t])
        PROVE  SessionInv'
    <2>1. SoundProbes([p EXCEPT !.trigger = t], ws)
      BY <1>2, ProbeEditSound
    <2> QED
      BY <1>3, <1>8, <2>1
  <1>9. ASSUME NEW i \in 1..MaxId, NEW window \in Windows, SetTrigger(i, window) PROVE SessionInv'
    <2>1. window \in Nat
      BY BoundAssumption
    <2>2. [probe |-> i, window |-> window] \in [probe : Nat, window : Nat]
      BY <2>1
    <2> QED
      BY <1>8, <1>9, <2>2 DEF SetTrigger
  <1>10. CASE ClearTrigger
    BY <1>4, <1>8, <1>10 DEF ClearTrigger
  <1>11. ASSUME NEW n \in Watched, ImportProbes(n) PROVE SessionInv'
    <2>1. PICK q : q = [EmptyProbes(ws) EXCEPT
              !.next = MaxId + 1,
              !.probes = With(@, MaxId, [source |-> n, capture |-> MaxSamples])]
      OBVIOUS
    <2>2. n \in DOMAIN ws.nodes /\ CommitProbes(q)
      BY <1>11, <2>1 DEF ImportProbes
    <2>3. SoundProbes(q, ws)
      BY <1>2, <2>1, <2>2, ImportedProbesSound
    <2> QED
      BY <1>3, <2>2, <2>3
  <1> QED
    BY <1>5, <1>6, <1>7, <1>9, <1>10, <1>11

LEMMA OtherStepsKept ==
    ASSUME SessionInv,
           \/ visits' = visits /\ (NavigateUndo \/ NavigateRedo)
           \/ visits' = visits /\ \E n \in 1..MaxId : SelectOutput(n)
           \/ visits' = visits /\ \E jobs \in {0, 1} : EditJobs(jobs)
           \/ visits' = visits /\ \E text \in Texts : EditComponent(text)
           \/ visits' = visits /\ \E f \in Foreign : ImportSession(f)
           \/ Save \/ Reload
           \/ UNCHANGED vars
    PROVE  SessionInv'
  <1>1. KeptInv /\ PendingIsLive /\ pending \in 0..MaxId /\ 0 \in 0..MaxId
    BY BoundAssumption DEF SessionInv
  <1>2. CASE visits' = visits /\ NavigateUndo
    <2>1. KeptInv' /\ pending' = 0
      BY <1>1, <1>2, UndoKept DEF NavigateUndo
    <2> QED
      BY <1>1, <2>1 DEF SessionInv, PendingIsLive
  <1>3. CASE visits' = visits /\ NavigateRedo
    <2>1. KeptInv' /\ pending' = 0
      BY <1>1, <1>3, RedoKept DEF NavigateRedo
    <2> QED
      BY <1>1, <2>1 DEF SessionInv, PendingIsLive
  <1>4. ASSUME visits' = visits, NEW n \in 1..MaxId, SelectOutput(n) PROVE SessionInv'
    <2>1. /\ n \in DOMAIN session.workspace.nodes
          /\ pending' = IF pending = n THEN 0 ELSE n
          /\ UNCHANGED <<session, history, persistence, edits, visits>>
      BY <1>4 DEF SelectOutput
    <2>2. KeptInv'
      BY <1>1, <2>1 DEF KeptInv, HistoryInv, SavedIsStored, history, persistence
    <2>3. PendingIsLive' /\ pending' \in 0..MaxId
      BY <1>1, <2>1 DEF PendingIsLive
    <2> QED
      BY <2>2, <2>3 DEF SessionInv
  <1>5. ASSUME visits' = visits, NEW jobs \in {0, 1}, EditJobs(jobs) PROVE SessionInv'
    <2>1. KeptInv' /\ session'.workspace = session.workspace /\ pending' = pending
      BY <1>1, <1>5, JobsKept
    <2> QED
      BY <1>1, <2>1 DEF SessionInv, PendingIsLive
  <1>6. ASSUME visits' = visits, NEW f \in Foreign, ImportSession(f) PROVE SessionInv'
    <2>1. KeptInv'
      BY <1>1, <1>6, ImportKept
    <2>2. pending' = 0
      BY <1>6 DEF ImportSession, Restore
    <2> QED
      BY <1>1, <2>1, <2>2 DEF SessionInv, PendingIsLive
  <1>7. CASE Save
    <2>1. /\ visits < MaxVisits /\ visits' = visits + 1
          /\ \/ stored' = session /\ dirty' = FALSE /\ attempted' = FALSE
             \/ attempted' = TRUE /\ UNCHANGED <<dirty, stored>>
          /\ UNCHANGED <<session, history, pending, edits>>
      BY <1>7 DEF Save
    <2>2. visits' \in 0..MaxVisits
      BY <1>1, <2>1, BoundAssumption DEF KeptInv
    <2>3. HistoryInv' /\ Admitted(session, edits)
      BY <1>1, <2>1, KeptTypes DEF KeptInv, HistoryInv, history
    <2>4. (stored' # NoSession => Admitted(stored', edits')) /\ SavedIsStored'
      BY <1>1, <2>1, <2>3 DEF KeptInv, SavedIsStored
    <2>5. dirty' \in BOOLEAN /\ attempted' \in BOOLEAN /\ edits' \in 0..MaxEdits
      BY <1>1, <2>1 DEF KeptInv
    <2>6. PendingIsLive' /\ pending' \in 0..MaxId
      BY <1>1, <2>1 DEF PendingIsLive
    <2> QED
      BY <2>2, <2>3, <2>4, <2>5, <2>6 DEF SessionInv, KeptInv
  <1>8. CASE Reload
    <2>1. /\ visits < MaxVisits /\ visits' = visits + 1
          /\ \/ stored # NoSession /\ Restore(stored) /\ dirty' = FALSE /\ attempted' = FALSE
             \/ Restore(Reference) /\ dirty' = TRUE /\ attempted' \in {TRUE, FALSE}
          /\ stored' = stored /\ edits' = edits
      BY <1>8 DEF Reload
    <2>2. visits' \in 0..MaxVisits /\ edits' \in 0..MaxEdits /\ edits <= edits' /\ edits \in Nat
      BY <1>1, <2>1, BoundAssumption DEF KeptInv
    <2>3. Admitted(Reference, edits') /\ (stored # NoSession => Admitted(stored, edits'))
      BY <1>1, <2>1, <2>2, ReferenceAdmitted DEF KeptInv
    <2>4. KeptInv' /\ pending' = 0
      <3>1. CASE stored # NoSession /\ Restore(stored) /\ dirty' = FALSE /\ attempted' = FALSE
        BY <1>1, <2>1, <2>2, <2>3, <3>1, RestoreKept DEF Restore
      <3>2. CASE Restore(Reference) /\ dirty' = TRUE /\ attempted' \in {TRUE, FALSE}
        BY <1>1, <2>1, <2>2, <2>3, <3>2, RestoreKept DEF Restore
      <3> QED
        BY <2>1, <3>1, <3>2
    <2> QED
      BY <1>1, <2>4 DEF SessionInv, PendingIsLive
  <1>9. CASE UNCHANGED vars
    BY <1>1, <1>9 DEF SessionInv, PendingIsLive, KeptInv, HistoryInv, SavedIsStored,
                      vars, history, persistence
  <1>10. ASSUME visits' = visits, NEW text \in Texts, EditComponent(text) PROVE SessionInv'
    <2>1. KeptInv' /\ session'.workspace = session.workspace /\ pending' = pending
      BY <1>1, <1>10, ComponentKept
    <2> QED
      BY <1>1, <2>1 DEF SessionInv, PendingIsLive
  <1> QED
    BY <1>2, <1>3, <1>4, <1>5, <1>6, <1>7, <1>8, <1>9, <1>10

-----------------------------------------------------------------------------
(* The invariant and what follows from it.                                 *)

LEMMA SessionInit == Init => SessionInv
  <1> SUFFICES ASSUME Init PROVE SessionInv
    OBVIOUS
  <1>1. Admitted(Reference, 0)
    BY ReferenceAdmitted
  <1>2. HistoryInv
    BY <1>1, NoHistory DEF Init, HistoryInv
  <1>3. 0 \in 0..MaxEdits /\ 0 \in 0..MaxVisits /\ 0 \in 0..MaxId
    BY BoundAssumption
  <1>4. (stored # NoSession => Admitted(stored, edits)) /\ SavedIsStored /\ PendingIsLive
    BY DEF Init, PendingIsLive, SavedIsStored
  <1> QED
    BY <1>2, <1>3, <1>4 DEF Init, SessionInv, KeptInv

LEMMA SessionNext == SessionInv /\ [Next]_vars => SessionInv'
  <1> SUFFICES ASSUME SessionInv, [Next]_vars PROVE SessionInv'
    OBVIOUS
  <1>1. CASE Edit /\ visits' = visits
    BY <1>1, WorkspaceEditKept, ProbeEditKept, OtherStepsKept DEF Edit
  <1>2. CASE ~ (Edit /\ visits' = visits)
    BY <1>2, OtherStepsKept DEF Next
  <1> QED
    BY <1>1, <1>2

LEMMA ValidKeepsIdentities ==
    ASSUME NEW s \in Sessions, NEW t \in Sessions, ValidSession(s), After(s, t),
           s.workspace.line = t.workspace.line
    PROVE  /\ \A n \in DOMAIN s.workspace.nodes \cap DOMAIN t.workspace.nodes :
                 s.workspace.nodes[n].made = t.workspace.nodes[n].made
           /\ \A w \in DOMAIN s.workspace.wires \cap DOMAIN t.workspace.wires :
                 s.workspace.wires[w] = t.workspace.wires[w]
  BY DEF ValidSession, ValidWorkspace, After, Follows

LEMMA RetainedIsLine ==
    ASSUME KeptInv, NEW s \in Retained
    PROVE  /\ Admitted(s, edits)
           /\ s = session \/ (\E i \in DOMAIN undo : s = undo[i])
                           \/ (\E j \in DOMAIN redo : s = redo[j])
  <1>1. Whole(undo, session, redo, edits)
    BY KeptTypes
  <1>2. \/ s = session
        \/ \E i \in DOMAIN undo : s = undo[i]
        \/ \E j \in DOMAIN redo : s = redo[j]
    BY DEF Retained, ToSet
  <1> QED
    BY <1>1, <1>2 DEF Whole

LEMMA InvUnique == SessionInv => IdentitiesAreUnique
  <1> SUFFICES ASSUME SessionInv, NEW s \in Retained, NEW t \in Retained,
                      s.workspace.line = t.workspace.line
               PROVE  /\ \A n \in DOMAIN s.workspace.nodes \cap DOMAIN t.workspace.nodes :
                            s.workspace.nodes[n].made = t.workspace.nodes[n].made
                      /\ \A w \in DOMAIN s.workspace.wires \cap DOMAIN t.workspace.wires :
                            s.workspace.wires[w] = t.workspace.wires[w]
    BY DEF IdentitiesAreUnique
  <1>1. KeptInv /\ Whole(undo, session, redo, edits)
    BY KeptTypes DEF SessionInv
  <1>2. Admitted(s, edits) /\ Admitted(t, edits)
    BY <1>1, RetainedIsLine
  <1>3. undo \in Seq(Sessions) /\ redo \in Seq(Sessions)
    BY <1>1, KeptTypes
  <1>4. s = t \/ After(s, t) \/ After(t, s)
    <2>1. /\ DOMAIN undo \subseteq Int /\ DOMAIN redo \subseteq Int
      BY <1>3
    <2>2. Ordered(undo, session, redo)
      BY <1>1 DEF Whole
    <2>3. /\ \A i, j \in DOMAIN undo : i = j \/ After(undo[i], undo[j]) \/ After(undo[j], undo[i])
          /\ \A i, j \in DOMAIN redo : i = j \/ After(redo[i], redo[j]) \/ After(redo[j], redo[i])
      BY <2>1, <2>2 DEF Ordered
    <2>4. \/ s = session
          \/ \E i \in DOMAIN undo : s = undo[i]
          \/ \E j \in DOMAIN redo : s = redo[j]
      BY <1>1, RetainedIsLine
    <2>5. \/ t = session
          \/ \E i \in DOMAIN undo : t = undo[i]
          \/ \E j \in DOMAIN redo : t = redo[j]
      BY <1>1, RetainedIsLine
    <2> QED
      BY <2>2, <2>3, <2>4, <2>5 DEF Ordered
  <1> QED
    BY <1>2, <1>4, ValidKeepsIdentities DEF Admitted

LEMMA InvTyped ==
    ASSUME SessionInv
    PROVE  TypeOK
  <1>1. KeptInv /\ pending \in 0..MaxId
    BY DEF SessionInv
  <1>2. session.workspace \in Workspaces /\ session.probes \in Sidecars
    BY <1>1, SessionParts
  <1>3. Workspace(session.workspace)
    <2>1. PICK ws \in Workspaces : ws = session.workspace
      BY <1>2
    <2>2. ws.nodes \in Partial(Ids, Nodes) /\ ws.wires \in Partial(Ids, Wires)
      BY DEF Workspaces
    <2>3. /\ \A n \in DOMAIN ws.nodes : ws.nodes[n] \in Nodes
          /\ \A w \in DOMAIN ws.wires : ws.wires[w] \in Wires
      BY <2>2, PartialTyped
    <2>4. Workspace(ws)
      BY <2>3 DEF Workspace, Workspaces, Cursors, Nodes, Wires, Ids
    <2> QED
      BY <2>1, <2>4
  <1>4. session.probes.next \in 1..(MaxId + 1)
    BY <1>2 DEF Sidecars, Cursors
  <1>5. bytes \in Nat
    BY <1>1, KeptTypes
  <1> QED
    BY <1>1, <1>3, <1>4, <1>5 DEF TypeOK, KeptInv

LEMMA InvWhole == SessionInv => SessionIsWhole
  <1> SUFFICES ASSUME SessionInv PROVE SessionIsWhole
    OBVIOUS
  <1>1. KeptInv /\ PendingIsLive
    BY DEF SessionInv
  <1>2. RetainedAreValid
    <2>1. \A s \in Retained : ValidSession(s)
      BY <1>1, RetainedIsLine DEF Admitted
    <2> QED
      BY <1>1, <2>1 DEF RetainedAreValid, KeptInv, Admitted
  <1>3. BytesAreExact
    BY <1>1 DEF KeptInv, HistoryInv, Exact, BytesAreExact
  <1>4. SavedIsStored
    BY <1>1 DEF KeptInv
  <1> QED
    BY <1>1, <1>2, <1>3, <1>4, InvTyped DEF SessionIsWhole

\* Every session in reach was admitted, and along the history each is of a later line than
\* the one before it or follows it: the cursors have not gone back, and what is in the later
\* document and older than the earlier one's cursors is in the earlier one.  A workspace
\* from a file and a reset of the draft, which takes the cursors back, start another line.
THEOREM SessionInvariant == Spec => []SessionInv
  <1> QED
    BY SessionInit, SessionNext, PTL DEF Spec

\* Whatever undo, redo or a reload brings back is a session GraphAuthoringSessionDocument
\* admits again; retained_bytes is what the stacks hold and both stay within their limits;
\* the half-made wire starts at a live output, and nothing unsaved is believed saved.
THEOREM SessionsAreWhole == Spec => []SessionIsWhole
  <1> QED
    BY SessionInvariant, InvWhole, PTL

\* Undo takes the cursors back and an identity is given out again, yet no two sessions of
\* one line that one can still navigate to use an identity of a node or a wire for
\* different things.
THEOREM IdentitiesStayUnique == Spec => []IdentitiesAreUnique
  <1> QED
    BY SessionInvariant, InvUnique, PTL

LEMMA ChangeIsOffered ==
    ASSUME [Next]_vars
    PROVE  [session' # session => ~ attempted' \/ Reload]_vars
  <1> SUFFICES ASSUME session' # session, ~ Reload PROVE ~ attempted'
    BY DEF vars
  <1>1. \A ws : CommitCandidate(ws) \/ CommitWorkspace(ws) => Changed
    BY DEF CommitCandidate, CommitWorkspace, Commit
  <1>2. \A p : CommitProbes(p) => Changed
    BY DEF CommitProbes, Commit
  <1>3. \A x : EditJobs(x) \/ EditComponent(x) => Changed
    BY DEF EditJobs, EditComponent, Commit
  <1>4. \A f : ImportSession(f) => Changed
    BY DEF ImportSession
  <1>5. \A n : ~ SelectOutput(n)
    BY DEF SelectOutput
  <1>6. (NavigateUndo \/ NavigateRedo) => Changed
    BY DEF NavigateUndo, NavigateRedo
  <1>7. CreateNode \/ ClearTrigger \/ ResetDraft => Changed
    BY <1>1, <1>2 DEF CreateNode, ClearTrigger, ResetDraft
  <1>8. \A n : DeleteNode(n) \/ ConnectInput(n) \/ DisconnectInput(n) \/ AddProbe(n)
              \/ RemoveProbe(n) \/ ImportProbes(n) \/ ImportWorkspace(n) => Changed
    BY <1>1, <1>2 DEF DeleteNode, ConnectInput, DisconnectInput, AddProbe, RemoveProbe,
                      ImportProbes, ImportWorkspace
  <1>9. \A n, x : EditNode(n, x) \/ ReplaceProbeMetadata(n, x) \/ SetTrigger(n, x) => Changed
    BY <1>1, <1>2 DEF EditNode, ReplaceProbeMetadata, SetTrigger
  <1>10. Edit => Changed
    BY <1>3, <1>4, <1>5, <1>7, <1>8, <1>9 DEF Edit
  <1>11. ~ Save
    BY DEF Save
  <1>12. Changed
    BY <1>6, <1>10, <1>11 DEF Next, vars
  <1> QED
    BY <1>12 DEF Changed

\* Whatever changes the session (an edit of any of its documents, a reset of the draft, undo,
\* redo, a session from a file) clears the mark of a failed attempt, so the storage is tried
\* again; only a page just loaded starts with the mark set.
THEOREM ChangesOffered == Spec => ChangesAreOffered
  <1>1. [Next]_vars => [session' # session => ~ attempted' \/ Reload]_vars
    BY ChangeIsOffered
  <1> QED
    BY <1>1, PTL DEF Spec, ChangesAreOffered

-----------------------------------------------------------------------------
(* The two stacks as one line of sessions.                                  *)

LEMMA ReverseTyped ==
    ASSUME NEW S, NEW s \in Seq(S)
    PROVE  /\ Reverse(s) \in Seq(S) /\ Len(Reverse(s)) = Len(s)
           /\ \A i \in 1..Len(s) : Reverse(s)[i] = s[(Len(s) - i) + 1]
  <1> DEFINE n == Len(s)
             back == [i \in 1..n |-> s[(n - i) + 1]]
  <1>1. n \in Nat /\ \A i \in 1..n : (n - i) + 1 \in 1..n
    OBVIOUS
  <1>2. back \in [1..n -> S]
    BY <1>1
  <1>3. back \in Seq(S) /\ Len(back) = n
    BY <1>1, <1>2
  <1>4. Reverse(s) = back
    BY DEF Reverse
  <1> QED
    BY <1>3, <1>4

LEMMA ReverseOfMore ==
    ASSUME NEW S, NEW s \in Seq(S), NEW x \in S
    PROVE  /\ Reverse(Append(s, x)) = <<x>> \o Reverse(s)
           /\ Head(Reverse(Append(s, x))) = x /\ Tail(Reverse(Append(s, x))) = Reverse(s)
  <1> DEFINE n == Len(s)
             more == Append(s, x)
             back == Reverse(s)
             a == Reverse(more)
             b == <<x>> \o back
  <1>1. /\ n \in Nat /\ more \in Seq(S) /\ Len(more) = n + 1 /\ more[n + 1] = x
        /\ \A i \in 1..n : more[i] = s[i]
    BY AppendProperties
  <1>2. back \in Seq(S) /\ Len(back) = n /\ \A i \in 1..n : back[i] = s[(n - i) + 1]
    BY ReverseTyped
  <1> HIDE DEF more
  <1>3. a \in Seq(S) /\ Len(a) = n + 1 /\ \A i \in 1..(n + 1) : a[i] = more[((n + 1) - i) + 1]
    BY <1>1, ReverseTyped
  <1> HIDE DEF back, a
  <1>4. <<x>> \in Seq(S) /\ Len(<<x>>) = 1 /\ <<x>>[1] = x
    OBVIOUS
  <1>5. b \in Seq(S) /\ Len(b) = 1 + n /\ \A i \in 1..(1 + n) : b[i] = IF i <= 1 THEN <<x>>[i] ELSE back[i - 1]
    BY <1>2, <1>4, ConcatProperties
  <1> HIDE DEF b
  <1>6. ASSUME NEW i \in 1..(n + 1)
        PROVE  a[i] = b[i]
    <2>1. CASE i = 1
      <3>1. a[1] = x
        BY <1>1, <1>3, <2>1
      <3>2. b[1] = x
        BY <1>1, <1>4, <1>5, <2>1
      <3> QED
        BY <2>1, <3>1, <3>2
    <2>2. CASE i # 1
      <3>1. i - 1 \in 1..n /\ ((n + 1) - i) + 1 = (n - (i - 1)) + 1 /\ (n - (i - 1)) + 1 \in 1..n /\ ~ (i <= 1) /\ i \in 1..(1 + n)
        BY <1>1, <2>2
      <3>2. a[i] = s[(n - (i - 1)) + 1]
        BY <1>1, <1>3, <3>1
      <3>3. b[i] = back[i - 1] /\ back[i - 1] = s[(n - (i - 1)) + 1]
        BY <1>2, <1>5, <3>1
      <3> QED
        BY <3>2, <3>3
    <2> QED
      BY <2>1, <2>2
  <1>7. a = b
    <2>1. Len(a) = Len(b) /\ \A i \in 1..Len(a) : a[i] = b[i]
      BY <1>1, <1>3, <1>5, <1>6
    <2> QED
      BY <1>3, <1>5, <2>1, SeqEqual
  <1>8. Head(b) = x /\ Tail(b) = back
    <2>1. b # <<>> /\ Head(b) = b[1]
      BY <1>1, <1>5
    <2>2. b[1] = x
      BY <1>1, <1>4, <1>5
    <2>3. Tail(b) \in Seq(S) /\ Len(Tail(b)) = n /\ \A i \in 1..n : Tail(b)[i] = b[i + 1]
      BY <1>1, <1>5, <2>1, HeadTailProperties
    <2>4. \A i \in 1..n : b[i + 1] = back[i]
      <3>1. \A i \in 1..n : i + 1 \in 1..(1 + n) /\ ~ (i + 1 <= 1) /\ (i + 1) - 1 = i
        BY <1>1
      <3> QED
        BY <1>5, <3>1
    <2>5. Tail(b) = back
      BY <1>2, <2>3, <2>4, SeqEqual
    <2> QED
      BY <2>1, <2>2, <2>5
  <1> QED
    BY <1>7, <1>8 DEF a, b, back, more

LEMMA TotalOfFirst ==
    ASSUME NEW s \in Seq(Sessions), NEW x \in Sessions
    PROVE  Total(<<x>> \o s) = Size(x) + Total(s) /\ <<x>> \o s \in Seq(Sessions)
  <1> DEFINE b == <<x>> \o s
             n == Len(s)
  <1>1. n \in Nat /\ <<x>> \in Seq(Sessions) /\ Len(<<x>>) = 1 /\ <<x>>[1] = x
    OBVIOUS
  <1>2. b \in Seq(Sessions) /\ Len(b) = 1 + n /\ \A i \in 1..(1 + n) : b[i] = IF i <= 1 THEN <<x>>[i] ELSE s[i - 1]
    BY <1>1, ConcatProperties
  <1> HIDE DEF b
  <1>3. 1 \in 0..Len(b) /\ b[1] = x
    BY <1>1, <1>2
  <1>4. /\ SubSeq(b, 1, 1) \in Seq(Sessions) /\ Drop(b, 1) \in Seq(Sessions)
        /\ Len(SubSeq(b, 1, 1)) = 1 /\ Len(Drop(b, 1)) = Len(b) - 1
        /\ Total(b) = Total(SubSeq(b, 1, 1)) + Total(Drop(b, 1))
    BY <1>2, <1>3, TotalOfSome
  <1>5. Drop(b, 1) = s
    <2>1. \A i \in 1..n : Drop(b, 1)[i] = b[i + 1] /\ b[i + 1] = s[i]
      <3>1. \A i \in 1..n : i + 1 \in 1..(1 + n) /\ ~ (i + 1 <= 1) /\ (i + 1) - 1 = i /\ 1 + i = i + 1
        BY <1>1
      <3>2. \A i \in 1..n : b[i + 1] = s[i]
        BY <1>2, <3>1
      <3>3. \A i \in 1..n : Drop(b, 1)[i] = b[i + 1]
        BY <1>1, <1>2, <3>1 DEF Drop
      <3> QED
        BY <3>2, <3>3
    <2>2. Len(Drop(b, 1)) = n
      BY <1>1, <1>2, <1>4
    <2> QED
      BY <1>4, <2>1, <2>2, SeqEqual
  <1>6. SubSeq(b, 1, 1) = <<x>>
    <2> DEFINE f == SubSeq(b, 1, 1)
    <2>1. f[1] = b[1]
      BY <1>1, <1>2 DEF f
    <2>2. f \in Seq(Sessions) /\ Len(f) = 1
      BY <1>4
    <2> HIDE DEF f
    <2>3. f = <<x>>
      <3>1. Len(f) = Len(<<x>>) /\ \A i \in 1..Len(f) : f[i] = <<x>>[i]
        BY <1>1, <1>3, <2>1, <2>2
      <3> QED
        BY <1>1, <2>2, <3>1, SeqEqual
    <2> QED
      BY <2>3 DEF f
  <1>7. Total(<<x>>) = Size(x)
    <2>1. <<>> \in Seq(Sessions) /\ Append(<<>>, x) = <<x>>
      OBVIOUS
    <2>2. Total(<<x>>) = Total(<<>>) + Size(x)
      BY <2>1, TotalOfOneMore
    <2> QED
      BY <2>2, TotalOfNone, SizeTyped
  <1> QED
    BY <1>2, <1>4, <1>5, <1>6, <1>7 DEF b

\* Turned round, a stack weighs the same.
LEMMA TotalOfReverse ==
    ASSUME NEW s \in Seq(Sessions)
    PROVE  Total(Reverse(s)) = Total(s)
  <1> DEFINE T == {n \in Nat : \E t \in Seq(Sessions) : Len(t) = n /\ Total(Reverse(t)) # Total(t)}
  <1> SUFFICES ASSUME T # {} PROVE FALSE
    OBVIOUS
  <1>1. PICK m \in T : \A n \in T : m <= n
    BY SmallestOf
  <1>2. PICK t \in Seq(Sessions) : Len(t) = m /\ Total(Reverse(t)) # Total(t)
    BY <1>1
  <1>3. CASE t = <<>>
    <2>1. Reverse(t) \in Seq(Sessions) /\ Len(Reverse(t)) = 0
      BY <1>2, <1>3, ReverseTyped
    <2>2. Reverse(t) = <<>>
      BY <2>1
    <2> QED
      BY <1>2, <1>3, <2>2
  <1>4. CASE t # <<>>
    <2> DEFINE front == Front(t)
               x == Last(t)
    <2>1. /\ front \in Seq(Sessions) /\ Len(front) = Len(t) - 1 /\ x \in Sessions
          /\ Total(t) = Total(front) + Size(x)
          /\ \A i \in DOMAIN front : i \in DOMAIN t /\ front[i] = t[i]
      BY <1>4, TotalOfFront
    <2>2. t = Append(front, x)
      <3>1. x = t[Len(t)]
        BY DEF Last
      <3> HIDE DEF front, x
      <3> QED
        BY <1>4, <2>1, <3>1
    <2> HIDE DEF front, x
    <2>3. Total(Reverse(front)) = Total(front)
      <3>1. Len(front) \notin T /\ Len(front) \in Nat
        BY <1>1, <1>2, <2>1
      <3> QED
        BY <2>1, <3>1
    <2>4. Reverse(t) = <<x>> \o Reverse(front)
      BY <2>1, <2>2, ReverseOfMore
    <2>5. Total(Reverse(t)) = Size(x) + Total(Reverse(front))
      BY <2>1, <2>4, ReverseTyped, TotalOfFirst
    <2>6. Total(front) \in Nat /\ Size(x) \in Nat
      BY <2>1, TotalTyped, SizeTyped
    <2> QED
      BY <1>2, <2>1, <2>3, <2>5, <2>6
  <1> QED
    BY <1>3, <1>4

-----------------------------------------------------------------------------
(* No more is forgotten than the bounds require.                            *)

\* The bounds hold of two stacks without their u and r oldest.
Bounded(past, ahead, u, r) ==
    /\ Len(past) - u <= MaxSnapshots /\ Len(ahead) - r <= MaxSnapshots
    /\ Total(Drop(past, u)) + Total(Drop(ahead, r)) <= MaxBytes

\* u and r are as few as that takes, and what was undone goes last.
Fewest(past, ahead, u, r) ==
    /\ Bounded(past, ahead, u, r)
    /\ u > 0 => ~ Bounded(past, ahead, u - 1, r) \/ u = Len(past)
    /\ r > 0 => ~ Bounded(past, ahead, u, r - 1)
    /\ (r > 0 /\ Len(ahead) - r < MaxSnapshots) => u = Len(past)

\* Enforcing the limits forgets the fewest: when the first loop ends early, what is left fits
\* with the other stack cut to its length alone, and the second takes no turn of its own.
LEMMA LimitsForgetFewest ==
    ASSUME NEW h, h.undo \in Seq(Sessions), h.redo \in Seq(Sessions),
           h.bytes = Total(h.undo) + Total(h.redo)
    PROVE  \E u \in 0..Len(h.undo), r \in 0..Len(h.redo) :
             /\ EnforceLimits(h).undo = Drop(h.undo, u)
             /\ EnforceLimits(h).redo = Drop(h.redo, r)
             /\ Fewest(h.undo, h.redo, u, r)
  <1> DEFINE Gone(u, r) == h.bytes - Total(SubSeq(h.undo, 1, u)) - Total(SubSeq(h.redo, 1, r))
             Left(u, r) == Total(Drop(h.undo, u)) + Total(Drop(h.redo, r))
             a == Len(h.undo)
             b == Len(h.redo)
             e == Excess(h.undo)
             x == Excess(h.redo)
             us == {n \in 0..a : Gone(n, x) <= MaxBytes}
             u == Turns(us, e, a)
             rs == {n \in 0..b : Gone(u, n) <= MaxBytes}
             r == Turns(rs, x, b)
  <1>1. EnforceLimits(h) = [undo |-> Drop(h.undo, u), redo |-> Drop(h.redo, r), bytes |-> Gone(u, r)]
    BY Zenon DEF EnforceLimits
  <1>2. /\ a \in Nat /\ b \in Nat /\ MaxSnapshots \in Nat /\ MaxBytes \in Nat
        /\ e = (IF a > MaxSnapshots THEN a - MaxSnapshots ELSE 0)
        /\ x = (IF b > MaxSnapshots THEN b - MaxSnapshots ELSE 0)
    BY BoundAssumption DEF Excess
  <1>3. e \in 0..a /\ x \in 0..b
    <2> HIDE DEF a, b, e, x
    <2> QED
      BY <1>2
  <1>4. e \in Nat /\ x \in Nat /\ e <= a /\ x <= b
    <2> HIDE DEF a, b, e, x
    <2> QED
      BY <1>2, <1>3
  <1>5. u \in e..a /\ (u \in us \/ u = a) /\ \A m \in e..a : m < u => m \notin us
    <2> HIDE DEF us, e, a
    <2> QED
      BY <1>2, <1>4, TurnsMade
  <1>6. r \in x..b /\ (r \in rs \/ r = b) /\ \A m \in x..b : m < r => m \notin rs
    <2> HIDE DEF rs, x, b
    <2> QED
      BY <1>2, <1>4, TurnsMade
  <1>7. ASSUME NEW p \in 0..a, NEW q \in 0..b
        PROVE  Gone(p, q) = Left(p, q) /\ Left(p, q) \in Nat
    <2>1. /\ Total(h.undo) = Total(SubSeq(h.undo, 1, p)) + Total(Drop(h.undo, p))
          /\ Total(SubSeq(h.undo, 1, p)) \in Nat /\ Total(Drop(h.undo, p)) \in Nat
      BY TotalOfSome, TotalTyped
    <2>2. /\ Total(h.redo) = Total(SubSeq(h.redo, 1, q)) + Total(Drop(h.redo, q))
          /\ Total(SubSeq(h.redo, 1, q)) \in Nat /\ Total(Drop(h.redo, q)) \in Nat
      BY TotalOfSome, TotalTyped
    <2> QED
      BY <2>1, <2>2
  <1>8. Left(a, b) = 0
    <2>1. Drop(h.undo, a) = <<>> /\ Drop(h.redo, b) = <<>>
      BY <1>2 DEF Drop
    <2> QED
      BY <2>1, TotalOfNone
  <1>9. u \in 0..a /\ r \in 0..b
    <2> HIDE DEF u, r, a, b, e, x
    <2> QED
      BY <1>2, <1>4, <1>5, <1>6
  <1>10. /\ Left(u, x) <= MaxBytes \/ u = a
         /\ \A p \in e..a : p < u => ~ (Left(p, x) <= MaxBytes)
    <2>1. \A p \in 0..a : p \in us <=> Left(p, x) <= MaxBytes
      <3> HIDE DEF Gone, Left, a, x, u
      <3> QED
        BY <1>3, <1>7 DEF us
    <2>2. \A p \in e..a : p \in 0..a
      <3> HIDE DEF e, a
      <3> QED
        BY <1>2, <1>4
    <2> HIDE DEF us, Left, e, a, x, u
    <2> QED
      BY <1>5, <1>9, <2>1, <2>2
  <1>11. /\ Left(u, r) <= MaxBytes \/ r = b
         /\ \A q \in x..b : q < r => ~ (Left(u, q) <= MaxBytes)
    <2>1. \A q \in 0..b : q \in rs <=> Left(u, q) <= MaxBytes
      <3> HIDE DEF Gone, Left, b, u, r
      <3> QED
        BY <1>7, <1>9 DEF rs
    <2>2. \A q \in x..b : q \in 0..b
      <3> HIDE DEF x, b
      <3> QED
        BY <1>2, <1>4
    <2> HIDE DEF rs, Left, b, x, u, r
    <2> QED
      BY <1>6, <1>9, <2>1, <2>2
  <1> HIDE DEF a, b, e, x, us, u, rs, r, Gone
  <1>12. /\ a - u <= MaxSnapshots /\ b - r <= MaxSnapshots /\ Left(u, r) <= MaxBytes
         /\ u > 0 => ~ (a - (u - 1) <= MaxSnapshots) \/ ~ (Left(u - 1, r) <= MaxBytes) \/ u = a
         /\ r > 0 => ~ (b - (r - 1) <= MaxSnapshots) \/ ~ (Left(u, r - 1) <= MaxBytes)
         /\ (r > 0 /\ b - r < MaxSnapshots) => u = a
    <2>1. \A p \in 0..a, q \in 0..b : Left(p, q) \in Nat
      BY <1>7
    <2> HIDE DEF Left
    <2> QED
      BY <1>2, <1>3, <1>5, <1>6, <1>8, <1>10, <1>11, <2>1
  <1>13. Fewest(h.undo, h.redo, u, r)
    BY <1>12 DEF Fewest, Bounded, a, b
  <1> QED
    BY <1>1, <1>9, <1>13 DEF a, b

-----------------------------------------------------------------------------
(* The two stacks as the abstract specification sees them.                  *)

\* Cut at its end, the reversed stack is the stack cut at its bottom, reversed.
LEMMA CutOfReverse ==
    ASSUME NEW s \in Seq(Sessions), NEW r \in 0..Len(s)
    PROVE  Line!Cut(Reverse(s), 0, r) = Reverse(Drop(s, r))
  <1> DEFINE n == Len(s)
             a == SubSeq(Reverse(s), 0 + 1, Len(Reverse(s)) - r)
             kept == Drop(s, r)
             b == Reverse(kept)
  <1>1. n \in Nat /\ r \in Nat /\ r <= n
    OBVIOUS
  <1>2. Reverse(s) \in Seq(Sessions) /\ Len(Reverse(s)) = n
        /\ \A i \in 1..n : Reverse(s)[i] = s[(n - i) + 1]
    BY ReverseTyped
  <1>3. kept \in Seq(Sessions) /\ Len(kept) = n - r
        /\ \A i \in 1..(n - r) : kept[i] = s[r + i]
    BY <1>1 DEF Drop
  <1> HIDE DEF kept
  <1>4. b \in Seq(Sessions) /\ Len(b) = n - r
        /\ \A i \in 1..(n - r) : b[i] = kept[((n - r) - i) + 1]
    <2>1. /\ Reverse(kept) \in Seq(Sessions) /\ Len(Reverse(kept)) = Len(kept)
          /\ \A i \in 1..Len(kept) : Reverse(kept)[i] = kept[(Len(kept) - i) + 1]
      BY <1>3, ReverseTyped
    <2> HIDE DEF n
    <2> QED
      BY <1>3, <2>1
  <1>5. a \in Seq(Sessions) /\ Len(a) = n - r /\ \A i \in 1..(n - r) : a[i] = Reverse(s)[i]
    BY <1>1, <1>2
  <1> HIDE DEF a, b, n
  <1>6. ASSUME NEW i \in 1..(n - r)
        PROVE  a[i] = b[i]
    <2>1. /\ i \in 1..n /\ ((n - r) - i) + 1 \in 1..(n - r)
          /\ r + (((n - r) - i) + 1) = (n - i) + 1
      BY <1>1
    <2>2. a[i] = s[(n - i) + 1]
      BY <1>2, <1>5, <2>1
    <2>3. b[i] = s[r + (((n - r) - i) + 1)]
      BY <1>3, <1>4, <2>1
    <2> QED
      BY <2>1, <2>2, <2>3
  <1>7. a = b
    <2>1. Len(a) = Len(b) /\ \A i \in 1..Len(a) : a[i] = b[i]
      BY <1>4, <1>5, <1>6
    <2> QED
      BY <1>4, <1>5, <2>1, SeqEqual
  <1> QED
    BY <1>7 DEF Line!Cut, a, b, kept

LEMMA CutOfStack ==
    ASSUME NEW s \in Seq(Sessions), NEW u
    PROVE  Line!Cut(s, u, 0) = Drop(s, u)
  <1>1. Len(s) - 0 = Len(s)
    OBVIOUS
  <1> QED
    BY <1>1 DEF Line!Cut, Drop

LEMMA LineWeighs ==
    ASSUME NEW s
    PROVE  Line!WeightOf(s) = Total(s)
  BY DEF Line!WeightOf, Total

\* The bounds of the abstract specification are those of the stacks.
LEMMA LineBounded ==
    ASSUME NEW past \in Seq(Sessions), NEW ahead \in Seq(Sessions),
           NEW u \in 0..Len(past), NEW r \in 0..Len(ahead)
    PROVE  Line!Fits(past, Reverse(ahead), u, r) <=> Bounded(past, ahead, u, r)
  <1>1. Line!Cut(past, u, 0) = Drop(past, u)
    BY CutOfStack
  <1>2. Line!Cut(Reverse(ahead), 0, r) = Reverse(Drop(ahead, r))
    BY CutOfReverse
  <1>3. Total(Reverse(Drop(ahead, r))) = Total(Drop(ahead, r))
    BY TotalOfSome, TotalOfReverse
  <1>4. Len(Reverse(ahead)) = Len(ahead)
    BY ReverseTyped
  <1> QED
    BY <1>1, <1>2, <1>3, <1>4, LineWeighs DEF Line!Fits, Bounded

\* A session with a stack on each side, as the abstract specification reads them off.
LEMMA PlaceInSequence ==
    ASSUME NEW S, NEW p \in Seq(S), NEW x \in S, NEW f \in Seq(S)
    PROVE  LET t == p \o <<x>> \o f IN
           /\ SubSeq(t, 1, (Len(p) + 1) - 1) = p
           /\ t[Len(p) + 1] = x
           /\ SubSeq(t, (Len(p) + 1) + 1, Len(t)) = f
           /\ Len(t) = Len(p) + 1 + Len(f)
  <1> DEFINE one == <<x>>
             q == p \o one
             t == q \o f
             n == Len(p)
             m == Len(f)
  <1>1. n \in Nat /\ m \in Nat /\ one \in Seq(S) /\ Len(one) = 1 /\ one[1] = x
    OBVIOUS
  <1>2. q \in Seq(S) /\ Len(q) = n + 1 /\ \A i \in 1..(n + 1) : q[i] = IF i <= n THEN p[i] ELSE one[i - n]
    <2> HIDE DEF one
    <2>1. /\ p \o one \in Seq(S) /\ Len(p \o one) = Len(p) + Len(one)
          /\ \A i \in 1..(Len(p) + Len(one)) : (p \o one)[i] = IF i <= Len(p) THEN p[i] ELSE one[i - Len(p)]
      BY <1>1, ConcatProperties
    <2> QED
      BY <1>1, <2>1
  <1> HIDE DEF q, one
  <1>3. t \in Seq(S) /\ Len(t) = (n + 1) + m
        /\ \A i \in 1..((n + 1) + m) : t[i] = IF i <= n + 1 THEN q[i] ELSE f[i - (n + 1)]
    <2>1. /\ q \o f \in Seq(S) /\ Len(q \o f) = Len(q) + Len(f)
          /\ \A i \in 1..(Len(q) + Len(f)) : (q \o f)[i] = IF i <= Len(q) THEN q[i] ELSE f[i - Len(q)]
      <3>1. q \in Seq(S)
        BY <1>2
      <3> QED
        BY <3>1, ConcatProperties
    <2> QED
      BY <1>1, <1>2, <2>1
  <1> HIDE DEF t
  <1>4. SubSeq(t, 1, n) = p
    <2>1. SubSeq(t, 1, n) \in Seq(S) /\ Len(SubSeq(t, 1, n)) = n /\ \A i \in 1..n : SubSeq(t, 1, n)[i] = t[i]
      BY <1>1, <1>3
    <2>2. \A i \in 1..n : t[i] = p[i]
      <3>1. \A i \in 1..n : i \in 1..(n + 1) /\ i \in 1..((n + 1) + m) /\ i <= n /\ i <= n + 1
        BY <1>1
      <3> QED
        BY <1>2, <1>3, <3>1
    <2> QED
      BY <1>1, <2>1, <2>2, SeqEqual
  <1>5. t[n + 1] = x
    <2>1. n + 1 \in 1..(n + 1) /\ n + 1 \in 1..((n + 1) + m) /\ n + 1 <= n + 1 /\ ~ (n + 1 <= n) /\ (n + 1) - n = 1
      BY <1>1
    <2> QED
      BY <1>1, <1>2, <1>3, <2>1
  <1>6. SubSeq(t, (n + 1) + 1, Len(t)) = f
    <2> DEFINE g == SubSeq(t, (n + 1) + 1, Len(t))
    <2>1. g \in Seq(S) /\ Len(g) = m /\ \A i \in 1..m : g[i] = t[(n + 1) + i]
      BY <1>1, <1>3
    <2>2. \A i \in 1..m : t[(n + 1) + i] = f[i]
      <3>1. \A i \in 1..m : (n + 1) + i \in 1..((n + 1) + m) /\ ~ ((n + 1) + i <= n + 1) /\ ((n + 1) + i) - (n + 1) = i
        BY <1>1
      <3> QED
        BY <1>3, <3>1
    <2> HIDE DEF g
    <2>3. g = f
      BY <1>1, <2>1, <2>2, SeqEqual
    <2> QED
      BY <2>3 DEF g
  <1>7. (n + 1) - 1 = n /\ Len(t) = n + 1 + m
    BY <1>1, <1>3
  <1> QED
    BY <1>4, <1>5, <1>6, <1>7 DEF t, q, one

LEMMA PlaceOnLine ==
    ASSUME undo \in Seq(Sessions), redo \in Seq(Sessions), session \in Sessions
    PROVE  Line!Past = undo /\ Line!Present = session /\ Line!Future = Reverse(redo)
  <1>1. Reverse(redo) \in Seq(Sessions)
    BY ReverseTyped
  <1> HIDE DEF Reverse
  <1> QED
    BY <1>1, PlaceInSequence DEF Line!Past, Line!Present, Line!Future

\* After enforce_limits_for the line is the one the abstract specification keeps.
LEMMA KeptOnLine ==
    ASSUME NEW h, h.undo \in Seq(Sessions), h.redo \in Seq(Sessions),
           h.bytes = Total(h.undo) + Total(h.redo), KeepHistory(h)
    PROVE  Line!Keep(h.undo, session', Reverse(h.redo))
  <1>1. PICK u \in 0..Len(h.undo), r \in 0..Len(h.redo) :
             /\ EnforceLimits(h).undo = Drop(h.undo, u)
             /\ EnforceLimits(h).redo = Drop(h.redo, r)
             /\ Fewest(h.undo, h.redo, u, r)
    BY LimitsForgetFewest
  <1> DEFINE past == h.undo
             ahead == h.redo
             future == Reverse(h.redo)
  <1>2. undo' = Drop(past, u) /\ redo' = Drop(ahead, r)
    BY <1>1 DEF KeepHistory
  <1>3. Len(future) = Len(ahead) /\ Len(past) \in Nat /\ Len(ahead) \in Nat
    BY ReverseTyped
  <1> HIDE DEF past, ahead, future
  <1>4. u \in 0..Len(past) /\ r \in 0..Len(ahead) /\ r \in 0..Len(future)
    BY <1>1, <1>3 DEF past, ahead
  <1>5. \A p \in 0..Len(past), q \in 0..Len(ahead) : Line!Fits(past, future, p, q) <=> Bounded(past, ahead, p, q)
    BY LineBounded DEF past, ahead, future
  <1>6. Line!Fits(past, future, u, r)
    BY <1>1, <1>4, <1>5 DEF Fewest, past, ahead
  <1>7. u > 0 => ~ Line!Fits(past, future, u - 1, r) \/ u = Len(past)
    <2>1. u > 0 => u - 1 \in 0..Len(past)
      BY <1>3, <1>4
    <2> QED
      BY <1>1, <1>4, <1>5, <2>1 DEF Fewest, past, ahead
  <1>8. r > 0 => ~ Line!Fits(past, future, u, r - 1)
    <2>1. r > 0 => r - 1 \in 0..Len(ahead)
      BY <1>3, <1>4
    <2> QED
      BY <1>1, <1>4, <1>5, <2>1 DEF Fewest, past, ahead
  <1>9. (r > 0 /\ Len(future) - r < MaxSnapshots) => u = Len(past)
    BY <1>1, <1>3 DEF Fewest, past, ahead
  <1>10. Line!Cut(past, u, 0) = undo' /\ Line!Cut(future, 0, r) = Reverse(redo)'
    BY <1>1, <1>2, CutOfStack, CutOfReverse DEF past, ahead, future
  <1>11. (Len(undo) + 1)' = Len(past) - u + 1
    BY <1>1, <1>2, TotalOfSome DEF past
  <1>12. (undo \o <<session>> \o Reverse(redo))' = Line!Cut(past, u, 0) \o <<session'>> \o Line!Cut(future, 0, r)
    BY <1>10
  <1>13. Line!Keep(past, session', future)
    BY <1>4, <1>6, <1>7, <1>8, <1>9, <1>11, <1>12 DEF Line!Keep
  <1> QED
    BY <1>13 DEF past, future

\* What a step does to the sessions.
LeftAlone == session' = session /\ undo' = undo /\ redo' = redo
Started == undo' = <<>> /\ redo' = <<>>

\* Every edit is a change, leaves the sessions alone or starts another history.
LEMMA StepKinds ==
    ASSUME [Next]_vars
    PROVE  Record \/ LeftAlone \/ Started \/ NavigateUndo \/ NavigateRedo
  <1> DEFINE Kind == Record \/ LeftAlone \/ Started
  <1>1. \A ws : CommitCandidate(ws) \/ CommitWorkspace(ws) => Kind
    BY DEF CommitCandidate, CommitWorkspace, Commit, LeftAlone, history
  <1>2. \A p : CommitProbes(p) => Kind
    BY DEF CommitProbes, Commit
  <1>3. \A x : EditJobs(x) \/ EditComponent(x) => Kind
    BY DEF EditJobs, EditComponent, Commit
  <1>4. \A f : ImportSession(f) => Kind
    BY DEF ImportSession, Restore, Started
  <1>5. \A n : SelectOutput(n) => Kind
    BY DEF SelectOutput, LeftAlone, history
  <1>13. ResetDraft => Kind
    BY <1>1 DEF ResetDraft, LeftAlone, history
  <1> HIDE DEF Kind
  <1>6. CreateNode \/ ClearTrigger => Kind
    BY <1>1, <1>2 DEF CreateNode, ClearTrigger
  <1>7. \A n : DeleteNode(n) \/ ConnectInput(n) \/ DisconnectInput(n) \/ AddProbe(n)
              \/ RemoveProbe(n) \/ ImportProbes(n) \/ ImportWorkspace(n) => Kind
    BY <1>1, <1>2 DEF DeleteNode, ConnectInput, DisconnectInput, AddProbe, RemoveProbe,
                      ImportProbes, ImportWorkspace
  <1>8. \A n, x : EditNode(n, x) \/ ReplaceProbeMetadata(n, x) \/ SetTrigger(n, x) => Kind
    BY <1>1, <1>2 DEF EditNode, ReplaceProbeMetadata, SetTrigger
  <1>9. Edit => Kind
    BY <1>3, <1>4, <1>5, <1>6, <1>7, <1>8, <1>13 DEF Edit
  <1>10. Save \/ UNCHANGED vars => Kind
    BY DEF Save, Kind, LeftAlone, history, vars
  <1>11. Reload => Kind
    BY DEF Reload, Restore, Kind, Started
  <1>12. Kind \/ NavigateUndo \/ NavigateRedo
    BY <1>9, <1>10, <1>11 DEF Next
  <1> QED
    BY <1>12 DEF Kind

\* record is a change of the line.
LEMMA RecordIsChange ==
    ASSUME KeptInv, KeptInv', Record
    PROVE  Line!Change
  <1>1. PICK h : h = [undo |-> Append(undo, session), redo |-> <<>>,
                      bytes |-> bytes - Total(redo) + Size(session)]
    OBVIOUS
  <1>2. KeepHistory(h) /\ h.undo = Append(undo, session) /\ h.redo = <<>>
    BY <1>1 DEF Record
  <1>3. h.undo \in Seq(Sessions) /\ h.redo \in Seq(Sessions)
    BY <1>2, KeptTypes
  <1>4. h.bytes = Total(h.undo) + Total(h.redo)
    <2>1. Total(h.undo) = Total(undo) + Size(session) /\ Total(h.redo) = 0
      BY <1>2, KeptTypes, TotalOfOneMore, TotalOfNone
    <2>2. h.bytes = bytes - Total(redo) + Size(session)
      BY <1>1
    <2> QED
      BY <2>1, <2>2, KeptTypes
  <1>5. Line!Keep(h.undo, session', Reverse(h.redo))
    BY <1>2, <1>3, <1>4, KeptOnLine
  <1>6. Reverse(h.redo) = <<>>
    <2>1. <<>> \in Seq(Sessions) /\ Len(<<>>) = 0
      OBVIOUS
    <2>2. Reverse(h.redo) \in Seq(Sessions) /\ Len(Reverse(h.redo)) = 0
      BY <1>2, <2>1, ReverseTyped
    <2> QED
      BY <2>2
  <1>7. Line!Past = undo /\ Line!Present = session
    BY KeptTypes, PlaceOnLine
  <1>8. (undo \o <<session>> \o Reverse(redo))'[(Len(undo) + 1)'] = session'
    <2>1. undo' \in Seq(Sessions) /\ redo' \in Seq(Sessions) /\ session' \in Sessions
      BY DEF KeptInv, HistoryInv, Whole, Admitted
    <2>2. Reverse(redo') \in Seq(Sessions)
      BY <2>1, ReverseTyped
    <2> QED
      BY <2>1, <2>2, PlaceInSequence
  <1> QED
    BY <1>2, <1>5, <1>6, <1>7, <1>8 DEF Line!Change

\* undo moves back on the line.
LEMMA UndoIsUndo ==
    ASSUME KeptInv, NavigateUndo
    PROVE  Line!Undo
  <1>1. PICK h : h = [undo |-> Front(undo), redo |-> Append(redo, session),
                      bytes |-> bytes - Size(Last(undo)) + Size(session)]
    OBVIOUS
  <1>2. /\ KeepHistory(h) /\ h.undo = Front(undo) /\ h.redo = Append(redo, session)
        /\ undo # <<>> /\ session' = Last(undo)
    BY <1>1 DEF NavigateUndo
  <1>3. /\ h.undo \in Seq(Sessions) /\ h.redo \in Seq(Sessions)
        /\ Last(undo) \in Sessions /\ Total(undo) = Total(Front(undo)) + Size(Last(undo))
    BY <1>2, KeptTypes, TotalOfFront
  <1>4. h.bytes = Total(h.undo) + Total(h.redo)
    <2>1. Total(h.redo) = Total(redo) + Size(session)
      BY <1>2, KeptTypes, TotalOfOneMore
    <2>2. h.bytes = bytes - Size(Last(undo)) + Size(session)
      BY <1>1
    <2>3. Total(Front(undo)) \in Nat /\ Size(Last(undo)) \in Nat
      BY <1>2, <1>3, TotalTyped, SizeTyped
    <2> QED
      BY <1>2, <1>3, <2>1, <2>2, <2>3, KeptTypes
  <1>5. Line!Keep(h.undo, session', Reverse(h.redo))
    BY <1>2, <1>3, <1>4, KeptOnLine
  <1>6. Reverse(h.redo) = <<session>> \o Reverse(redo)
    BY <1>2, KeptTypes, ReverseOfMore
  <1>7. Line!Past = undo /\ Line!Present = session /\ Line!Future = Reverse(redo)
    BY KeptTypes, PlaceOnLine
  <1>8. Line!Front(undo) = Front(undo) /\ Line!Last(undo) = Last(undo)
    BY DEF Line!Front, Line!Last, Front, Last
  <1> QED
    BY <1>2, <1>5, <1>6, <1>7, <1>8 DEF Line!Undo

\* redo moves forward on the line.
LEMMA RedoIsRedo ==
    ASSUME KeptInv, NavigateRedo
    PROVE  Line!Redo
  <1>1. PICK h : h = [undo |-> Append(undo, session), redo |-> Front(redo),
                      bytes |-> bytes - Size(Last(redo)) + Size(session)]
    OBVIOUS
  <1>2. /\ KeepHistory(h) /\ h.undo = Append(undo, session) /\ h.redo = Front(redo)
        /\ redo # <<>> /\ session' = Last(redo)
    BY <1>1 DEF NavigateRedo
  <1>3. /\ h.undo \in Seq(Sessions) /\ h.redo \in Seq(Sessions)
        /\ Last(redo) \in Sessions /\ Total(redo) = Total(Front(redo)) + Size(Last(redo))
    BY <1>2, KeptTypes, TotalOfFront
  <1>4. h.bytes = Total(h.undo) + Total(h.redo)
    <2>1. Total(h.undo) = Total(undo) + Size(session)
      BY <1>2, KeptTypes, TotalOfOneMore
    <2>2. h.bytes = bytes - Size(Last(redo)) + Size(session)
      BY <1>1
    <2>3. Total(Front(redo)) \in Nat /\ Size(Last(redo)) \in Nat
      BY <1>2, <1>3, TotalTyped, SizeTyped
    <2> QED
      BY <1>2, <1>3, <2>1, <2>2, <2>3, KeptTypes
  <1>5. Line!Keep(h.undo, session', Reverse(h.redo))
    BY <1>2, <1>3, <1>4, KeptOnLine
  <1>6. /\ Reverse(redo) = <<Last(redo)>> \o Reverse(Front(redo))
        /\ Head(Reverse(redo)) = Last(redo) /\ Tail(Reverse(redo)) = Reverse(Front(redo))
    <2> DEFINE front == Front(redo)
               x == Last(redo)
    <2>1. /\ front \in Seq(Sessions) /\ Len(front) = Len(redo) - 1 /\ x \in Sessions
          /\ \A i \in DOMAIN front : i \in DOMAIN redo /\ front[i] = redo[i]
      BY <1>2, KeptTypes, TotalOfFront
    <2>2. redo = Append(front, x)
      <3>1. x = redo[Len(redo)] /\ redo \in Seq(Sessions)
        BY KeptTypes DEF Last
      <3> HIDE DEF front, x
      <3> QED
        BY <1>2, <2>1, <3>1
    <2> HIDE DEF front, x
    <2>3. /\ Reverse(Append(front, x)) = <<x>> \o Reverse(front)
          /\ Head(Reverse(Append(front, x))) = x /\ Tail(Reverse(Append(front, x))) = Reverse(front)
      BY <2>1, ReverseOfMore
    <2>4. /\ Reverse(redo) = <<x>> \o Reverse(front)
          /\ Head(Reverse(redo)) = x /\ Tail(Reverse(redo)) = Reverse(front)
      BY <2>2, <2>3
    <2> QED
      BY <2>4 DEF front, x
  <1>7. Line!Past = undo /\ Line!Present = session /\ Line!Future = Reverse(redo)
    BY KeptTypes, PlaceOnLine
  <1>8. Line!Future # <<>>
    <2>1. Reverse(redo) \in Seq(Sessions) /\ Len(Reverse(redo)) = Len(redo) /\ redo \in Seq(Sessions)
      BY KeptTypes, ReverseTyped
    <2>2. Len(redo) # 0
      BY <1>2, <2>1
    <2>3. Reverse(redo) # <<>>
      BY <2>1, <2>2
    <2> QED
      BY <1>7, <2>3
  <1> QED
    BY <1>2, <1>5, <1>6, <1>7, <1>8 DEF Line!Redo

\* Restore leaves one session and nothing around it.
LEMMA AloneOnLine ==
    ASSUME NEW s \in Sessions
    PROVE  <<>> \o <<s>> \o Reverse(<<>>) = <<s>> /\ Len(<<s>>) = 1 /\ Len(<<>>) + 1 = 1
  <1>1. <<>> \in Seq(Sessions) /\ Len(<<>>) = 0 /\ <<s>> \in Seq(Sessions)
    OBVIOUS
  <1>2. Reverse(<<>>) \in Seq(Sessions) /\ Len(Reverse(<<>>)) = 0
    BY <1>1, ReverseTyped
  <1>3. Reverse(<<>>) = <<>>
    BY <1>2
  <1>4. <<>> \o <<s>> = <<s>> /\ <<s>> \o <<>> = <<s>>
    BY <1>1, ConcatEmptySeq
  <1>5. Len(<<s>>) = 1 /\ Len(<<>>) + 1 = 1
    OBVIOUS
  <1>6. <<>> \o <<s>> \o Reverse(<<>>) = <<s>>
    <2> HIDE DEF Reverse
    <2> QED
      BY <1>3, <1>4, Zenon
  <1> QED
    BY <1>5, <1>6

LEMMA TimelineStarts ==
    ASSUME KeptInv, undo = <<>>, redo = <<>>
    PROVE  Len(undo \o <<session>> \o Reverse(redo)) = 1 /\ Len(undo) + 1 = 1
  BY KeptTypes, AloneOnLine

LEMMA TimelineStep ==
    ASSUME KeptInv, KeptInv', [Next]_vars
    PROVE  [Line!Next]_<<undo \o <<session>> \o Reverse(redo), Len(undo) + 1>>
  <1>1. CASE Record
    BY <1>1, RecordIsChange DEF Line!Next
  <1>2. CASE NavigateUndo
    BY <1>2, UndoIsUndo DEF Line!Next
  <1>3. CASE NavigateRedo
    BY <1>3, RedoIsRedo DEF Line!Next
  <1>4. CASE LeftAlone
    <2>1. /\ (undo \o <<session>> \o Reverse(redo))' = undo \o <<session>> \o Reverse(redo)
          /\ (Len(undo) + 1)' = Len(undo) + 1
      BY <1>4 DEF LeftAlone
    <2> QED
      BY <2>1
  <1>5. CASE Started
    <2>1. session' \in Sessions
      BY DEF KeptInv, HistoryInv, Whole, Admitted
    <2>2. Len((undo \o <<session>> \o Reverse(redo))') = 1 /\ (Len(undo) + 1)' = 1
      BY <1>5, <2>1, AloneOnLine DEF Started
    <2>3. Line!Restart
      BY <2>2 DEF Line!Restart
    <2> QED
      BY <2>3 DEF Line!Next
  <1> QED
    BY <1>1, <1>2, <1>3, <1>4, <1>5, StepKinds

\* The history is one line of sessions and a place on it: a change forgets what had been
\* undone, undo and redo move along the line, and a bound makes them forget as little as it
\* requires, the oldest first and what was undone only when nothing else is left.
THEOREM HistoryIsTimeline == Spec => ImplementsTimeline
  <1>1. Init /\ SessionInv =>
            Len(undo \o <<session>> \o Reverse(redo)) = 1 /\ Len(undo) + 1 = 1
    BY TimelineStarts DEF Init, SessionInv
  <1>2. SessionInv /\ SessionInv' /\ [Next]_vars =>
            [Line!Next]_<<undo \o <<session>> \o Reverse(redo), Len(undo) + 1>>
    BY TimelineStep DEF SessionInv
  <1> QED
    BY <1>1, <1>2, SessionInvariant, PTL DEF Spec, ImplementsTimeline, Line!Spec

\* What is proved of a session holds when the editor is used and is idle otherwise.
LEMMA EditorIsSession == EditorSpec => Spec
  <1>1. EditorInit => Init
    BY DEF EditorInit
  <1>2. [EditorNext]_<<part, vars, simulator>> => [Next]_vars
    BY DEF EditorNext, Authoring_, Simulation_
  <1> QED
    BY <1>1, <1>2, PTL DEF EditorSpec, Spec

-----------------------------------------------------------------------------
(* The search for a combinational cycle.                                    *)

\* The ports on the stack are the grey ones, each the parent of the next, which it feeds.
PathOfSearch ==
    /\ \A i \in 1..Len(stack) : colour[stack[i].port] = "Grey"
    /\ \A i, j \in 1..Len(stack) : stack[i].port = stack[j].port => i = j
    /\ \A a \in Graph!Ports : colour[a] = "Grey" => \E i \in 1..Len(stack) : stack[i].port = a
    /\ \A i \in 1..(Len(stack) - 1) :
         /\ parent[stack[i + 1].port] = stack[i].port
         /\ Graph!Feeds(stack[i].port, stack[i + 1].port)

\* What a port on the stack feeds and was looked at is done with, or next on the stack.
LookedAt ==
    \A i \in 1..Len(stack) : \A k \in Graph!Places :
        k < stack[i].next /\ Graph!Feeds(stack[i].port, Graph!PortAt(k)) =>
            \/ colour[Graph!PortAt(k)] = "Black"
            \/ i < Len(stack) /\ Graph!PortAt(k) = stack[i + 1].port

\* A set of ports each of which is fed by one of them.
Circular(ports) == ports # {} /\ \A a \in ports : \E b \in ports : Graph!Feeds(b, a)

Black == {a \in Graph!Ports : colour[a] = "Black"}

\* What is black feeds black ports alone, and holds no circle.
BlackIsDone ==
    /\ \A a \in Black : \A b \in Graph!Ports : Graph!Feeds(a, b) => b \in Black
    /\ \A ports \in SUBSET Black : ~ Circular(ports)

\* What the passes compute, now or later, has an output.
Computed == Graph!Nodes \ Graph!OfKind({"Sink"})
ComputedWait == queue \in Seq(Computed) /\ deferred \in Seq(Computed)

SearchInv ==
    /\ Graph!TypeOK /\ Graph!VerdictIsRight /\ Graph!WitnessIsCycle /\ ComputedWait
    /\ phase = "Analyse" => PathOfSearch /\ LookedAt /\ BlackIsDone
    /\ phase \notin {"Analyse", "Cyclic", "LimitExceeded"} => ~ Graph!HasCycle

\* What the assumption on the graph says of a node and of a wiring.
LEMMA GraphFacts ==
    /\ Len(Shapes) \in Nat /\ Graph!Nodes = 1..Len(Shapes)
    /\ \A n \in Graph!Nodes :
         /\ Shapes[n].kind \in Graph!Kinds /\ Shapes[n].inputs \in 0..2
         /\ Shapes[n].from \in Nat \ {0} /\ Shapes[n].to \in Nat \ {0}
    /\ \A f \in Wirings : f \in [Graph!Inputs -> Graph!Nodes \cup {0}]
    /\ MaxWitness \in Nat \ {0}
<1>0. PICK R : R = [kind : Graph!Kinds, inputs : 0..2, from : Nat \ {0}, to : Nat \ {0}]
  OBVIOUS
<1>1. /\ Shapes \in Seq(R)
      /\ \A f \in Wirings : f \in [Graph!Inputs -> Graph!Nodes \cup {0}]
      /\ MaxWitness \in Nat \ {0}
  BY <1>0, GraphAssumption DEF Graph!Assumption
<1>2. Len(Shapes) \in Nat /\ Graph!Nodes = 1..Len(Shapes)
  BY <1>1 DEF Graph!Nodes
<1>3. \A n \in 1..Len(Shapes) : Shapes[n] \in R
  BY <1>1
<1> QED BY <1>0, <1>1, <1>2, <1>3

\* An input is a node with one of its inputs, an output a node with its third port.
LEMMA PortsAre ==
    /\ \A i \in Graph!Inputs : \E n \in Graph!Nodes : \E p \in 1..2 :
         i = <<n, p>> /\ i \in Graph!InputsOf(n)
    /\ \A n \in Graph!Nodes : \A i \in Graph!InputsOf(n) : i \in Graph!Inputs /\ i[1] = n
    /\ \A i \in Graph!Inputs : i[1] \in Graph!Nodes /\ i \in Graph!Ports
    /\ \A n : Graph!Output(n) \notin Graph!Inputs
    /\ \A n, m : Graph!Output(n) = Graph!Output(m) => n = m
    /\ \A n \in Graph!Nodes : Shapes[n].kind # "Sink" => Graph!Output(n) \in Graph!Ports
    /\ \A a \in Graph!Ports : a \in Graph!Inputs \/ \E n \in Graph!Nodes : a = Graph!Output(n)
<1>1. \A n \in Graph!Nodes : Graph!InputsOf(n) = {<<n, p>> : p \in 1..Shapes[n].inputs}
  BY DEF Graph!InputsOf
<1>2. \A n \in Graph!Nodes : \A p \in 1..Shapes[n].inputs : p \in 1..2
  BY GraphFacts
<1>3. \A i \in Graph!Inputs : \E n \in Graph!Nodes : \E p \in 1..2 :
         i = <<n, p>> /\ i \in Graph!InputsOf(n)
  BY <1>1, <1>2 DEF Graph!Inputs
<1>4. \A n \in Graph!Nodes : \A i \in Graph!InputsOf(n) : i \in Graph!Inputs /\ i[1] = n
  BY <1>1 DEF Graph!Inputs
<1>5. \A n : Graph!Output(n) \notin Graph!Inputs
  BY <1>3 DEF Graph!Output
<1> QED BY <1>3, <1>4, <1>5 DEF Graph!Output, Graph!Ports, Graph!OfKind

\* Every port has a place.
LEMMA PlacesAre ==
    /\ \A k \in Graph!Places : k \in Nat \ {0}
    /\ \A a \in Graph!Ports : \E k \in Graph!Places : Graph!PortAt(k) = a
<1>1. \A k \in Graph!Places : k \in Nat \ {0}
  BY GraphFacts DEF Graph!Places
<1>2. ASSUME NEW n \in Graph!Nodes, NEW p \in 1..3
      PROVE  \E k \in Graph!Places : Graph!PortAt(k) = <<n, p>>
  <2>1. n \in Nat /\ 1 <= n /\ n <= Len(Shapes) /\ Len(Shapes) \in Nat
    BY GraphFacts
  <2>2. 3 * (n - 1) + p \in Graph!Places
    BY <2>1 DEF Graph!Places
  <2>3. /\ (3 * (n - 1) + p - 1) \div 3 = n - 1
        /\ (3 * (n - 1) + p - 1) % 3 = p - 1
    BY <2>1
  <2>4. Graph!PortAt(3 * (n - 1) + p) = <<n, p>>
    BY <2>1, <2>3 DEF Graph!PortAt
  <2> QED BY <2>2, <2>4
<1>3. \A a \in Graph!Ports : \E n \in Graph!Nodes : \E p \in 1..3 : a = <<n, p>>
  BY PortsAre DEF Graph!Output
<1> QED BY <1>1, <1>2, <1>3

\* A port feeds ports.
LEMMA FedPorts ==
    ASSUME wires \in [Graph!Inputs -> Graph!Nodes \cup {0}], NEW a, NEW b, Graph!Feeds(a, b)
    PROVE  b \in Graph!Ports
BY PortsAre DEF Graph!Feeds

\* An input is fed by the output it is wired to, an output by the inputs of its node.
LEMMA WhatFeeds ==
    ASSUME wires \in [Graph!Inputs -> Graph!Nodes \cup {0}], NEW a, NEW b, Graph!Feeds(a, b)
    PROVE  /\ b \in Graph!Inputs =>
                wires[b] \in Graph!Nodes /\ wires[b] # 0 /\ a = Graph!Output(wires[b])
           /\ \A n \in Graph!Nodes : b = Graph!Output(n) =>
                /\ a \in Graph!InputsOf(n)
                /\ Shapes[n].kind \notin {"UnitDelay", "Sink"}
<1>1. ASSUME b \in Graph!Inputs PROVE wires[b] # 0 /\ a = Graph!Output(wires[b])
  BY <1>1, PortsAre DEF Graph!Feeds
<1>2. ASSUME NEW n \in Graph!Nodes, b = Graph!Output(n)
      PROVE  a \in Graph!InputsOf(n) /\ Shapes[n].kind \notin {"UnitDelay", "Sink"}
  <2>1. b \notin Graph!Inputs
    BY <1>2, PortsAre
  <2>2. /\ a \in Graph!Inputs /\ b = Graph!Output(a[1])
        /\ Shapes[a[1]].kind \notin {"UnitDelay", "Sink"}
    BY <2>1 DEF Graph!Feeds
  <2>3. a[1] = n
    BY <1>2, <2>2, PortsAre
  <2> QED BY <2>2, <2>3, PortsAre
<1> QED BY <1>1, <1>2

\* Nodes that read each other are a circle of ports.
LEMMA CycleIsCircle ==
    ASSUME wires \in [Graph!Inputs -> Graph!Nodes \cup {0}], Graph!HasCycle
    PROVE  \E ports \in SUBSET Graph!Ports : Circular(ports)
<1>1. PICK nodes \in SUBSET (Graph!Nodes \ Graph!OfKind({"UnitDelay"})) :
        /\ nodes # {}
        /\ \A n \in nodes : /\ Shapes[n].kind # "Sink"
                            /\ \E i \in Graph!InputsOf(n) : wires[i] \in nodes
  BY DEF Graph!HasCycle
<1>2. PICK ports : ports = {Graph!Output(n) : n \in nodes}
                             \cup {i \in Graph!Inputs : i[1] \in nodes /\ wires[i] \in nodes}
  OBVIOUS
<1>3. ports \in SUBSET Graph!Ports /\ ports # {}
  BY <1>1, <1>2, PortsAre
<1>4. ASSUME NEW n \in nodes
      PROVE  \E b \in ports : Graph!Feeds(b, Graph!Output(n))
  <2>1. PICK i \in Graph!InputsOf(n) : wires[i] \in nodes
    BY <1>1, <1>4
  <2>2. n \in Graph!Nodes /\ i \in Graph!Inputs /\ i[1] = n
    BY <1>1, <1>4, PortsAre
  <2>3. Shapes[n].kind \notin {"UnitDelay", "Sink"}
    BY <1>1, <1>4 DEF Graph!OfKind
  <2> QED BY <1>2, <2>1, <2>2, <2>3 DEF Graph!Feeds
<1>5. ASSUME NEW i \in Graph!Inputs, i[1] \in nodes, wires[i] \in nodes
      PROVE  \E b \in ports : Graph!Feeds(b, i)
  <2>1. wires[i] # 0
    BY <1>1, <1>5, GraphFacts
  <2> QED BY <1>2, <1>5, <2>1 DEF Graph!Feeds
<1>6. \A a \in ports : \E b \in ports : Graph!Feeds(b, a)
  BY <1>2, <1>4, <1>5
<1> QED BY <1>3, <1>6 DEF Circular

\* A sequence of ports that feed each other in a circle.
IsCycle(links) ==
    /\ links \in Seq(Graph!Ports) /\ Len(links) > 0
    /\ \A i, j \in 1..Len(links) : links[i] = links[j] => i = j
    /\ \A i \in 1..(Len(links) - 1) : Graph!Feeds(links[i], links[i + 1])
    /\ Graph!Feeds(links[Len(links)], links[1])

\* Such a sequence is a cycle of nodes.
LEMMA CircleIsCycle ==
    ASSUME wires \in [Graph!Inputs -> Graph!Nodes \cup {0}], NEW links, IsCycle(links)
    PROVE  Graph!HasCycle
<1>1. \A i \in 1..Len(links) : links[i] \in Graph!Ports
  BY DEF IsCycle
<1>2. \A i \in 1..Len(links) : \E j \in 1..Len(links) : Graph!Feeds(links[j], links[i])
  <2> SUFFICES ASSUME NEW i \in 1..Len(links)
               PROVE  \E j \in 1..Len(links) : Graph!Feeds(links[j], links[i])
    OBVIOUS
  <2>1. CASE i = 1
    BY <2>1 DEF IsCycle
  <2>2. CASE i # 1
    <3>1. i - 1 \in 1..(Len(links) - 1) /\ i - 1 \in 1..Len(links) /\ (i - 1) + 1 = i
      BY <2>2 DEF IsCycle
    <3> QED BY <3>1 DEF IsCycle
  <2> QED BY <2>1, <2>2
<1>3. PICK nodes : nodes = {n \in Graph!Nodes : \E i \in 1..Len(links) : links[i] = Graph!Output(n)}
  OBVIOUS
<1>4. ASSUME NEW n \in nodes
      PROVE  /\ Shapes[n].kind \notin {"UnitDelay", "Sink"}
             /\ \E i \in Graph!InputsOf(n) : wires[i] \in nodes
  <2>1. PICK i \in 1..Len(links) : links[i] = Graph!Output(n)
    BY <1>3, <1>4
  <2>2. PICK j \in 1..Len(links) : Graph!Feeds(links[j], links[i])
    BY <1>2
  <2>3. links[j] \in Graph!InputsOf(n) /\ Shapes[n].kind \notin {"UnitDelay", "Sink"}
    BY <1>3, <1>4, <2>1, <2>2, WhatFeeds
  <2>4. links[j] \in Graph!Inputs
    BY <1>3, <2>3, PortsAre
  <2>5. PICK m \in 1..Len(links) : Graph!Feeds(links[m], links[j])
    BY <1>2
  <2>6. wires[links[j]] \in Graph!Nodes /\ links[m] = Graph!Output(wires[links[j]])
    BY <2>4, <2>5, WhatFeeds
  <2> QED BY <1>3, <2>3, <2>6
<1>5. nodes # {}
  <2>1. 1 \in 1..Len(links)
    BY DEF IsCycle
  <2>2. CASE \E n \in Graph!Nodes : links[1] = Graph!Output(n)
    BY <1>3, <2>1, <2>2
  <2>3. CASE links[1] \in Graph!Inputs
    <3>1. PICK m \in 1..Len(links) : Graph!Feeds(links[m], links[1])
      BY <1>2, <2>1
    <3> QED BY <1>3, <2>3, <3>1, WhatFeeds
  <2> QED BY <1>1, <2>1, <2>2, <2>3, PortsAre
<1>6. nodes \in SUBSET (Graph!Nodes \ Graph!OfKind({"UnitDelay"}))
  BY <1>3, <1>4 DEF Graph!OfKind
<1> QED BY <1>4, <1>5, <1>6 DEF Graph!HasCycle

\* A port is on the stack once, so the stack is no longer than there are places.
LEMMA StackFits ==
    ASSUME \A i \in 1..Len(stack) : stack[i].port \in Graph!Ports,
           \A i, j \in 1..Len(stack) : stack[i].port = stack[j].port => i = j,
           Len(stack) \in Nat
    PROVE  Len(stack) <= 3 * Len(Shapes)
<1>1. Len(Shapes) \in Nat /\ 3 * Len(Shapes) \in Int /\ 1 \in Int /\ Len(stack) \in Int
  BY GraphFacts
<1>2. /\ IsFiniteSet(1..(3 * Len(Shapes)))
      /\ Cardinality(1..(3 * Len(Shapes))) = IF 1 > 3 * Len(Shapes) THEN 0 ELSE 3 * Len(Shapes) - 1 + 1
  BY <1>1, FS_Interval
<1>3. Cardinality(1..Len(stack)) = IF 1 > Len(stack) THEN 0 ELSE Len(stack) - 1 + 1
  BY <1>1, FS_Interval
<1>4. PICK g : g = [i \in 1..Len(stack) |->
                      CHOOSE k \in Graph!Places : Graph!PortAt(k) = stack[i].port]
  OBVIOUS
<1>5. \A i \in 1..Len(stack) : g[i] \in Graph!Places /\ Graph!PortAt(g[i]) = stack[i].port
  BY <1>4, PlacesAre
<1>6. g \in Injection(1..Len(stack), 1..(3 * Len(Shapes)))
  <2>1. g \in [1..Len(stack) -> 1..(3 * Len(Shapes))]
    BY <1>4, <1>5 DEF Graph!Places
  <2>2. \A i, j \in 1..Len(stack) : g[i] = g[j] => i = j
    BY <1>5
  <2> QED BY <2>1, <2>2 DEF Injection, IsInjective
<1>7. Cardinality(1..Len(stack)) <= Cardinality(1..(3 * Len(Shapes)))
  BY <1>2, <1>6, FS_Injection
<1> QED BY <1>1, <1>2, <1>3, <1>7

\* The parent of a port that has none is no port.
LEMMA NoneIsNoPort == Graph!None \notin Graph!Ports
<1>1. \A n \in Graph!Nodes : n # 0
  BY GraphFacts
<1> QED BY <1>1, PortsAre DEF Graph!None, Graph!Output

\* The parents lead from the top of the stack back to any port on it.
LEMMA BackIsPath ==
    ASSUME PathOfSearch, \A i \in 1..Len(stack) : stack[i].port \in Graph!Ports,
           Len(stack) \in Nat, NEW j \in 1..Len(stack)
    PROVE  Graph!Back(stack[j].port, stack[Len(stack)].port)
             = [i \in 1..(Len(stack) - j + 1) |-> stack[j + i - 1].port]
<1>0. PICK L, d, N, first, last :
        /\ L = Len(stack) /\ d = L - j /\ N = 3 * Len(Shapes)
        /\ first = stack[j].port /\ last = stack[L].port
  OBVIOUS
<1>1. L \in Nat /\ N \in Nat /\ L <= N /\ d \in 0..N /\ L - d = j /\ d < L
  BY <1>0, StackFits, GraphFacts DEF PathOfSearch
<1>i. {0} \cup Graph!Places = 0..N
  BY <1>0, GraphFacts DEF Graph!Places
<1> DEFINE Made(f) == f = [i \in {0} \cup Graph!Places |-> IF i = 0 THEN last
                                        ELSE IF f[i - 1] \in {Graph!None, first} THEN Graph!None
                                        ELSE parent[f[i - 1]]]
<1>2. PICK path : path = [i \in 0..N |-> IF i <= d THEN stack[L - i].port ELSE Graph!None]
  OBVIOUS
<1>3. Made(path)
  <2> SUFFICES ASSUME NEW i \in 0..N
               PROVE  path[i] = IF i = 0 THEN last
                                ELSE IF path[i - 1] \in {Graph!None, first} THEN Graph!None
                                ELSE parent[path[i - 1]]
    BY <1>i, <1>2
  <2>1. CASE i = 0
    BY <1>0, <1>1, <1>2, <2>1
  <2>2. CASE i # 0 /\ i <= d
    <3>1. /\ i - 1 \in 0..N /\ i - 1 <= d /\ L - (i - 1) \in 1..L /\ L - (i - 1) # j
          /\ L - i \in 1..(L - 1) /\ (L - i) + 1 = L - (i - 1)
      BY <1>1, <2>2
    <3>2. path[i - 1] = stack[L - (i - 1)].port /\ path[i] = stack[L - i].port
      BY <1>2, <2>2, <3>1
    <3>3. path[i - 1] \notin {Graph!None, first}
      <4>1. L - (i - 1) \in 1..Len(stack)
        BY <1>0, <3>1
      <4>2. stack[L - (i - 1)].port # Graph!None
        BY <4>1, NoneIsNoPort
      <4>3. stack[L - (i - 1)].port # stack[j].port
        BY <3>1, <4>1 DEF PathOfSearch
      <4> QED BY <1>0, <3>2, <4>2, <4>3
    <3>4. parent[path[i - 1]] = path[i]
      BY <1>0, <3>1, <3>2 DEF PathOfSearch
    <3> QED BY <2>2, <3>3, <3>4
  <2>3. CASE i # 0 /\ ~ (i <= d)
    <3>1. i - 1 \in 0..N /\ path[i] = Graph!None
      BY <1>1, <1>2, <2>3
    <3>2. path[i - 1] \in {Graph!None, first}
      <4>1. CASE i - 1 = d
        BY <1>0, <1>1, <1>2, <3>1, <4>1
      <4>2. CASE i - 1 # d
        BY <1>1, <1>2, <2>3, <3>1, <4>2
      <4> QED BY <4>1, <4>2
    <3> QED BY <2>3, <3>1, <3>2
  <2> QED BY <2>1, <2>2, <2>3
<1>4. ASSUME NEW f, Made(f) PROVE f = path
  <2>1. PICK T : T = {i \in 0..N : f[i] # path[i]}
    OBVIOUS
  <2>2. CASE T = {}
    BY <1>i, <1>2, <1>4, <2>1, <2>2
  <2>3. CASE T # {}
    <3>1. PICK m \in T : \A i \in T : m <= i
      <4>1. T \in SUBSET Nat
        BY <2>1
      <4> QED BY <2>3, <4>1, SmallestOf
    <3>2. m # 0
      BY <1>0, <1>i, <1>1, <1>3, <1>4, <2>1, <3>1
    <3>3. m \in 0..N /\ m - 1 \in 0..N /\ m - 1 \notin T
      BY <1>1, <2>1, <3>1, <3>2
    <3>4. f[m - 1] = path[m - 1]
      BY <2>1, <3>3
    <3>5. f[m] = path[m]
      BY <1>i, <1>3, <1>4, <3>2, <3>3, <3>4
    <3> QED BY <2>1, <3>1, <3>5
  <2> QED BY <2>2, <2>3
<1> DEFINE cursor == CHOOSE f : Made(f)
<1>6. cursor = path
  <2>1. Made(cursor)
    BY <1>3
  <2> QED BY <1>4, <2>1
<1>7. Graph!Back(first, last)
        = [i \in 1..((CHOOSE k \in DOMAIN cursor : cursor[k] = first) + 1) |->
             cursor[(CHOOSE k \in DOMAIN cursor : cursor[k] = first) + 1 - i]]
  BY DEF Graph!Back
<1> HIDE DEF Made, cursor
<1>8. (CHOOSE k \in DOMAIN cursor : cursor[k] = first) = d
  <2>1. DOMAIN cursor = 0..N /\ cursor[d] = first
    BY <1>0, <1>1, <1>2, <1>6
  <2>2. \A k \in 0..N : cursor[k] = first => k = d
    <3> SUFFICES ASSUME NEW k \in 0..N, cursor[k] = first PROVE k = d
      OBVIOUS
    <3>1. k <= d
      BY <1>0, <1>2, <1>6, NoneIsNoPort
    <3>2. cursor[k] = stack[L - k].port /\ L - k \in 1..L
      BY <1>1, <1>2, <1>6, <3>1
    <3>3. L - k = j
      BY <1>0, <3>2 DEF PathOfSearch
    <3> QED BY <1>1, <3>3
  <2> QED BY <1>1, <2>1, <2>2
<1>9. Graph!Back(first, last) = [i \in 1..(d + 1) |-> path[d + 1 - i]]
  BY <1>6, <1>7, <1>8
<1>10. \A i \in 1..(d + 1) : path[d + 1 - i] = stack[j + i - 1].port
  <2> SUFFICES ASSUME NEW i \in 1..(d + 1) PROVE path[d + 1 - i] = stack[j + i - 1].port
    OBVIOUS
  <2>1. d + 1 - i \in 0..N /\ d + 1 - i <= d /\ L - (d + 1 - i) = j + i - 1
    BY <1>1
  <2> QED BY <1>2, <2>1
<1> QED BY <1>0, <1>9, <1>10

Entries == [port : Graph!Ports, next : 1..(3 * Len(Shapes) + 1)]
Phases == {"Analyse", "Cyclic", "LimitExceeded", "Incomplete", "Transitions", "Groups",
           "Done", "Unavailable"}

SearchTypes ==
    /\ wires \in [Graph!Inputs -> Graph!Nodes \cup {0}] /\ injected \subseteq Graph!Inputs
    /\ phase \in Phases
    /\ colour \in [Graph!Ports -> {"White", "Grey", "Black"}]
    /\ parent \in [Graph!Ports -> Graph!Ports \cup {Graph!None}]
    /\ stack \in Seq(Entries) /\ witness \in Seq(Graph!Ports)
PassTypes ==
    /\ clock \in Graph!Clocks \cup {0} /\ progressed \in BOOLEAN
    /\ queue \in Seq(Graph!Nodes) /\ deferred \in Seq(Graph!Nodes) /\ order \in Seq(Graph!Nodes)
    /\ streams \subseteq Graph!Ports /\ available \subseteq Graph!Ports

\* The types, by what the search and the passes keep.
LEMMA TypesOfParts == Graph!TypeOK <=> SearchTypes /\ PassTypes
BY DEF Graph!TypeOK, SearchTypes, PassTypes, Entries, Phases

\* The search leaves the passes alone.
LEMMA PassTypesKept == PassTypes /\ UNCHANGED Graph!passes => PassTypes'
BY DEF PassTypes, Graph!passes

\* What the graph is does not change, so neither does what feeds what.
LEMMA GraphKept ==
    ASSUME wires' = wires
    PROVE  /\ \A a, b : Graph!Feeds(a, b)' <=> Graph!Feeds(a, b)
           /\ Graph!HasCycle' <=> Graph!HasCycle
           /\ \A ports : Circular(ports)' <=> Circular(ports)
<1>1. \A a, b : Graph!Feeds(a, b)' <=> Graph!Feeds(a, b)
  BY DEF Graph!Feeds
<1>2. Graph!HasCycle' <=> Graph!HasCycle
  BY DEF Graph!HasCycle
<1> QED BY <1>1, <1>2 DEF Circular

\* What is done with stays so while no port becomes black.
LEMMA BlackKept ==
    ASSUME BlackIsDone, wires' = wires, Black' = Black
    PROVE  BlackIsDone'
BY GraphKept DEF BlackIsDone

\* In the search only these parts are at stake.
LEMMA SearchGoesOn ==
    ASSUME SearchInv, SearchTypes', UNCHANGED <<wires, Graph!passes>>, phase = "Analyse",
           phase' = "Analyse", PathOfSearch', LookedAt', BlackIsDone'
    PROVE  SearchInv'
<1>1. Graph!TypeOK'
  <2>1. PassTypes'
    BY TypesOfParts, PassTypesKept DEF SearchInv
  <2> QED BY <2>1 DEF Graph!TypeOK, SearchTypes, PassTypes, Entries, Phases
<1>2. ComputedWait'
  BY DEF SearchInv, ComputedWait, Graph!passes
<1> QED BY <1>1, <1>2 DEF SearchInv, Graph!VerdictIsRight, Graph!WitnessIsCycle

\* At the start no port is looked at.
LEMMA SearchInit == Graph!Init => SearchInv
<1> SUFFICES ASSUME Graph!Init PROVE SearchInv
  OBVIOUS
<1> USE DEF Graph!Init
<1>1. wires \in [Graph!Inputs -> Graph!Nodes \cup {0}] /\ injected \subseteq Graph!Inputs
  BY GraphFacts DEF Graph!Unconnected
<1>2. SearchTypes
  BY <1>1, EmptySeq DEF SearchTypes, Phases
<1>3. PassTypes
  BY EmptySeq DEF PassTypes
<1>4. Len(stack) = 0
  OBVIOUS
<1>5. PathOfSearch /\ LookedAt
  BY <1>4 DEF PathOfSearch, LookedAt
<1>6. Black = {}
  BY DEF Black
<1>7. BlackIsDone
  BY <1>6 DEF BlackIsDone, Circular
<1>8. Graph!VerdictIsRight /\ Graph!WitnessIsCycle
  BY DEF Graph!VerdictIsRight, Graph!WitnessIsCycle
<1>9. ComputedWait
  BY EmptySeq DEF ComputedWait
<1> QED BY <1>2, <1>3, <1>5, <1>7, <1>8, <1>9, TypesOfParts DEF SearchInv

\* A new search begins with nothing on the stack.
LEMMA SearchStartKeeps ==
    ASSUME SearchInv, Graph!SearchStart
    PROVE  SearchInv'
<1>0. SearchTypes /\ PathOfSearch /\ BlackIsDone
  BY TypesOfParts DEF SearchInv, Graph!SearchStart
<1>1. PICK place \in Graph!PlacesOf(Graph!White) :
        /\ colour' = [colour EXCEPT ![Graph!PortAt(place)] = "Grey"]
        /\ stack' = <<[port |-> Graph!PortAt(place), next |-> 1]>>
  BY DEF Graph!SearchStart
<1>2. PICK start : start = Graph!PortAt(place)
  OBVIOUS
<1>3. start \in Graph!Ports /\ colour[start] = "White"
  BY <1>2 DEF Graph!PlacesOf, Graph!White
<1>4. /\ stack = <<>> /\ UNCHANGED <<wires, injected, phase, parent, witness, Graph!passes>>
      /\ phase = "Analyse"
  BY DEF Graph!SearchStart
<1>5. stack' = <<[port |-> start, next |-> 1]>> /\ colour' = [colour EXCEPT ![start] = "Grey"]
  BY <1>1, <1>2
<1>6. [port |-> start, next |-> 1] \in Entries
  BY <1>3, GraphFacts DEF Entries
<1>7. Len(stack') = 1 /\ stack'[1] = [port |-> start, next |-> 1] /\ stack' \in Seq(Entries)
  BY <1>5, <1>6
<1>8. SearchTypes'
  BY <1>0, <1>3, <1>4, <1>5, <1>7 DEF SearchTypes
<1>9. \A a \in Graph!Ports : colour[a] # "Grey"
  BY <1>0, <1>4 DEF PathOfSearch
<1>10. PathOfSearch'
  BY <1>0, <1>3, <1>5, <1>7, <1>9 DEF PathOfSearch, SearchTypes
<1>11. LookedAt'
  BY <1>7, PlacesAre DEF LookedAt
<1>12. Black' = Black
  BY <1>0, <1>3, <1>5 DEF Black, SearchTypes
<1> QED BY <1>0, <1>4, <1>8, <1>10, <1>11, <1>12, BlackKept, SearchGoesOn

\* The stack's entries, and the one on top.
LEMMA StackFacts ==
    ASSUME SearchTypes, stack # <<>>
    PROVE  /\ Len(stack) \in Nat /\ Len(stack) > 0
           /\ \A i \in 1..Len(stack) :
                stack[i] \in Entries /\ stack[i].port \in Graph!Ports /\ stack[i].next \in Nat
           /\ Graph!Top = stack[Len(stack)]
<1>1. stack \in Seq(Entries)
  BY DEF SearchTypes
<1>2. Len(stack) \in Nat /\ Len(stack) > 0 /\ \A i \in 1..Len(stack) : stack[i] \in Entries
  BY <1>1
<1>3. \A e \in Entries : e.port \in Graph!Ports /\ e.next \in Nat
  BY GraphFacts DEF Entries
<1> QED BY <1>2, <1>3 DEF Graph!Top, Graph!Last

\* A port all of whose edges were looked at is done with.
LEMMA SearchPopKeeps ==
    ASSUME SearchInv, Graph!SearchPop
    PROVE  SearchInv'
<1>0. SearchTypes /\ PathOfSearch /\ LookedAt /\ BlackIsDone
  BY TypesOfParts DEF SearchInv, Graph!SearchPop
<1>1. PICK L, top : L = Len(stack) /\ top = stack[L].port
  OBVIOUS
<1>2. /\ stack # <<>> /\ UNCHANGED <<wires, injected, phase, parent, witness, Graph!passes>>
      /\ phase = "Analyse"
  BY DEF Graph!SearchPop
<1>3. /\ L \in Nat /\ L > 0 /\ top \in Graph!Ports /\ stack[L].next \in Nat
      /\ \A i \in 1..L : stack[i] \in Entries /\ stack[i].port \in Graph!Ports
      /\ Graph!Top = stack[L]
  BY <1>0, <1>1, <1>2, StackFacts
<1>4. /\ colour' = [colour EXCEPT ![top] = "Black"]
      /\ stack' = SubSeq(stack, 1, L - 1)
      /\ Graph!FedFrom(top, stack[L].next) = {}
  BY <1>1, <1>3 DEF Graph!SearchPop, Graph!Front
<1>5. /\ stack' \in Seq(Entries) /\ Len(stack') = L - 1
      /\ \A i \in 1..(L - 1) : stack'[i] = stack[i]
  BY <1>0, <1>1, <1>3, <1>4 DEF SearchTypes
<1>6. SearchTypes'
  BY <1>0, <1>2, <1>3, <1>4, <1>5 DEF SearchTypes
<1>7. colour[top] = "Grey" /\ \A i \in 1..(L - 1) : stack[i].port # top
  BY <1>0, <1>1, <1>3 DEF PathOfSearch
<1>8. /\ colour'[top] = "Black"
      /\ \A a \in Graph!Ports : a # top => colour'[a] = colour[a]
  BY <1>0, <1>3, <1>4 DEF SearchTypes
<1>9. PathOfSearch'
  <2>1. ASSUME NEW a \in Graph!Ports, colour'[a] = "Grey"
        PROVE  \E i \in 1..Len(stack') : stack'[i].port = a
    <3>1. a # top /\ colour[a] = "Grey"
      BY <1>8, <2>1
    <3>2. PICK i \in 1..L : stack[i].port = a
      BY <1>0, <1>1, <3>1 DEF PathOfSearch
    <3>3. i \in 1..(L - 1)
      BY <1>1, <1>3, <3>1, <3>2
    <3> QED BY <1>5, <3>2, <3>3
  <2>2. \A i \in 1..Len(stack') : colour'[stack'[i].port] = "Grey"
    BY <1>0, <1>1, <1>3, <1>5, <1>7, <1>8 DEF PathOfSearch
  <2>3. \A i, j \in 1..Len(stack') : stack'[i].port = stack'[j].port => i = j
    <3> SUFFICES ASSUME NEW i \in 1..(L - 1), NEW j \in 1..(L - 1),
                        stack'[i].port = stack'[j].port
                 PROVE  i = j
      BY <1>5
    <3>1. i \in 1..L /\ j \in 1..L /\ stack[i].port = stack[j].port
      BY <1>3, <1>5
    <3> QED BY <1>0, <1>1, <3>1 DEF PathOfSearch
  <2>4. \A i \in 1..(Len(stack') - 1) :
           /\ parent'[stack'[i + 1].port] = stack'[i].port
           /\ Graph!Feeds(stack'[i].port, stack'[i + 1].port)
    <3> SUFFICES ASSUME NEW i \in 1..(L - 2)
                 PROVE  /\ parent'[stack'[i + 1].port] = stack'[i].port
                        /\ Graph!Feeds(stack'[i].port, stack'[i + 1].port)
      BY <1>3, <1>5
    <3>1. i \in 1..(L - 1) /\ i + 1 \in 1..(L - 1)
      BY <1>3
    <3> QED BY <1>0, <1>1, <1>2, <1>5, <3>1 DEF PathOfSearch
  <2> QED BY <1>2, <2>1, <2>2, <2>3, <2>4, GraphKept DEF PathOfSearch
<1>10. \A b \in Graph!Ports : Graph!Feeds(top, b) => b \in Black
  <2> SUFFICES ASSUME NEW b \in Graph!Ports, Graph!Feeds(top, b) PROVE b \in Black
    OBVIOUS
  <2>1. PICK k \in Graph!Places : Graph!PortAt(k) = b
    BY PlacesAre
  <2>2. k < stack[L].next
    BY <1>3, <1>4, <2>1, PlacesAre DEF Graph!FedFrom
  <2>3. L \in 1..Len(stack) /\ ~ (L < Len(stack))
    BY <1>1, <1>3
  <2> QED BY <1>0, <1>1, <2>1, <2>2, <2>3 DEF LookedAt, Black
<1>11. Black' = Black \cup {top}
  BY <1>3, <1>8 DEF Black
<1>12. LookedAt'
  <2> SUFFICES ASSUME NEW i \in 1..(L - 1), NEW k \in Graph!Places, k < stack[i].next,
                      Graph!Feeds(stack[i].port, Graph!PortAt(k))
               PROVE  \/ colour'[Graph!PortAt(k)] = "Black"
                      \/ i < L - 1 /\ Graph!PortAt(k) = stack'[i + 1].port
    BY <1>2, <1>3, <1>5, GraphKept DEF LookedAt
  <2>1. i \in 1..L /\ Graph!PortAt(k) \in Graph!Ports
    BY <1>0, <1>3, FedPorts DEF SearchTypes
  <2>2. CASE colour[Graph!PortAt(k)] = "Black"
    BY <1>8, <2>1, <2>2
  <2>3. CASE Graph!PortAt(k) = stack[i + 1].port
    <3>1. CASE i = L - 1
      BY <1>1, <1>3, <1>8, <2>3, <3>1
    <3>2. CASE i # L - 1
      <4>1. i < L - 1 /\ i + 1 \in 1..(L - 1)
        BY <1>3, <3>2
      <4> QED BY <1>5, <2>3, <4>1
    <3> QED BY <3>1, <3>2
  <2> QED BY <1>0, <1>1, <2>1, <2>2, <2>3 DEF LookedAt
<1>13. BlackIsDone'
  <2>1. \A a \in Black' : \A b \in Graph!Ports : Graph!Feeds(a, b) => b \in Black'
    BY <1>0, <1>10, <1>11 DEF BlackIsDone
  <2>2. ASSUME NEW ports \in SUBSET Black', Circular(ports) PROVE FALSE
    <3>1. top \notin Black
      BY <1>7 DEF Black
    <3>2. top \notin ports
      <4> SUFFICES ASSUME top \in ports PROVE FALSE
        OBVIOUS
      <4>1. PICK b \in ports : Graph!Feeds(b, top)
        BY <2>2 DEF Circular
      <4>2. b \in Black \/ b = top
        BY <1>11
      <4> QED BY <1>0, <1>3, <1>10, <3>1, <4>1, <4>2 DEF BlackIsDone
    <3> QED BY <1>0, <1>11, <2>2, <3>2 DEF BlackIsDone
  <2> QED BY <1>2, <2>1, <2>2, GraphKept DEF BlackIsDone
<1> QED BY <1>2, <1>6, <1>9, <1>12, <1>13, SearchGoesOn

\* What taking an edge of the port on top does: its target, and the stack past it.
EdgeOf(place, target, advanced) ==
    /\ target = Graph!PortAt(place)
    /\ Graph!Feeds(stack[Len(stack)].port, target)
    /\ \A k \in Graph!Places : stack[Len(stack)].next <= k /\ k < place =>
         ~ Graph!Feeds(stack[Len(stack)].port, Graph!PortAt(k))
    /\ advanced = [stack EXCEPT ![Len(stack)].next = place + 1]
    /\ \/ /\ colour[target] = "White"
          /\ colour' = [colour EXCEPT ![target] = "Grey"]
          /\ parent' = [parent EXCEPT ![target] = stack[Len(stack)].port]
          /\ stack' = Append(advanced, [port |-> target, next |-> 1])
          /\ UNCHANGED <<phase, witness>>
       \/ /\ colour[target] = "Grey"
          /\ LET links == Graph!Back(target, stack[Len(stack)].port) IN
             IF Len(links) > MaxWitness
             THEN phase' = "LimitExceeded" /\ witness' = <<>>
             ELSE phase' = "Cyclic" /\ witness' = links
          /\ stack' = advanced
          /\ UNCHANGED <<colour, parent>>
       \/ /\ colour[target] = "Black"
          /\ stack' = advanced
          /\ UNCHANGED <<phase, colour, parent, witness>>

\* The step of an edge is one of these.
LEMMA EdgeTaken ==
    ASSUME SearchInv, Graph!SearchEdge
    PROVE  \E place \in Graph!Places, target \in Graph!Ports, advanced \in Seq(Entries) :
             EdgeOf(place, target, advanced)
<1>0. SearchTypes /\ stack # <<>>
  BY TypesOfParts DEF SearchInv, Graph!SearchEdge
<1>1. PICK L, entry : L = Len(stack) /\ entry = stack[L]
  OBVIOUS
<1>2. /\ L \in Nat /\ L > 0 /\ entry \in Entries /\ entry.next \in Nat
      /\ entry.port \in Graph!Ports /\ Graph!Top = entry /\ stack \in Seq(Entries)
  BY <1>0, <1>1, StackFacts DEF SearchTypes
<1>3. PICK place \in Graph!FedFrom(entry.port, entry.next) :
        /\ \A k \in Graph!FedFrom(entry.port, entry.next) : place <= k
        /\ \/ /\ colour[Graph!PortAt(place)] = "White"
              /\ colour' = [colour EXCEPT ![Graph!PortAt(place)] = "Grey"]
              /\ parent' = [parent EXCEPT ![Graph!PortAt(place)] = entry.port]
              /\ stack' = Append([stack EXCEPT ![L].next = place + 1],
                                 [port |-> Graph!PortAt(place), next |-> 1])
              /\ UNCHANGED <<phase, witness>>
           \/ /\ colour[Graph!PortAt(place)] = "Grey"
              /\ LET links == Graph!Back(Graph!PortAt(place), entry.port) IN
                 IF Len(links) > MaxWitness
                 THEN phase' = "LimitExceeded" /\ witness' = <<>>
                 ELSE phase' = "Cyclic" /\ witness' = links
              /\ stack' = [stack EXCEPT ![L].next = place + 1]
              /\ UNCHANGED <<colour, parent>>
           \/ /\ colour[Graph!PortAt(place)] = "Black"
              /\ stack' = [stack EXCEPT ![L].next = place + 1]
              /\ UNCHANGED <<phase, colour, parent, witness>>
  BY <1>1, <1>2 DEF Graph!SearchEdge
<1>4. /\ place \in Graph!Places /\ place >= entry.next
      /\ Graph!Feeds(entry.port, Graph!PortAt(place))
  BY DEF Graph!FedFrom
<1>5. Graph!PortAt(place) \in Graph!Ports
  BY <1>0, <1>4, FedPorts DEF SearchTypes
<1>6. \A k \in Graph!Places : entry.next <= k /\ k < place =>
        ~ Graph!Feeds(entry.port, Graph!PortAt(k))
  <2> SUFFICES ASSUME NEW k \in Graph!Places, entry.next <= k, k < place,
                      Graph!Feeds(entry.port, Graph!PortAt(k))
               PROVE  FALSE
    OBVIOUS
  <2>1. k \in Graph!FedFrom(entry.port, entry.next)
    BY <1>2, PlacesAre DEF Graph!FedFrom
  <2> QED BY <1>3, <1>4, <2>1, PlacesAre
<1>7. [stack EXCEPT ![L].next = place + 1] \in Seq(Entries)
  <2>1. [entry EXCEPT !.next = place + 1] \in Entries
    <3>1. place + 1 \in 1..(3 * Len(Shapes) + 1)
      BY <1>4, GraphFacts DEF Graph!Places
    <3> QED BY <1>2, <3>1 DEF Entries
  <2>2. PICK e : e = [entry EXCEPT !.next = place + 1]
    OBVIOUS
  <2>3. [stack EXCEPT ![L].next = place + 1] = [stack EXCEPT ![L] = e]
    BY <1>1, <2>2
  <2>4. L \in 1..Len(stack) /\ e \in Entries
    BY <1>1, <1>2, <2>1, <2>2
  <2>5. [stack EXCEPT ![L] = e] \in Seq(Entries)
    BY <1>2, <2>4
  <2> QED BY <2>3, <2>5
<1>8. PICK target, advanced :
        /\ target = Graph!PortAt(place) /\ advanced = [stack EXCEPT ![L].next = place + 1]
  OBVIOUS
<1>9. target \in Graph!Ports /\ advanced \in Seq(Entries)
  BY <1>5, <1>7, <1>8
<1>10. EdgeOf(place, target, advanced)
  BY <1>1, <1>3, <1>4, <1>6, <1>8 DEF EdgeOf
<1> QED BY <1>4, <1>9, <1>10

\* The stack past the edge differs in where its top goes on.
LEMMA AdvancedStack ==
    ASSUME SearchTypes, stack # <<>>, NEW place \in Graph!Places, NEW target,
           NEW advanced \in Seq(Entries), EdgeOf(place, target, advanced)
    PROVE  /\ Len(advanced) = Len(stack) /\ advanced[Len(stack)].next = place + 1
           /\ \A i \in 1..Len(stack) : advanced[i].port = stack[i].port
           /\ \A i \in 1..(Len(stack) - 1) : advanced[i].next = stack[i].next
<1>1. PICK L, entry : L = Len(stack) /\ entry = stack[L]
  OBVIOUS
<1>2. L \in Nat /\ L > 0 /\ entry \in Entries /\ stack \in Seq(Entries)
  BY <1>1, StackFacts DEF SearchTypes
<1>3. PICK e : e = [entry EXCEPT !.next = place + 1]
  OBVIOUS
<1>4. e.next = place + 1 /\ e.port = entry.port
  BY <1>2, <1>3 DEF Entries
<1>5. advanced = [stack EXCEPT ![L] = e]
  BY <1>1, <1>3 DEF EdgeOf
<1>6. /\ Len(advanced) = L /\ advanced[L] = e
      /\ \A i \in 1..L : i # L => advanced[i] = stack[i]
  BY <1>1, <1>2, <1>5
<1> QED BY <1>1, <1>2, <1>4, <1>6

\* What the port on top feeds up to an edge that was taken.
LEMMA LookedAtPast ==
    ASSUME SearchTypes, stack # <<>>, LookedAt, wires' = wires,
           NEW place \in Graph!Places, NEW target \in Graph!Ports,
           NEW advanced \in Seq(Entries), EdgeOf(place, target, advanced),
           NEW i \in 1..Len(stack), NEW k \in Graph!Places, k < advanced[i].next,
           Graph!Feeds(stack[i].port, Graph!PortAt(k))
    PROVE  \/ colour[Graph!PortAt(k)] = "Black"
           \/ i < Len(stack) /\ Graph!PortAt(k) = stack[i + 1].port
           \/ i = Len(stack) /\ Graph!PortAt(k) = target
<1>1. /\ advanced[Len(stack)].next = place + 1
      /\ \A n \in 1..(Len(stack) - 1) : advanced[n].next = stack[n].next
  BY AdvancedStack
<1>2. Len(stack) \in Nat /\ stack[Len(stack)].next \in Nat /\ k \in Nat /\ place \in Nat
  BY StackFacts, PlacesAre
<1>3. CASE i < Len(stack)
  <2>1. k < stack[i].next
    BY <1>1, <1>2, <1>3
  <2> QED BY <1>3, <2>1 DEF LookedAt
<1>4. CASE i = Len(stack)
  <2>1. k < place + 1
    BY <1>1, <1>4
  <2>2. CASE k = place
    BY <1>4, <2>2 DEF EdgeOf
  <2>3. CASE k < stack[Len(stack)].next
    BY <1>2, <1>4, <2>3 DEF LookedAt
  <2>4. ~ (k # place /\ stack[Len(stack)].next <= k)
    BY <1>2, <1>4, <2>1 DEF EdgeOf
  <2> QED BY <1>2, <2>2, <2>3, <2>4
<1> QED BY <1>2, <1>3, <1>4

\* A port met for the first time goes on the stack.
LEMMA PushKeeps ==
    ASSUME SearchInv, phase = "Analyse", stack # <<>>,
           UNCHANGED <<wires, injected, Graph!passes>>,
           NEW place \in Graph!Places, NEW target \in Graph!Ports,
           NEW advanced \in Seq(Entries), EdgeOf(place, target, advanced),
           colour[target] = "White"
    PROVE  SearchInv'
<1>0. SearchTypes /\ PathOfSearch /\ LookedAt /\ BlackIsDone
  BY TypesOfParts DEF SearchInv
<1>1. PICK L : L = Len(stack)
  OBVIOUS
<1>2. /\ colour' = [colour EXCEPT ![target] = "Grey"]
      /\ parent' = [parent EXCEPT ![target] = stack[L].port]
      /\ stack' = Append(advanced, [port |-> target, next |-> 1])
      /\ UNCHANGED <<phase, witness>>
  BY <1>1 DEF EdgeOf
<1>3. /\ L \in Nat /\ L > 0
      /\ \A i \in 1..L : stack[i] \in Entries /\ stack[i].port \in Graph!Ports
  BY <1>0, <1>1, StackFacts
<1>4. /\ Len(advanced) = L
      /\ \A i \in 1..L : advanced[i].port = stack[i].port
  BY <1>0, <1>1, AdvancedStack
<1>5. [port |-> target, next |-> 1] \in Entries
  BY GraphFacts DEF Entries
<1>6. PICK e : e = [port |-> target, next |-> 1]
  OBVIOUS
<1>7. /\ stack' \in Seq(Entries) /\ Len(stack') = L + 1 /\ stack'[L + 1] = e
      /\ \A i \in 1..L : stack'[i] = advanced[i]
  BY <1>2, <1>3, <1>4, <1>5, <1>6
<1>8. e.port = target /\ e.next = 1
  BY <1>6
<1>9. SearchTypes'
  BY <1>0, <1>2, <1>3, <1>7 DEF SearchTypes
<1>10. colour'[target] = "Grey" /\ \A a \in Graph!Ports : a # target => colour'[a] = colour[a]
  BY <1>0, <1>2 DEF SearchTypes
<1>11. parent'[target] = stack[L].port /\ \A a \in Graph!Ports : a # target => parent'[a] = parent[a]
  BY <1>0, <1>2 DEF SearchTypes
<1>12. \A i \in 1..L : stack[i].port # target /\ stack'[i].port = stack[i].port
  BY <1>0, <1>1, <1>4, <1>7 DEF PathOfSearch
<1>13. PathOfSearch'
  <2>1. \A i \in 1..Len(stack') : colour'[stack'[i].port] = "Grey"
    <3>1. \A i \in 1..L : colour'[stack'[i].port] = "Grey"
      BY <1>0, <1>1, <1>3, <1>10, <1>12 DEF PathOfSearch
    <3> QED BY <1>3, <1>7, <1>8, <1>10, <3>1
  <2>2. \A i, j \in 1..Len(stack') : stack'[i].port = stack'[j].port => i = j
    <3>1. \A i, j \in 1..L : stack'[i].port = stack'[j].port => i = j
      BY <1>0, <1>1, <1>12 DEF PathOfSearch
    <3> QED BY <1>3, <1>7, <1>8, <1>12, <3>1
  <2>3. ASSUME NEW a \in Graph!Ports, colour'[a] = "Grey"
        PROVE  \E i \in 1..Len(stack') : stack'[i].port = a
    <3>1. CASE a = target
      BY <1>3, <1>7, <1>8, <3>1
    <3>2. CASE a # target
      <4>1. PICK i \in 1..L : stack[i].port = a
        BY <1>0, <1>1, <1>10, <2>3, <3>2 DEF PathOfSearch
      <4>2. i \in 1..Len(stack')
        BY <1>3, <1>7
      <4> QED BY <1>12, <4>1, <4>2
    <3> QED BY <3>1, <3>2
  <2>4. ASSUME NEW i \in 1..(Len(stack') - 1)
        PROVE  /\ parent'[stack'[i + 1].port] = stack'[i].port
               /\ Graph!Feeds(stack'[i].port, stack'[i + 1].port)
    <3>1. i \in 1..L
      BY <1>3, <1>7
    <3>2. CASE i = L
      BY <1>1, <1>7, <1>8, <1>11, <1>12, <3>1, <3>2 DEF EdgeOf
    <3>3. CASE i # L
      <4>1. i \in 1..(L - 1) /\ i + 1 \in 1..L
        BY <1>3, <3>1, <3>3
      <4>2. /\ parent[stack[i + 1].port] = stack[i].port
            /\ Graph!Feeds(stack[i].port, stack[i + 1].port)
        BY <1>0, <1>1, <4>1 DEF PathOfSearch
      <4> QED BY <1>3, <1>11, <1>12, <3>1, <4>1, <4>2
    <3> QED BY <3>2, <3>3
  <2> QED BY <2>1, <2>2, <2>3, <2>4, GraphKept DEF PathOfSearch
<1>14. LookedAt'
  <2> SUFFICES ASSUME NEW i \in 1..(L + 1), NEW k \in Graph!Places, k < stack'[i].next,
                      Graph!Feeds(stack'[i].port, Graph!PortAt(k))
               PROVE  \/ colour'[Graph!PortAt(k)] = "Black"
                      \/ i < L + 1 /\ Graph!PortAt(k) = stack'[i + 1].port
    BY <1>7, GraphKept DEF LookedAt
  <2>1. CASE i = L + 1
    BY <1>7, <1>8, <2>1, PlacesAre
  <2>2. CASE i # L + 1
    <3>1. i \in 1..L /\ i < L + 1
      BY <1>3, <2>2
    <3>2. k < advanced[i].next /\ Graph!Feeds(stack[i].port, Graph!PortAt(k))
      BY <1>7, <1>12, <3>1
    <3>3. \/ colour[Graph!PortAt(k)] = "Black"
          \/ i < L /\ Graph!PortAt(k) = stack[i + 1].port
          \/ i = L /\ Graph!PortAt(k) = target
      BY <1>0, <1>1, <3>1, <3>2, LookedAtPast
    <3>4. CASE colour[Graph!PortAt(k)] = "Black"
      <4>1. Graph!PortAt(k) \in Graph!Ports
        BY <1>0, <3>2, FedPorts DEF SearchTypes
      <4> QED BY <1>10, <3>4, <4>1
    <3>5. CASE i < L /\ Graph!PortAt(k) = stack[i + 1].port
      BY <1>3, <1>12, <3>1, <3>5
    <3>6. CASE i = L /\ Graph!PortAt(k) = target
      BY <1>7, <1>8, <3>1, <3>6
    <3> QED BY <3>3, <3>4, <3>5, <3>6
  <2> QED BY <2>1, <2>2
<1>15. Black' = Black
  BY <1>10 DEF Black
<1> QED BY <1>0, <1>2, <1>9, <1>13, <1>14, <1>15, BlackKept, SearchGoesOn

\* A port that is done with is passed over.
LEMMA PassOverKeeps ==
    ASSUME SearchInv, phase = "Analyse", stack # <<>>,
           UNCHANGED <<wires, injected, Graph!passes>>,
           NEW place \in Graph!Places, NEW target \in Graph!Ports,
           NEW advanced \in Seq(Entries), EdgeOf(place, target, advanced),
           colour[target] = "Black"
    PROVE  SearchInv'
<1>0. SearchTypes /\ PathOfSearch /\ LookedAt /\ BlackIsDone
  BY TypesOfParts DEF SearchInv
<1>1. PICK L : L = Len(stack)
  OBVIOUS
<1>2. stack' = advanced /\ UNCHANGED <<phase, colour, parent, witness>>
  BY DEF EdgeOf
<1>3. L \in Nat /\ L > 0
  BY <1>0, <1>1, StackFacts
<1>4. Len(stack') = L /\ \A i \in 1..L : stack'[i].port = stack[i].port
  BY <1>0, <1>1, <1>2, AdvancedStack
<1>5. SearchTypes'
  BY <1>0, <1>2 DEF SearchTypes
<1>6. PathOfSearch'
  <2>1. \A i \in 1..(L - 1) : i \in 1..L /\ i + 1 \in 1..L
    BY <1>3
  <2>2. \A i \in 1..L : colour[stack'[i].port] = "Grey"
    BY <1>0, <1>1, <1>4 DEF PathOfSearch
  <2>3. \A i, n \in 1..L : stack'[i].port = stack'[n].port => i = n
    BY <1>0, <1>1, <1>4 DEF PathOfSearch
  <2>4. ASSUME NEW a \in Graph!Ports, colour[a] = "Grey"
        PROVE  \E i \in 1..L : stack'[i].port = a
    <3>1. PICK i \in 1..L : stack[i].port = a
      BY <1>0, <1>1, <2>4 DEF PathOfSearch
    <3> QED BY <1>4, <3>1
  <2>5. \A i \in 1..(L - 1) : /\ parent[stack'[i + 1].port] = stack'[i].port
                              /\ Graph!Feeds(stack'[i].port, stack'[i + 1].port)
    BY <1>0, <1>1, <1>4, <2>1 DEF PathOfSearch
  <2> QED BY <1>2, <1>4, <2>2, <2>3, <2>4, <2>5, GraphKept DEF PathOfSearch
<1>7. LookedAt'
  <2> SUFFICES ASSUME NEW i \in 1..L, NEW k \in Graph!Places, k < advanced[i].next,
                      Graph!Feeds(stack[i].port, Graph!PortAt(k))
               PROVE  \/ colour[Graph!PortAt(k)] = "Black"
                      \/ i < L /\ Graph!PortAt(k) = advanced[i + 1].port
    BY <1>2, <1>4, GraphKept DEF LookedAt
  <2>1. \/ colour[Graph!PortAt(k)] = "Black"
        \/ i < L /\ Graph!PortAt(k) = stack[i + 1].port
        \/ i = L /\ Graph!PortAt(k) = target
    BY <1>0, <1>1, LookedAtPast
  <2>2. i < L => i + 1 \in 1..L
    BY <1>3
  <2> QED BY <1>2, <1>4, <2>1, <2>2
<1>8. Black' = Black
  BY <1>2 DEF Black
<1> QED BY <1>0, <1>2, <1>5, <1>6, <1>7, <1>8, BlackKept, SearchGoesOn

\* A port on the stack closes a cycle, which its parents lead back along.
LEMMA CycleKeeps ==
    ASSUME SearchInv, phase = "Analyse", stack # <<>>,
           UNCHANGED <<wires, injected, Graph!passes>>,
           NEW place \in Graph!Places, NEW target \in Graph!Ports,
           NEW advanced \in Seq(Entries), EdgeOf(place, target, advanced),
           colour[target] = "Grey"
    PROVE  SearchInv'
<1>0. SearchTypes /\ PathOfSearch
  BY TypesOfParts DEF SearchInv
<1>1. PICK L : L = Len(stack)
  OBVIOUS
<1>2. L \in Nat /\ L > 0 /\ \A i \in 1..L : stack[i].port \in Graph!Ports
  BY <1>0, <1>1, StackFacts
<1>3. PICK j \in 1..L : stack[j].port = target
  BY <1>0, <1>1 DEF PathOfSearch
<1>4. PICK links : links = Graph!Back(target, stack[L].port)
  OBVIOUS
<1>5. links = [i \in 1..(L - j + 1) |-> stack[j + i - 1].port]
  BY <1>0, <1>1, <1>2, <1>3, <1>4, BackIsPath
<1>6. \A i \in 1..(L - j + 1) : j + i - 1 \in 1..L
  BY <1>2
<1>7. links \in Seq(Graph!Ports) /\ Len(links) = L - j + 1 /\ L - j + 1 > 0
  <2>1. L - j + 1 \in Nat /\ L - j + 1 > 0
    BY <1>2
  <2>2. links \in [1..(L - j + 1) -> Graph!Ports]
    BY <1>2, <1>5, <1>6
  <2> QED BY <2>1, <2>2
<1>8. IsCycle(links)
  <2>1. \A n, m \in 1..Len(links) : links[n] = links[m] => n = m
    <3> SUFFICES ASSUME NEW n \in 1..(L - j + 1), NEW m \in 1..(L - j + 1), links[n] = links[m]
                 PROVE  n = m
      BY <1>7
    <3>1. stack[j + n - 1].port = stack[j + m - 1].port
      BY <1>5
    <3>2. j + n - 1 = j + m - 1
      BY <1>0, <1>1, <1>6, <3>1 DEF PathOfSearch
    <3> QED BY <1>2, <3>2
  <2>2. ASSUME NEW n \in 1..(Len(links) - 1)
        PROVE  Graph!Feeds(links[n], links[n + 1])
    <3>1. /\ n \in 1..(L - j + 1) /\ n + 1 \in 1..(L - j + 1)
          /\ j + n - 1 \in 1..(L - 1) /\ j + (n + 1) - 1 = (j + n - 1) + 1
      BY <1>2, <1>7
    <3>2. links[n] = stack[j + n - 1].port /\ links[n + 1] = stack[(j + n - 1) + 1].port
      BY <1>5, <3>1
    <3> QED BY <1>0, <1>1, <3>1, <3>2 DEF PathOfSearch
  <2>3. links[Len(links)] = stack[L].port /\ links[1] = target
    <3>1. j + Len(links) - 1 = L /\ j + 1 - 1 = j /\ 1 \in 1..(L - j + 1)
          /\ Len(links) \in 1..(L - j + 1)
      BY <1>2, <1>7
    <3> QED BY <1>3, <1>5, <3>1
  <2>4. Graph!Feeds(stack[L].port, target)
    BY <1>1 DEF EdgeOf
  <2> QED BY <1>7, <2>1, <2>2, <2>3, <2>4 DEF IsCycle
<1>9. Graph!HasCycle
  BY <1>0, <1>8, CircleIsCycle DEF SearchTypes
<1>10. Graph!HasCycle'
  BY <1>9, GraphKept
<1>11. /\ \/ Len(links) > MaxWitness /\ phase' = "LimitExceeded" /\ witness' = <<>>
          \/ ~ (Len(links) > MaxWitness) /\ phase' = "Cyclic" /\ witness' = links
       /\ stack' = advanced /\ UNCHANGED <<colour, parent>>
  BY <1>1, <1>4 DEF EdgeOf
<1>12. witness' \in Seq(Graph!Ports)
  BY <1>7, <1>11, EmptySeq
<1>13. SearchTypes'
  BY <1>0, <1>11, <1>12 DEF SearchTypes, Phases
<1>14. Graph!TypeOK'
  <2>1. PassTypes'
    BY TypesOfParts, PassTypesKept DEF SearchInv
  <2> QED BY <1>13, <2>1 DEF Graph!TypeOK, SearchTypes, PassTypes, Entries, Phases
<1>15. Graph!WitnessIsCycle'
  <2> SUFFICES ASSUME phase' = "Cyclic" PROVE Graph!WitnessIsCycle'
    BY DEF Graph!WitnessIsCycle
  <2>1. witness' = links /\ Len(links) <= MaxWitness
    BY <1>7, <1>11, GraphFacts
  <2>2. Len(links) \in 1..MaxWitness
    BY <1>2, <1>7, <2>1, GraphFacts
  <2>3. Graph!IsInjective(links)
    BY <1>7, <1>8 DEF Graph!IsInjective, IsCycle
  <2>4. Graph!Feeds(Graph!Last(links), Head(links))
    BY <1>7, <1>8 DEF Graph!Last, IsCycle
  <2>5. \A i \in 1..(Len(links) - 1) : Graph!Feeds(links[i], links[i + 1])
    BY <1>8 DEF IsCycle
  <2> QED BY <2>1, <2>2, <2>3, <2>4, <2>5, GraphKept DEF Graph!WitnessIsCycle
<1>16. ComputedWait'
  BY DEF SearchInv, ComputedWait, Graph!passes
<1> QED BY <1>10, <1>11, <1>14, <1>15, <1>16 DEF SearchInv, Graph!VerdictIsRight

\* An edge leads to a new port, to one on the stack or to one done with.
LEMMA SearchEdgeKeeps ==
    ASSUME SearchInv, Graph!SearchEdge
    PROVE  SearchInv'
<1>1. PICK place \in Graph!Places, target \in Graph!Ports, advanced \in Seq(Entries) :
        EdgeOf(place, target, advanced)
  BY EdgeTaken
<1>2. /\ phase = "Analyse" /\ stack # <<>>
      /\ UNCHANGED <<wires, injected, Graph!passes>>
  BY DEF Graph!SearchEdge
<1>3. colour[target] \in {"White", "Grey", "Black"}
  BY DEF SearchInv, Graph!TypeOK
<1> QED BY <1>1, <1>2, <1>3, PushKeeps, CycleKeeps, PassOverKeeps

-----------------------------------------------------------------------------
(* Nodes put in order.                                                      *)

Listed(s) == {s[k] : k \in 1..Len(s)}
Distinct(s) == \A j, k \in 1..Len(s) : s[j] = s[k] => j = k

\* The recursion that puts nodes in order.
InOrderUpTo(f, n, nodes) ==
    IF n = 0 THEN <<>> ELSE IF n \in nodes THEN Append(f[n - 1], n) ELSE f[n - 1]

\* One step of the recursion keeps to the nodes asked for.
LEMMA InOrderStep ==
    ASSUME NEW nodes, NEW n \in Graph!Nodes \cup {0}, NEW f,
           n # 0 => f[n - 1] \in Seq(nodes \cap Graph!Nodes)
    PROVE  InOrderUpTo(f, n, nodes) \in Seq(nodes \cap Graph!Nodes)
<1>1. PICK R : R = nodes \cap Graph!Nodes
  OBVIOUS
<1>2. CASE n = 0
  BY <1>1, <1>2, EmptySeq DEF InOrderUpTo
<1>3. CASE n # 0
  <2>1. PICK s \in Seq(R) : s = f[n - 1]
    BY <1>1, <1>3
  <2>2. n \in nodes => n \in R
    BY <1>1, <1>3
  <2>3. n \in R => Append(s, n) \in Seq(R)
    OBVIOUS
  <2> QED BY <1>1, <1>3, <2>1, <2>2, <2>3 DEF InOrderUpTo
<1> QED BY <1>2, <1>3

\* The smallest number of nodes up to which there is no solution would be one more than
\* one for which there is.
LEMMA InOrderExists ==
    ASSUME NEW nodes
    PROVE  \E f : f = [n \in 0..Len(Shapes) |-> InOrderUpTo(f, n, nodes)]
<1>0. PICK N, R : N = Len(Shapes) /\ R = Seq(nodes \cap Graph!Nodes)
  OBVIOUS
<1>1. N \in Nat /\ Graph!Nodes = 1..N
  BY <1>0, GraphFacts
<1> DEFINE Solves(f, m) == f \in [0..m -> R] /\ \A n \in 0..m : f[n] = InOrderUpTo(f, n, nodes)
<1>2. PICK T : T = {m \in 0..N : ~ \E f : Solves(f, m)}
  OBVIOUS
<1>3. T = {}
  <2> SUFFICES ASSUME T # {} PROVE FALSE
    OBVIOUS
  <2>1. PICK m \in T : \A k \in T : m <= k
    <3>1. T \in SUBSET Nat
      BY <1>2
    <3> QED BY <3>1, SmallestOf
  <2>2. m \in 0..N /\ ~ \E f : Solves(f, m)
    BY <1>2, <2>1
  <2>3. CASE m = 0
    <3>1. PICK f : f = [n \in 0..0 |-> <<>>]
      OBVIOUS
    <3>2. <<>> \in R
      BY <1>0, EmptySeq
    <3>3. Solves(f, 0)
      BY <3>1, <3>2 DEF InOrderUpTo
    <3> QED BY <2>2, <2>3, <3>3
  <2>4. CASE m # 0
    <3>1. m - 1 \in 0..N /\ m - 1 \notin T
      BY <1>1, <2>1, <2>2, <2>4
    <3>2. PICK f : Solves(f, m - 1)
      BY <1>2, <3>1
    <3>3. InOrderUpTo(f, m, nodes) \in R
      <4>1. f[m - 1] \in R /\ m \in Graph!Nodes
        BY <1>1, <2>2, <2>4, <3>1, <3>2
      <4> QED BY <1>0, <4>1, InOrderStep
    <3>4. PICK last \in R : last = InOrderUpTo(f, m, nodes)
      BY <3>3
    <3>5. PICK g : g = [n \in 0..m |-> IF n = m THEN last ELSE f[n]]
      OBVIOUS
    <3>6. \A n \in 0..m : n # m => n \in 0..(m - 1) /\ g[n] = f[n]
      BY <2>2, <3>5
    <3>7. g \in [0..m -> R]
      BY <3>2, <3>5, <3>6
    <3>8. ASSUME NEW n \in 0..m PROVE g[n] = InOrderUpTo(g, n, nodes)
      <4>1. n # 0 => n - 1 \in 0..m /\ n - 1 # m
        BY <2>2
      <4>2. InOrderUpTo(g, n, nodes) = InOrderUpTo(f, n, nodes)
        BY <3>6, <4>1 DEF InOrderUpTo
      <4>3. CASE n = m
        BY <3>4, <3>5, <4>2, <4>3
      <4>4. CASE n # m
        BY <3>2, <3>6, <4>2, <4>4
      <4> QED BY <4>3, <4>4
    <3> QED BY <2>2, <3>7, <3>8
  <2> QED BY <2>3, <2>4
<1>4. PICK f : Solves(f, N)
  BY <1>1, <1>2, <1>3
<1>5. f = [n \in 0..N |-> InOrderUpTo(f, n, nodes)]
  BY <1>4
<1> QED BY <1>0, <1>5

\* What the head, the tail and an appended element do to what a sequence lists.
LEMMA ListedParts ==
    ASSUME NEW S, NEW s \in Seq(S)
    PROVE  /\ s # <<>> =>
                /\ Head(s) \in S /\ Tail(s) \in Seq(S) /\ Listed(s) = {Head(s)} \cup Listed(Tail(s))
                /\ Distinct(s) => Distinct(Tail(s)) /\ Head(s) \notin Listed(Tail(s))
           /\ \A x \in S :
                /\ Append(s, x) \in Seq(S) /\ Listed(Append(s, x)) = Listed(s) \cup {x}
                /\ Distinct(s) /\ x \notin Listed(s) => Distinct(Append(s, x))
           /\ Listed(s) \subseteq S /\ (Listed(s) = {} <=> s = <<>>)
<1>0. Len(s) \in Nat /\ \A k \in 1..Len(s) : s[k] \in S
  OBVIOUS
<1>1. ASSUME s # <<>>
      PROVE  /\ Head(s) \in S /\ Tail(s) \in Seq(S) /\ Listed(s) = {Head(s)} \cup Listed(Tail(s))
             /\ Distinct(s) => Distinct(Tail(s)) /\ Head(s) \notin Listed(Tail(s))
  <2>1. PICK t, L : t = Tail(s) /\ L = Len(s)
    OBVIOUS
  <2>2. /\ L \in Nat /\ L > 0 /\ t \in Seq(S) /\ Len(t) = L - 1 /\ Head(s) = s[1]
        /\ \A k \in 1..(L - 1) : t[k] = s[k + 1]
    BY <1>1, <2>1
  <2>3. Listed(s) \subseteq {s[1]} \cup Listed(t)
    <3> SUFFICES ASSUME NEW k \in 1..L, k # 1 PROVE s[k] \in Listed(t)
      BY <2>1 DEF Listed
    <3>1. k - 1 \in 1..(L - 1) /\ (k - 1) + 1 = k
      BY <2>2
    <3>2. k - 1 \in 1..Len(t) /\ t[k - 1] = s[k]
      BY <2>2, <3>1
    <3> QED BY <3>2 DEF Listed
  <2>4. {s[1]} \cup Listed(t) \subseteq Listed(s)
    <3>1. 1 \in 1..L /\ \A k \in 1..(L - 1) : k + 1 \in 1..L
      BY <2>2
    <3> QED BY <2>1, <2>2, <3>1 DEF Listed
  <2>5. ASSUME Distinct(s) PROVE Distinct(t) /\ s[1] \notin Listed(t)
    <3>1. \A j, k \in 1..L : s[j] = s[k] => j = k
      BY <2>1, <2>5 DEF Distinct
    <3>2. \A k \in 1..(L - 1) : k + 1 \in 1..L /\ k + 1 # 1 /\ 1 \in 1..L
      BY <2>2
    <3>3. \A k \in 1..(L - 1) : s[k + 1] # s[1]
      BY <3>1, <3>2
    <3>4. \A j, k \in 1..(L - 1) : t[j] = t[k] => j = k
      <4> SUFFICES ASSUME NEW j \in 1..(L - 1), NEW k \in 1..(L - 1), t[j] = t[k] PROVE j = k
        OBVIOUS
      <4>1. j + 1 = k + 1
        BY <2>2, <3>1, <3>2
      <4> QED BY <2>2, <4>1
    <3> QED BY <2>2, <3>3, <3>4 DEF Distinct, Listed
  <2> QED BY <1>0, <2>1, <2>2, <2>3, <2>4, <2>5
<1>2. ASSUME NEW x \in S
      PROVE  /\ Append(s, x) \in Seq(S) /\ Listed(Append(s, x)) = Listed(s) \cup {x}
             /\ Distinct(s) /\ x \notin Listed(s) => Distinct(Append(s, x))
  <2>1. PICK t, L : t = Append(s, x) /\ L = Len(s)
    OBVIOUS
  <2>2. /\ L \in Nat /\ t \in Seq(S) /\ Len(t) = L + 1 /\ t[L + 1] = x
        /\ \A k \in 1..L : t[k] = s[k]
    BY <2>1
  <2>3. \A k : k \in 1..(L + 1) <=> k \in 1..L \/ k = L + 1
    BY <2>2
  <2>4. Listed(t) = Listed(s) \cup {x}
    BY <2>1, <2>2, <2>3 DEF Listed
  <2>5. Distinct(s) /\ x \notin Listed(s) => Distinct(t)
    BY <2>1, <2>2, <2>3 DEF Listed, Distinct
  <2> QED BY <2>1, <2>2, <2>4, <2>5
<1>3. Listed(s) \subseteq S
  BY <1>0 DEF Listed
<1>4. s # <<>> => Listed(s) # {}
  BY <1>1
<1>5. s = <<>> => Listed(s) = {}
  BY DEF Listed
<1> QED BY <1>1, <1>2, <1>3, <1>4, <1>5

\* The empty sequence lists nothing.
LEMMA NothingListed == Listed(<<>>) = {} /\ Distinct(<<>>)
BY DEF Listed, Distinct

\* The nodes asked for, up to one of them, each once.
InOrderOf(s, n, nodes) ==
    /\ s \in Seq(nodes \cap Graph!Nodes) /\ Distinct(s)
    /\ Listed(s) = {m \in nodes \cap Graph!Nodes : m <= n}

\* One more node is listed last.
LEMMA InOrderGrows ==
    ASSUME NEW nodes, NEW n \in Graph!Nodes \cup {0}, NEW f,
           n # 0 => InOrderOf(f[n - 1], n - 1, nodes)
    PROVE  InOrderOf(InOrderUpTo(f, n, nodes), n, nodes)
<1>1. PICK R : R = nodes \cap Graph!Nodes
  OBVIOUS
<1>2. n \in Nat /\ \A m \in R : m \in Nat /\ m # 0
  BY <1>1, GraphFacts
<1>3. CASE n = 0
  <2>1. {m \in R : m <= 0} = {}
    BY <1>2
  <2> QED BY <1>1, <1>3, <2>1, EmptySeq, NothingListed DEF InOrderUpTo, InOrderOf
<1>4. CASE n # 0
  <2>1. PICK s : s = f[n - 1]
    OBVIOUS
  <2>2. s \in Seq(R) /\ Distinct(s) /\ Listed(s) = {m \in R : m <= n - 1}
    BY <1>1, <1>4, <2>1 DEF InOrderOf
  <2>3. CASE n \in nodes
    <3>1. n \in R /\ n \notin Listed(s)
      BY <1>1, <1>2, <1>4, <2>2, <2>3
    <3>2. {m \in R : m <= n} = {m \in R : m <= n - 1} \cup {n}
      <4>1. \A m \in R : m <= n <=> m <= n - 1 \/ m = n
        BY <1>2
      <4> QED BY <1>2, <3>1, <4>1
    <3>3. Append(s, n) \in Seq(R) /\ Distinct(Append(s, n)) /\ Listed(Append(s, n)) = Listed(s) \cup {n}
      BY <2>2, <3>1, ListedParts
    <3> QED BY <1>1, <1>4, <2>1, <2>2, <2>3, <3>2, <3>3 DEF InOrderUpTo, InOrderOf
  <2>4. CASE n \notin nodes
    <3>1. {m \in R : m <= n} = {m \in R : m <= n - 1}
      BY <1>1, <1>2, <2>4
    <3> QED BY <1>1, <1>4, <2>1, <2>2, <2>4, <3>1 DEF InOrderUpTo, InOrderOf
  <2> QED BY <2>3, <2>4
<1> QED BY <1>3, <1>4

\* The nodes asked for are listed, each once.
LEMMA InOrderIsRight ==
    ASSUME NEW nodes
    PROVE  /\ Graph!InOrder(nodes) \in Seq(nodes \cap Graph!Nodes)
           /\ Distinct(Graph!InOrder(nodes)) /\ Listed(Graph!InOrder(nodes)) = nodes \cap Graph!Nodes
<1>0. PICK N : N = Len(Shapes)
  OBVIOUS
<1>1. N \in Nat /\ Graph!Nodes = 1..N
  BY <1>0, GraphFacts
<1> DEFINE upTo == CHOOSE f : f = [n \in 0..Len(Shapes) |->
                        IF n = 0 THEN <<>>
                        ELSE IF n \in nodes THEN Append(f[n - 1], n) ELSE f[n - 1]]
<1>2. upTo = [n \in 0..Len(Shapes) |-> InOrderUpTo(upTo, n, nodes)]
  BY InOrderExists DEF InOrderUpTo
<1>3. Graph!InOrder(nodes) = upTo[Len(Shapes)]
  BY DEF Graph!InOrder
<1> HIDE DEF upTo
<1>4. PICK T : T = {n \in 0..N : ~ InOrderOf(upTo[n], n, nodes)}
  OBVIOUS
<1>5. T = {}
  <2> SUFFICES ASSUME T # {} PROVE FALSE
    OBVIOUS
  <2>1. PICK m \in T : \A k \in T : m <= k
    <3>1. T \in SUBSET Nat
      BY <1>4
    <3> QED BY <3>1, SmallestOf
  <2>2. m \in 0..N /\ (m # 0 => m - 1 \in 0..N /\ m - 1 \notin T) /\ m \in Graph!Nodes \cup {0}
    BY <1>1, <1>4, <2>1
  <2>3. m # 0 => InOrderOf(upTo[m - 1], m - 1, nodes)
    BY <1>4, <2>2
  <2>4. InOrderOf(InOrderUpTo(upTo, m, nodes), m, nodes)
    BY <2>2, <2>3, InOrderGrows
  <2>5. upTo[m] = InOrderUpTo(upTo, m, nodes)
    BY <1>0, <1>2, <2>2
  <2> QED BY <1>4, <2>1, <2>4, <2>5
<1>6. InOrderOf(upTo[N], N, nodes)
  BY <1>1, <1>4, <1>5
<1>7. {m \in nodes \cap Graph!Nodes : m <= N} = nodes \cap Graph!Nodes
  BY <1>1
<1> QED BY <1>0, <1>3, <1>6, <1>7 DEF InOrderOf

-----------------------------------------------------------------------------
(* The passes, which compute the nodes of a graph without a cycle.          *)

\* What is computed has an output.
LEMMA OutputsArePorts ==
    /\ \A n \in Computed : Graph!Output(n) \in Graph!Ports
    /\ Graph!OfKind({"Source"}) \subseteq Computed
    /\ Graph!OfKind({"Transition"}) \subseteq Computed
    /\ Graph!Clocked \subseteq Computed
BY PortsAre DEF Computed, Graph!OfKind, Graph!Clocked

\* So what is listed to be computed has one.
LEMMA InOrderComputed ==
    ASSUME NEW nodes \in SUBSET Computed
    PROVE  Graph!InOrder(nodes) \in Seq(Computed)
<1>1. PICK s : s = Graph!InOrder(nodes)
  OBVIOUS
<1>2. PICK R : R = nodes \cap Graph!Nodes
  OBVIOUS
<1>3. s \in Seq(R) /\ R \subseteq Computed
  BY <1>1, <1>2, InOrderIsRight
<1>4. s \in Seq(Computed)
  BY <1>3
<1> QED BY <1>1, <1>4

\* In the passes the graph and the search stay as they are.
LEMMA PassGoesOn ==
    ASSUME SearchInv, UNCHANGED <<wires, injected, Graph!search>>,
           phase' \in {"Incomplete", "Transitions", "Groups", "Done", "Unavailable"},
           ~ Graph!HasCycle, PassTypes', ComputedWait'
    PROVE  SearchInv'
<1>1. ~ Graph!HasCycle'
  BY GraphKept
<1>2. SearchTypes'
  BY TypesOfParts DEF SearchInv, SearchTypes, Graph!search, Phases
<1>3. Graph!TypeOK'
  BY <1>2 DEF Graph!TypeOK, SearchTypes, PassTypes, Entries, Phases
<1> QED BY <1>1, <1>3 DEF SearchInv, Graph!VerdictIsRight, Graph!WitnessIsCycle

\* When no port is left to search, all are done with, and there is no cycle.
LEMMA SearchEndKeeps ==
    ASSUME SearchInv, Graph!SearchEnd
    PROVE  SearchInv'
<1>0. SearchTypes /\ PassTypes /\ PathOfSearch /\ BlackIsDone /\ ComputedWait
  BY TypesOfParts DEF SearchInv, Graph!SearchEnd
<1>1. /\ stack = <<>> /\ Graph!White = {}
      /\ UNCHANGED <<wires, injected, Graph!search, clock, deferred, progressed, available, order>>
      /\ \/ /\ phase' = "Transitions"
            /\ streams' = {Graph!Output(n) : n \in Graph!OfKind({"Source"})} \cup injected
            /\ queue' = Graph!InOrder(Graph!OfKind({"Transition"}))
         \/ phase' = "Incomplete" /\ UNCHANGED <<streams, queue>>
  BY DEF Graph!SearchEnd
<1>2. \A a \in Graph!Ports : colour[a] # "Grey"
  BY <1>0, <1>1 DEF PathOfSearch
<1>3. \A a \in Graph!Ports : colour[a] # "White"
  BY <1>1 DEF Graph!White
<1>4. Black = Graph!Ports
  BY <1>0, <1>2, <1>3 DEF Black, SearchTypes
<1>5. ~ Graph!HasCycle
  BY <1>0, <1>4, CycleIsCircle DEF BlackIsDone, SearchTypes
<1>6. streams' \subseteq Graph!Ports
  BY <1>0, <1>1, OutputsArePorts, PortsAre DEF SearchTypes, PassTypes
<1>7. queue' \in Seq(Computed)
  BY <1>0, <1>1, OutputsArePorts, InOrderComputed DEF ComputedWait
<1>8. queue' \in Seq(Graph!Nodes)
  BY <1>7 DEF Computed
<1>9. PassTypes' /\ ComputedWait'
  BY <1>0, <1>1, <1>6, <1>7, <1>8 DEF PassTypes, ComputedWait
<1> QED BY <1>1, <1>5, <1>9, PassGoesOn

\* A transition is computed or deferred.
LEMMA PassTransitionKeeps ==
    ASSUME SearchInv, Graph!PassTransition
    PROVE  SearchInv'
<1>0. PassTypes /\ ComputedWait /\ phase = "Transitions" /\ ~ Graph!HasCycle
  BY TypesOfParts DEF SearchInv, Graph!PassTransition
<1>1. PICK n : n = Head(queue)
  OBVIOUS
<1>2. /\ queue # <<>> /\ queue' = Tail(queue)
      /\ UNCHANGED <<wires, injected, phase, Graph!search, clock, available, order>>
      /\ \/ /\ streams' = streams \cup {Graph!Output(n)} /\ progressed' = TRUE
            /\ UNCHANGED deferred
         \/ deferred' = Append(deferred, n) /\ UNCHANGED <<streams, progressed>>
  BY <1>1 DEF Graph!PassTransition
<1>3. n \in Computed /\ queue' \in Seq(Computed)
  BY <1>0, <1>1, <1>2 DEF ComputedWait
<1>4. deferred' \in Seq(Computed)
  BY <1>0, <1>2, <1>3 DEF ComputedWait
<1>5. streams' \subseteq Graph!Ports /\ progressed' \in BOOLEAN
  BY <1>0, <1>2, <1>3, OutputsArePorts DEF PassTypes
<1>6. queue' \in Seq(Graph!Nodes) /\ deferred' \in Seq(Graph!Nodes)
  BY <1>3, <1>4 DEF Computed
<1>7. PassTypes' /\ ComputedWait'
  BY <1>0, <1>2, <1>3, <1>4, <1>5, <1>6 DEF PassTypes, ComputedWait
<1> QED BY <1>0, <1>2, <1>7, PassGoesOn

\* So is a gate.
LEMMA PassClockedKeeps ==
    ASSUME SearchInv, Graph!PassClocked
    PROVE  SearchInv'
<1>0. PassTypes /\ ComputedWait /\ phase = "Groups" /\ ~ Graph!HasCycle
  BY TypesOfParts DEF SearchInv, Graph!PassClocked
<1>1. PICK n : n = Head(queue)
  OBVIOUS
<1>2. /\ queue # <<>> /\ queue' = Tail(queue)
      /\ UNCHANGED <<wires, injected, phase, Graph!search, clock, streams>>
      /\ \/ /\ available' = available \cup {Graph!Output(n)} /\ order' = Append(order, n)
            /\ progressed' = TRUE /\ UNCHANGED deferred
         \/ deferred' = Append(deferred, n) /\ UNCHANGED <<available, order, progressed>>
  BY <1>1 DEF Graph!PassClocked
<1>3. n \in Computed /\ n \in Graph!Nodes /\ queue' \in Seq(Computed)
  BY <1>0, <1>1, <1>2 DEF ComputedWait, Computed
<1>4. deferred' \in Seq(Computed) /\ order' \in Seq(Graph!Nodes)
  <2>1. deferred \in Seq(Computed) /\ order \in Seq(Graph!Nodes)
    BY <1>0 DEF ComputedWait, PassTypes
  <2>2. Append(deferred, n) \in Seq(Computed)
    BY <1>3, <2>1
  <2>3. Append(order, n) \in Seq(Graph!Nodes)
    BY <1>3, <2>1
  <2> QED BY <1>2, <2>1, <2>2, <2>3
<1>5. available' \subseteq Graph!Ports /\ progressed' \in BOOLEAN
  BY <1>0, <1>2, <1>3, OutputsArePorts DEF PassTypes
<1>6. queue' \in Seq(Graph!Nodes) /\ deferred' \in Seq(Graph!Nodes)
  BY <1>3, <1>4 DEF Computed
<1>7. PassTypes' /\ ComputedWait'
  BY <1>0, <1>2, <1>3, <1>4, <1>5, <1>6 DEF PassTypes, ComputedWait
<1> QED BY <1>0, <1>2, <1>7, PassGoesOn

\* What was deferred is looked at again, or given up.
LEMMA PassAgainKeeps ==
    ASSUME SearchInv, Graph!PassAgain
    PROVE  SearchInv'
<1>0. /\ PassTypes /\ ComputedWait /\ phase \in {"Transitions", "Groups"}
      /\ ~ Graph!HasCycle
  BY TypesOfParts DEF SearchInv, Graph!PassAgain
<1>1. /\ UNCHANGED <<wires, injected, Graph!search, clock, streams, available, order>>
      /\ progressed' = FALSE
      /\ \/ queue' = deferred /\ deferred' = <<>> /\ UNCHANGED phase
         \/ phase' = "Unavailable" /\ UNCHANGED <<queue, deferred>>
  BY DEF Graph!PassAgain
<1>2. PassTypes' /\ ComputedWait'
  BY <1>0, <1>1, EmptySeq DEF PassTypes, ComputedWait
<1> QED BY <1>0, <1>1, <1>2, PassGoesOn

\* The next clock is one of the clocks, and its nodes are computable.
LEMMA OpenGroupKeeps ==
    ASSUME PassTypes, ComputedWait, NEW computed \in SUBSET Graph!Ports, Graph!OpenGroup(computed),
           UNCHANGED <<deferred, order>>, progressed' = FALSE, streams' \subseteq Graph!Ports
    PROVE  /\ phase' \in {"Groups", "Done", "Unavailable"}
           /\ PassTypes' /\ ComputedWait'
<1>1. PICK left : left = {c \in Graph!Clocks : c > clock}
  OBVIOUS
<1>2. CASE left = {}
  <2>1. /\ phase' \in {"Done", "Unavailable"} /\ UNCHANGED <<clock, queue, available>>
    BY <1>1, <1>2 DEF Graph!OpenGroup
  <2> QED BY <2>1 DEF PassTypes, ComputedWait
<1>3. CASE left # {}
  <2>1. PICK next : next = Graph!Min(left)
    OBVIOUS
  <2>2. next \in Graph!Clocks
    <3>1. left \in SUBSET Nat
      BY <1>1, GraphFacts DEF Graph!Clocks, Graph!Clocked, Graph!OfKind
    <3>2. \E m \in left : \A n \in left : m <= n
      BY <1>3, <3>1, SmallestOf
    <3> QED BY <1>1, <2>1, <3>2 DEF Graph!Min
  <2>3. /\ phase' = "Groups" /\ clock' = next
        /\ queue' = Graph!InOrder(Graph!InGroup(next) \ Graph!OfKind({"UnitDelay"}))
        /\ available' = computed \cup {Graph!Output(n) :
                            n \in Graph!InGroup(next) \cap Graph!OfKind({"UnitDelay"})}
    BY <1>1, <1>3, <2>1 DEF Graph!OpenGroup
  <2>4. Graph!InGroup(next) \subseteq Computed
    BY OutputsArePorts DEF Graph!InGroup
  <2>5. queue' \in Seq(Computed)
    BY <2>3, <2>4, InOrderComputed
  <2>6. queue' \in Seq(Graph!Nodes)
    BY <2>5 DEF Computed
  <2>7. available' \subseteq Graph!Ports
    BY <2>3, <2>4, OutputsArePorts
  <2> QED BY <2>2, <2>3, <2>5, <2>6, <2>7 DEF PassTypes, ComputedWait
<1> QED BY <1>2, <1>3

\* The first group begins.
LEMMA TransitionsEndKeeps ==
    ASSUME SearchInv, Graph!TransitionsEnd
    PROVE  SearchInv'
<1>0. PassTypes /\ ComputedWait /\ phase = "Transitions" /\ ~ Graph!HasCycle
  BY TypesOfParts DEF SearchInv, Graph!TransitionsEnd
<1>1. /\ Graph!OpenGroup(streams) /\ progressed' = FALSE
      /\ UNCHANGED <<wires, injected, Graph!search, deferred, streams, order>>
  BY DEF Graph!TransitionsEnd
<1>2. streams \in SUBSET Graph!Ports
  BY <1>0 DEF PassTypes
<1>3. phase' \in {"Groups", "Done", "Unavailable"} /\ PassTypes' /\ ComputedWait'
  BY <1>0, <1>1, <1>2, OpenGroupKeeps
<1> QED BY <1>0, <1>1, <1>3, PassGoesOn

\* The next group begins, or an input of this one has no stream.
LEMMA GroupEndKeeps ==
    ASSUME SearchInv, Graph!GroupEnd
    PROVE  SearchInv'
<1>0. PassTypes /\ ComputedWait /\ phase = "Groups" /\ ~ Graph!HasCycle
  BY TypesOfParts DEF SearchInv, Graph!GroupEnd
<1>1. PICK computed : computed = streams \cup {Graph!Output(n) : n \in Graph!InGroup(clock)}
  OBVIOUS
<1>2. /\ progressed' = FALSE
      /\ UNCHANGED <<wires, injected, Graph!search, deferred, order>>
      /\ \/ streams' = computed /\ Graph!OpenGroup(computed)
         \/ phase' = "Unavailable" /\ UNCHANGED <<streams, clock, queue, available>>
  BY <1>1 DEF Graph!GroupEnd
<1>3. computed \in SUBSET Graph!Ports
  BY <1>0, <1>1, OutputsArePorts DEF PassTypes, Graph!InGroup
<1>4. CASE streams' = computed /\ Graph!OpenGroup(computed)
  <2>1. phase' \in {"Groups", "Done", "Unavailable"} /\ PassTypes' /\ ComputedWait'
    BY <1>0, <1>2, <1>3, <1>4, OpenGroupKeeps
  <2> QED BY <1>0, <1>2, <2>1, PassGoesOn
<1>5. CASE phase' = "Unavailable" /\ UNCHANGED <<streams, clock, queue, available>>
  <2>1. PassTypes' /\ ComputedWait'
    BY <1>0, <1>2, <1>5 DEF PassTypes, ComputedWait
  <2> QED BY <1>0, <1>2, <1>5, <2>1, PassGoesOn
<1> QED BY <1>2, <1>4, <1>5

-----------------------------------------------------------------------------
(* The order of computation.                                                *)

Waiting == Listed(queue) \cup Listed(deferred)
Transitions == Graph!OfKind({"Transition"})
Gates == Graph!OfKind({"Combinational"})

\* Every input has a source, and the streams from outside are there.
Fed ==
    /\ Graph!Unconnected \subseteq injected /\ injected \subseteq streams
    /\ \A n \in Graph!OfKind({"Source"}) : Graph!Output(n) \in streams

\* A transition is computed or waits; nothing clocked is computed yet, and nothing
\* deferred in a pass without progress could have been.
TransitionsInv ==
    /\ Fed /\ clock = 0 /\ order = <<>> /\ Waiting \subseteq Transitions
    /\ \A n \in Transitions : Graph!Output(n) \in streams \/ n \in Waiting
    /\ \A n \in Graph!Nodes : Graph!Output(n) \in streams =>
         n \notin Graph!Clocked /\ (n \in Transitions => Graph!Ready(n, streams))
    /\ ~ progressed => \A n \in Listed(deferred) : ~ Graph!Ready(n, streams)

\* What is computed once the transitions and the clocks before this one are.
ComputedBefore(c, computed) ==
    /\ \A n \in Transitions : Graph!Output(n) \in computed
    /\ \A n \in Graph!Clocked : Shapes[n].to < c => Graph!Output(n) \in computed

\* The gates of the clocks up to this one are in order, or wait.
GatesOrdered(computed) ==
    /\ \A n \in Gates : Shapes[n].to < clock => n \in Listed(order)
    /\ \A n \in Listed(order) : n \in Gates /\ Shapes[n].to <= clock
    /\ \A n \in Gates : Graph!Output(n) \in computed => n \in Listed(order)

GroupsInv ==
    /\ Fed /\ clock \in Graph!Clocks /\ ComputedBefore(clock, streams) /\ GatesOrdered(available)
    /\ streams \subseteq available
    /\ Waiting \subseteq Gates \cap Graph!InGroup(clock)
    /\ \A n \in Graph!InGroup(clock) :
         \/ n \in Gates /\ n \in Waiting
         \/ Graph!Output(n) \in available
    /\ Distinct(queue) /\ Distinct(deferred)
    /\ Listed(queue) \cap Listed(deferred) = {} /\ Waiting \cap Listed(order) = {}
    /\ ~ progressed => \A n \in Listed(deferred) : ~ Graph!Ready(n, available)
    /\ Graph!BehindClocked = {}

\* Each gate once, after the gates it reads.
OrderedRight ==
    /\ Distinct(order)
    /\ \A k \in 1..Len(order) : \A i \in Graph!InputsOf(order[k]) :
         wires[i] \in Gates => \E j \in 1..(k - 1) : order[j] = wires[i]

OrderInv ==
    /\ wires \in Wirings /\ OrderedRight /\ Graph!StuckOnlyOnTransitions
    /\ phase = "Done" => Listed(order) = Gates
    /\ phase = "Analyse" => order = <<>> /\ deferred = <<>> /\ clock = 0 /\ ~ progressed
    /\ phase = "Transitions" => TransitionsInv
    /\ phase = "Groups" => GroupsInv

\* The kinds of nodes do not overlap, and a clocked node has one clock.
LEMMA KindsApart ==
    /\ Gates \subseteq Graph!Clocked /\ Graph!Clocked \subseteq Graph!Nodes
    /\ Transitions \subseteq Graph!Nodes /\ Transitions \cap Graph!Clocked = {}
    /\ Graph!OfKind({"Source"}) \cap (Graph!Clocked \cup Transitions) = {}
    /\ Graph!OfKind({"UnitDelay"}) \cap Gates = {}
    /\ Graph!Clocked = Gates \cup Graph!OfKind({"UnitDelay"})
    /\ \A n \in Graph!Clocked : Shapes[n].from = Shapes[n].to /\ Shapes[n].to \in Graph!Clocks
    /\ \A n \in Gates \cup Transitions :
         Shapes[n].kind # "Sink" /\ n \notin Graph!OfKind({"UnitDelay"})
    /\ \A c \in Graph!Clocks : c \in Nat \ {0}
<1>1. \A n \in Graph!Nodes : Shapes[n].kind # "Transition" => Shapes[n].from = Shapes[n].to
  BY GraphAssumption DEF Graph!Assumption, Graph!Nodes
<1>2. \A c \in Graph!Clocks : c \in Nat \ {0}
  BY GraphFacts DEF Graph!Clocks, Graph!Clocked, Graph!OfKind
<1> QED BY <1>1, <1>2 DEF Gates, Transitions, Graph!Clocked, Graph!OfKind, Graph!Clocks

\* What an input reads: itself when nothing is wired to it, or an output of its clock.
LEMMA WhatIsRead ==
    ASSUME wires \in Wirings, NEW n \in Graph!Nodes, NEW i \in Graph!InputsOf(n)
    PROVE  \/ wires[i] = 0 /\ i \in Graph!Unconnected /\ Graph!SourceOf(i) = i
           \/ /\ wires[i] \in Graph!OfKind({"Source"}) \cup Transitions \cup Graph!Clocked
              /\ Graph!SourceOf(i) = Graph!Output(wires[i])
              /\ Shapes[wires[i]].to = Shapes[n].from
<1>1. i \in Graph!Inputs /\ i[1] = n
  BY PortsAre
<1>2. wires[i] \in Graph!Fitting(i) \cup {0}
  BY <1>1, GraphAssumption DEF Graph!Assumption
<1>3. CASE wires[i] = 0
  BY <1>1, <1>3 DEF Graph!Unconnected, Graph!SourceOf
<1>4. CASE wires[i] # 0
  <2>1. /\ wires[i] \in Graph!Nodes /\ Shapes[wires[i]].kind # "Sink"
        /\ Shapes[wires[i]].to = Shapes[n].from
    BY <1>1, <1>2, <1>4 DEF Graph!Fitting, Graph!OfKind
  <2>2. Shapes[wires[i]].kind \in {"Source", "Transition", "Combinational", "UnitDelay"}
    BY <2>1, GraphFacts DEF Graph!Kinds
  <2> QED BY <1>4, <2>1, <2>2 DEF Graph!SourceOf, Graph!Clocked, Transitions, Graph!OfKind
<1> QED BY <1>3, <1>4

\* The set of transitions behind a clocked node is one that its definition asks for.
LEMMA BehindClockedIs ==
    Graph!BehindClocked = {n \in Transitions :
        \E i \in Graph!InputsOf(n) : wires[i] \in Graph!Clocked \cup Graph!BehindClocked}
<1> DEFINE Behind(B) == {n \in Transitions :
                           \E i \in Graph!InputsOf(n) : wires[i] \in Graph!Clocked \cup B}
<1>1. PICK B : B = UNION {X \in SUBSET Transitions : X \subseteq Behind(X)}
  OBVIOUS
<1>2. B \in SUBSET Transitions /\ B \subseteq Behind(B)
  BY <1>1
<1>3. Behind(B) \subseteq Behind(Behind(B)) /\ Behind(B) \in SUBSET Transitions
  BY <1>2
<1>4. Behind(B) \subseteq B
  BY <1>1, <1>3
<1>5. B \in SUBSET Transitions /\ B = Behind(B)
  BY <1>2, <1>4
<1> DEFINE Asked(nodes) ==
      nodes = {n \in Graph!OfKind({"Transition"}) :
                 \E i \in Graph!InputsOf(n) : wires[i] \in Graph!Clocked \cup nodes}
<1>6. \E nodes \in SUBSET Graph!OfKind({"Transition"}) : Asked(nodes)
  BY <1>5 DEF Transitions
<1>7. Graph!BehindClocked = CHOOSE nodes \in SUBSET Graph!OfKind({"Transition"}) : Asked(nodes)
  BY DEF Graph!BehindClocked
<1> HIDE DEF Asked
<1>8. Asked(Graph!BehindClocked)
  BY <1>6, <1>7
<1> QED BY <1>8 DEF Asked, Transitions

\* Nodes that are no delays and each read one of them are a cycle.
LEMMA ReadingEachOther ==
    ASSUME wires \in Wirings, NEW nodes \in SUBSET (Gates \cup Transitions),
           \A n \in nodes : \E i \in Graph!InputsOf(n) : wires[i] \in nodes, ~ Graph!HasCycle
    PROVE  nodes = {}
<1>1. nodes \in SUBSET (Graph!Nodes \ Graph!OfKind({"UnitDelay"}))
  BY KindsApart
<1>2. \A n \in nodes : Shapes[n].kind # "Sink"
  BY KindsApart
<1> QED BY <1>1, <1>2 DEF Graph!HasCycle

\* In a pass over the transitions without progress, all that is left is behind a clock.
LEMMA StuckTransitions ==
    ASSUME wires \in Wirings, TransitionsInv, ~ Graph!HasCycle, queue = <<>>, ~ progressed
    PROVE  Listed(deferred) \subseteq Graph!BehindClocked
<1>1. PICK B : B = Graph!BehindClocked
  OBVIOUS
<1>2. B = {n \in Transitions : \E i \in Graph!InputsOf(n) : wires[i] \in Graph!Clocked \cup B}
  BY <1>1, BehindClockedIs
<1>3. PICK left : left = Listed(deferred) \ B
  OBVIOUS
<1>4. /\ Waiting = Listed(deferred) /\ Listed(deferred) \subseteq Transitions
      /\ \A n \in Listed(deferred) : ~ Graph!Ready(n, streams)
      /\ \A n \in Transitions : Graph!Output(n) \in streams \/ n \in Listed(deferred)
      /\ Fed
  BY NothingListed DEF TransitionsInv, Waiting
<1>5. ASSUME NEW n \in left PROVE \E i \in Graph!InputsOf(n) : wires[i] \in left
  <2>1. n \in Transitions /\ n \in Graph!Nodes /\ n \notin B /\ ~ Graph!Ready(n, streams)
    BY <1>3, <1>4, KindsApart
  <2>2. PICK i \in Graph!InputsOf(n) : Graph!SourceOf(i) \notin streams
    BY <2>1 DEF Graph!Ready
  <2>3. ~ (i \in Graph!Unconnected /\ Graph!SourceOf(i) = i)
    BY <1>4, <2>2 DEF Fed
  <2>4. /\ wires[i] \in Graph!OfKind({"Source"}) \cup Transitions \cup Graph!Clocked
        /\ Graph!Output(wires[i]) \notin streams
    BY <2>1, <2>2, <2>3, WhatIsRead
  <2>5. wires[i] \notin Graph!Clocked \cup B
    BY <1>2, <2>1
  <2>6. wires[i] \in Transitions
    BY <1>4, <2>4, <2>5 DEF Fed
  <2> QED BY <1>3, <1>4, <2>4, <2>5, <2>6
<1>6. left = {}
  <2>1. left \in SUBSET (Gates \cup Transitions)
    BY <1>3, <1>4
  <2> QED BY <1>5, <2>1, ReadingEachOther
<1> QED BY <1>1, <1>3, <1>6

\* When every transition is computed, none was behind a clock.
LEMMA NoneBehind ==
    ASSUME wires \in Wirings, TransitionsInv, ~ Graph!HasCycle, queue = <<>>, deferred = <<>>
    PROVE  Graph!BehindClocked = {}
<1>1. PICK B : B = Graph!BehindClocked
  OBVIOUS
<1>2. B = {n \in Transitions : \E i \in Graph!InputsOf(n) : wires[i] \in Graph!Clocked \cup B}
  BY <1>1, BehindClockedIs
<1>3. /\ \A n \in Transitions : Graph!Output(n) \in streams
      /\ \A n \in Graph!Nodes : Graph!Output(n) \in streams =>
           n \notin Graph!Clocked /\ (n \in Transitions => Graph!Ready(n, streams))
  BY NothingListed DEF TransitionsInv, Waiting
<1>4. ASSUME NEW n \in B PROVE \E i \in Graph!InputsOf(n) : wires[i] \in B
  <2>1. PICK i \in Graph!InputsOf(n) : wires[i] \in Graph!Clocked \cup B
    BY <1>2
  <2>2. n \in Transitions /\ n \in Graph!Nodes /\ Graph!SourceOf(i) \in streams
    BY <1>2, <1>3, KindsApart DEF Graph!Ready
  <2>3. wires[i] \in Graph!Nodes /\ wires[i] # 0
    BY <1>2, <2>1, KindsApart, GraphFacts
  <2>4. Graph!SourceOf(i) = Graph!Output(wires[i])
    BY <2>3 DEF Graph!SourceOf
  <2>5. wires[i] \notin Graph!Clocked
    BY <1>3, <2>2, <2>3, <2>4
  <2> QED BY <2>1, <2>5
<1>5. B \in SUBSET (Gates \cup Transitions)
  BY <1>2
<1> QED BY <1>1, <1>4, <1>5, ReadingEachOther

\* A group is never stuck: what is deferred would read what is deferred.
LEMMA GroupNotStuck ==
    ASSUME wires \in Wirings, GroupsInv, ~ Graph!HasCycle, queue = <<>>, ~ progressed
    PROVE  Listed(deferred) = {}
<1>1. /\ Waiting = Listed(deferred)
      /\ Listed(deferred) \subseteq Gates \cap Graph!InGroup(clock)
      /\ \A n \in Listed(deferred) : ~ Graph!Ready(n, available)
      /\ Fed /\ streams \subseteq available
      /\ \A n \in Transitions : Graph!Output(n) \in streams
      /\ \A n \in Graph!InGroup(clock) :
           (n \in Gates /\ n \in Waiting) \/ Graph!Output(n) \in available
  BY NothingListed DEF GroupsInv, Waiting, ComputedBefore
<1>2. ASSUME NEW n \in Listed(deferred)
      PROVE  \E i \in Graph!InputsOf(n) : wires[i] \in Listed(deferred)
  <2>1. n \in Graph!Nodes /\ n \in Graph!Clocked /\ Shapes[n].to = clock /\ Shapes[n].from = clock
    BY <1>1, KindsApart DEF Graph!InGroup
  <2>2. PICK i \in Graph!InputsOf(n) : Graph!SourceOf(i) \notin available
    BY <1>1 DEF Graph!Ready
  <2>3. ~ (i \in Graph!Unconnected /\ Graph!SourceOf(i) = i)
    BY <1>1, <2>2 DEF Fed
  <2>4. /\ wires[i] \in Graph!OfKind({"Source"}) \cup Transitions \cup Graph!Clocked
        /\ Graph!Output(wires[i]) \notin available
        /\ Shapes[wires[i]].to = clock
    BY <2>1, <2>2, <2>3, WhatIsRead
  <2>5. wires[i] \in Graph!Clocked
    BY <1>1, <2>4 DEF Fed
  <2>6. wires[i] \in Graph!InGroup(clock)
    BY <2>4, <2>5 DEF Graph!InGroup
  <2> QED BY <1>1, <2>4, <2>6
<1>3. Listed(deferred) \in SUBSET (Gates \cup Transitions)
  BY <1>1
<1> QED BY <1>2, <1>3, ReadingEachOther

\* What the next group starts from.
StartsFrom(computed) ==
    /\ Graph!Unconnected \subseteq injected /\ injected \subseteq computed
    /\ \A n \in Graph!OfKind({"Source"}) \cup Transitions : Graph!Output(n) \in computed
    /\ \A n \in Graph!Clocked : Shapes[n].to <= clock => Graph!Output(n) \in computed
    /\ \A n \in Gates : Shapes[n].to <= clock \/ Graph!Output(n) \in computed => n \in Listed(order)
    /\ \A n \in Listed(order) : n \in Gates /\ Shapes[n].to <= clock
    /\ Distinct(order) /\ clock \in Graph!Clocks \cup {0} /\ Graph!BehindClocked = {}

\* The next group starts from what it needs, and when there is none all is in order.
LEMMA OrderOpens ==
    ASSUME wires \in Wirings, NEW computed, StartsFrom(computed), Graph!OpenGroup(computed),
           UNCHANGED <<wires, injected, deferred, order>>, deferred = <<>>,
           streams' = computed, progressed' = FALSE
    PROVE  \/ phase' = "Done" /\ Listed(order) = Gates
           \/ phase' = "Groups" /\ GroupsInv'
<1>1. PICK left : left = {c \in Graph!Clocks : c > clock}
  OBVIOUS
<1>2. clock \in Nat /\ left \in SUBSET Nat
  BY <1>1, KindsApart DEF StartsFrom
<1>c. \A n \in Graph!Clocked :
        /\ Shapes[n].to \in Graph!Clocks /\ Shapes[n].to \in Nat
        /\ Shapes[n].to \in left \/ Shapes[n].to <= clock
  <2> SUFFICES ASSUME NEW n \in Graph!Clocked
               PROVE  /\ Shapes[n].to \in Graph!Clocks /\ Shapes[n].to \in Nat
                      /\ Shapes[n].to \in left \/ Shapes[n].to <= clock
    OBVIOUS
  <2>1. Shapes[n].to \in Graph!Clocks
    BY KindsApart
  <2>2. Shapes[n].to \in Nat
    BY <2>1, KindsApart
  <2> QED BY <1>1, <1>2, <2>1, <2>2
<1>3. CASE left = {}
  <2>1. \A n \in Graph!Clocked : Shapes[n].to <= clock
    BY <1>3, <1>c
  <2>2. Listed(order) = Gates
    BY <2>1, KindsApart DEF StartsFrom
  <2>3. ASSUME NEW n \in Graph!OfKind({"Sink"}), NEW i \in Graph!InputsOf(n)
        PROVE  Graph!SourceOf(i) \in computed
    <3>1. n \in Graph!Nodes
      BY DEF Graph!OfKind
    <3> QED BY <2>1, <3>1, WhatIsRead DEF StartsFrom
  <2>4. \A n \in Graph!OfKind({"Sink"}) : Graph!Ready(n, computed)
    BY <2>3 DEF Graph!Ready
  <2>5. phase' = "Done"
    BY <1>1, <1>3, <2>4 DEF Graph!OpenGroup
  <2> QED BY <2>2, <2>5
<1>4. CASE left # {}
  <2>1. PICK next : next = Graph!Min(left)
    OBVIOUS
  <2>2. next \in left /\ \A c \in left : next <= c
    <3>1. \E m \in left : \A n \in left : m <= n
      BY <1>2, <1>4, SmallestOf
    <3> QED BY <2>1, <3>1 DEF Graph!Min
  <2>3. PICK opened : opened = Graph!InGroup(next) \ Graph!OfKind({"UnitDelay"})
    OBVIOUS
  <2>4. PICK listed : listed = Graph!InOrder(opened)
    OBVIOUS
  <2>5. /\ phase' = "Groups" /\ clock' = next /\ queue' = listed
        /\ available' = computed \cup {Graph!Output(n) :
                            n \in Graph!InGroup(next) \cap Graph!OfKind({"UnitDelay"})}
    BY <1>1, <1>4, <2>1, <2>3, <2>4 DEF Graph!OpenGroup
  <2>6. /\ next \in Graph!Clocks /\ next \in Nat /\ clock < next
        /\ \A n \in Graph!Clocked : Shapes[n].to < next => Shapes[n].to <= clock
    <3>1. next \in Graph!Clocks /\ next \in Nat /\ clock < next
      BY <1>1, <1>2, <2>2
    <3>2. ASSUME NEW n \in Graph!Clocked, Shapes[n].to < next PROVE Shapes[n].to <= clock
      <4>1. Shapes[n].to \notin left
        BY <1>c, <2>2, <3>1, <3>2
      <4> QED BY <1>c, <4>1
    <3> QED BY <3>1, <3>2
  <2>7. opened = Gates \cap Graph!InGroup(next) /\ opened \cap Graph!Nodes = opened
    BY <2>3, KindsApart DEF Graph!InGroup
  <2>8. Distinct(listed) /\ Listed(listed) = opened
    BY <2>4, <2>7, InOrderIsRight
  <2>9. Listed(deferred) = {} /\ Distinct(deferred)
    BY NothingListed
  <2>10. Fed'
    BY <2>5 DEF Fed, StartsFrom, Graph!Unconnected
  <2>11. ComputedBefore(next, computed)
    BY <2>6 DEF ComputedBefore, StartsFrom
  <2>12. \A n \in Gates : Graph!Output(n) \in available' => n \in Listed(order)
    BY <2>5, PortsAre, KindsApart DEF StartsFrom
  <2>13. \A n \in Gates : Shapes[n].to < next => n \in Listed(order)
    BY <2>6, KindsApart DEF StartsFrom
  <2>14. \A n \in Listed(order) : n \in Gates /\ Shapes[n].to <= next /\ n \notin opened
    <3> SUFFICES ASSUME NEW n \in Listed(order)
                 PROVE  n \in Gates /\ Shapes[n].to <= next /\ n \notin opened
      OBVIOUS
    <3>1. n \in Gates /\ Shapes[n].to <= clock /\ Shapes[n].to \in Nat
      BY KindsApart DEF StartsFrom
    <3>2. Shapes[n].to # next
      BY <1>2, <2>6, <3>1
    <3> QED BY <1>2, <2>6, <2>7, <3>1, <3>2 DEF Graph!InGroup
  <2>15. \A n \in Graph!InGroup(next) : n \in opened \/ Graph!Output(n) \in available'
    BY <2>3, <2>5
  <2>16. GatesOrdered(available)'
    BY <2>5, <2>12, <2>13, <2>14 DEF GatesOrdered, Gates
  <2>17. Waiting' = opened
    BY <2>5, <2>8, <2>9 DEF Waiting
  <2>18. Graph!BehindClocked' = {}
    BY DEF Graph!BehindClocked, StartsFrom
  <2>19. streams' \subseteq available'
    BY <2>5
  <2>20. Waiting' \cap Listed(order') = {}
    BY <2>14, <2>17
  <2>21. clock' \in Graph!Clocks /\ ComputedBefore(clock', streams')
    BY <2>5, <2>6, <2>11
  <2>22. \A n \in Graph!InGroup(clock') : (n \in Gates /\ n \in Waiting') \/ Graph!Output(n) \in available'
    BY <2>5, <2>7, <2>15, <2>17
  <2>23. /\ Distinct(queue') /\ Distinct(deferred') /\ Listed(queue') \cap Listed(deferred') = {}
         /\ Listed(deferred') = {}
    BY <2>5, <2>8, <2>9
  <2>24. Waiting' \subseteq Gates \cap Graph!InGroup(clock')
    BY <2>5, <2>7, <2>17
  <2> QED BY <2>5, <2>10, <2>16, <2>18, <2>19, <2>20, <2>21, <2>22, <2>23, <2>24
       DEF GroupsInv, Gates, ComputedBefore, Transitions
<1> QED BY <1>3, <1>4

\* An order that does not change stays right.
LEMMA OrderedRightKept == OrderedRight /\ UNCHANGED <<wires, order>> => OrderedRight'
BY DEF OrderedRight, Gates

\* In the search nothing is computed.
LEMMA OrderIdle ==
    ASSUME OrderInv, phase = "Analyse", phase' \in {"Analyse", "Cyclic", "LimitExceeded"},
           UNCHANGED <<wires, Graph!passes>>
    PROVE  OrderInv'
<1>1. OrderedRight'
  BY OrderedRightKept DEF OrderInv, Graph!passes
<1> QED BY <1>1 DEF OrderInv, Graph!passes, Graph!StuckOnlyOnTransitions

\* The transitions begin with the streams from outside.
LEMMA SearchEndOrders ==
    ASSUME SearchInv, OrderInv, Graph!SearchEnd
    PROVE  OrderInv'
<1>1. /\ UNCHANGED <<wires, injected, clock, deferred, progressed, order>>
      /\ \/ /\ phase' = "Transitions" /\ Graph!Unconnected \subseteq injected
            /\ streams' = {Graph!Output(n) : n \in Graph!OfKind({"Source"})} \cup injected
            /\ queue' = Graph!InOrder(Transitions)
         \/ phase' = "Incomplete"
      /\ wires \in Wirings /\ order = <<>> /\ deferred = <<>> /\ clock = 0
      /\ progressed = FALSE
  BY DEF Graph!SearchEnd, OrderInv, Transitions
<1>2. OrderedRight'
  BY <1>1, OrderedRightKept DEF OrderInv
<1>3. CASE phase' = "Incomplete"
  BY <1>1, <1>2, <1>3 DEF OrderInv, Graph!StuckOnlyOnTransitions
<1>4. CASE phase' = "Transitions"
  <2>1. Listed(queue') = Transitions
    <3>1. Transitions \cap Graph!Nodes = Transitions
      BY KindsApart
    <3>2. queue' = Graph!InOrder(Transitions)
      BY <1>1, <1>4
    <3> QED BY <3>1, <3>2, InOrderIsRight
  <2>2. Waiting' = Transitions
    BY <1>1, <2>1, NothingListed DEF Waiting
  <2>3. \A n \in Graph!Nodes : Graph!Output(n) \in streams' => n \in Graph!OfKind({"Source"})
    <3>1. injected \subseteq Graph!Inputs
      BY DEF SearchInv, Graph!TypeOK
    <3> QED BY <1>1, <1>4, <3>1, PortsAre
  <2>4. Fed'
    BY <1>1, <1>4 DEF Fed, Graph!Unconnected
  <2>5. Listed(deferred') = {}
    BY <1>1, NothingListed
  <2>6. TransitionsInv'
    BY <1>1, <2>2, <2>3, <2>4, <2>5, KindsApart DEF TransitionsInv, Transitions
  <2> QED BY <1>1, <1>2, <1>4, <2>6 DEF OrderInv, Graph!StuckOnlyOnTransitions
<1> QED BY <1>1, <1>3, <1>4

\* A transition is computed from streams, or waits.
LEMMA PassTransitionOrders ==
    ASSUME SearchInv, OrderInv, Graph!PassTransition
    PROVE  OrderInv'
<1>0. /\ TransitionsInv /\ phase = "Transitions" /\ wires \in Wirings
      /\ queue \in Seq(Graph!Nodes) /\ deferred \in Seq(Graph!Nodes)
  BY DEF OrderInv, Graph!PassTransition, SearchInv, Graph!TypeOK
<1>1. PICK n : n = Head(queue)
  OBVIOUS
<1>2. /\ queue # <<>> /\ queue' = Tail(queue)
      /\ UNCHANGED <<wires, injected, phase, clock, order>>
      /\ \/ /\ Graph!Ready(n, streams) /\ streams' = streams \cup {Graph!Output(n)}
            /\ progressed' = TRUE /\ UNCHANGED deferred
         \/ /\ ~ Graph!Ready(n, streams)
            /\ deferred' = Append(deferred, n) /\ UNCHANGED <<streams, progressed>>
  BY <1>1 DEF Graph!PassTransition
<1>3. n \in Graph!Nodes /\ Listed(queue) = {n} \cup Listed(queue')
  BY <1>0, <1>1, <1>2, ListedParts
<1>4. Listed(Append(deferred, n)) = Listed(deferred) \cup {n}
  BY <1>0, <1>3, ListedParts
<1>5. OrderedRight'
  BY <1>2, OrderedRightKept DEF OrderInv
<1>6. n \in Transitions
  BY <1>0, <1>3 DEF TransitionsInv, Waiting
<1>7. CASE /\ Graph!Ready(n, streams) /\ streams' = streams \cup {Graph!Output(n)}
           /\ progressed' = TRUE /\ UNCHANGED deferred
  <2>1. Waiting = Waiting' \cup {n}
    BY <1>3, <1>7 DEF Waiting
  <2>2. \A m \in Graph!Nodes : Graph!Ready(m, streams) => Graph!Ready(m, streams')
    BY <1>7 DEF Graph!Ready
  <2>3. ASSUME NEW m \in Graph!Nodes, Graph!Output(m) \in streams'
        PROVE  m \notin Graph!Clocked /\ (m \in Transitions => Graph!Ready(m, streams'))
    <3>1. CASE Graph!Output(m) \in streams
      BY <1>0, <2>2, <3>1 DEF TransitionsInv
    <3>2. CASE m = n
      BY <1>3, <1>6, <1>7, <2>2, <3>2, KindsApart
    <3> QED BY <1>7, <2>3, <3>1, <3>2, PortsAre
  <2>4. \A m \in Transitions : Graph!Output(m) \in streams' \/ m \in Waiting'
    BY <1>0, <1>7, <2>1 DEF TransitionsInv
  <2>5. \A m \in Graph!Nodes : Graph!Ready(m, streams)' <=> Graph!Ready(m, streams')
    BY <1>2 DEF Graph!Ready, Graph!SourceOf
  <2>6. Fed'
    BY <1>0, <1>2, <1>7 DEF TransitionsInv, Fed, Graph!Unconnected
  <2>7. clock' = 0 /\ order' = <<>> /\ Waiting' \subseteq Transitions
    BY <1>0, <1>2, <2>1 DEF TransitionsInv
  <2>8. TransitionsInv'
    BY <1>7, <2>3, <2>4, <2>5, <2>6, <2>7 DEF TransitionsInv, Transitions
  <2> QED BY <1>0, <1>2, <1>5, <2>8 DEF OrderInv, Graph!StuckOnlyOnTransitions
<1>8. CASE /\ ~ Graph!Ready(n, streams)
           /\ deferred' = Append(deferred, n) /\ UNCHANGED <<streams, progressed>>
  <2>1. Waiting' = Waiting
    BY <1>3, <1>4, <1>8 DEF Waiting
  <2>2. \A m : Graph!Ready(m, streams)' <=> Graph!Ready(m, streams)
    BY <1>2, <1>8 DEF Graph!Ready, Graph!SourceOf
  <2>3. Fed'
    BY <1>0, <1>2, <1>8 DEF TransitionsInv, Fed, Graph!Unconnected
  <2>4. ~ progressed => \A m \in Listed(deferred') : ~ Graph!Ready(m, streams)
    BY <1>0, <1>4, <1>8 DEF TransitionsInv
  <2>5. TransitionsInv'
    BY <1>0, <1>2, <1>8, <2>1, <2>2, <2>3, <2>4 DEF TransitionsInv, Transitions
  <2> QED BY <1>0, <1>2, <1>5, <2>5 DEF OrderInv, Graph!StuckOnlyOnTransitions
<1> QED BY <1>2, <1>7, <1>8

\* A gate that is ready comes after the gates it reads.
LEMMA OrderGrows ==
    ASSUME OrderedRight, wires' = wires, order \in Seq(Graph!Nodes), NEW n \in Graph!Nodes,
           n \notin Listed(order), order' = Append(order, n),
           \A i \in Graph!InputsOf(n) : wires[i] \in Gates => wires[i] \in Listed(order)
    PROVE  OrderedRight'
<1>1. PICK L : L = Len(order)
  OBVIOUS
<1>2. L \in Nat /\ Len(order') = L + 1 /\ order'[L + 1] = n /\ \A k \in 1..L : order'[k] = order[k]
  BY <1>1
<1>3. Distinct(order')
  BY ListedParts DEF OrderedRight
<1>4. ASSUME NEW k \in 1..(L + 1), NEW i \in Graph!InputsOf(order'[k]), wires[i] \in Gates
      PROVE  \E j \in 1..(k - 1) : order'[j] = wires[i]
  <2>1. CASE k = L + 1
    <3>1. wires[i] \in Listed(order)
      BY <1>2, <1>4, <2>1
    <3>2. PICK j \in 1..L : order[j] = wires[i]
      BY <1>1, <3>1 DEF Listed
    <3>3. j \in 1..(k - 1)
      BY <1>2, <2>1
    <3> QED BY <1>2, <3>2, <3>3
  <2>2. CASE k # L + 1
    <3>1. k \in 1..L /\ i \in Graph!InputsOf(order[k])
      BY <1>2, <2>2
    <3>2. PICK j \in 1..(k - 1) : order[j] = wires[i]
      BY <1>1, <1>4, <3>1 DEF OrderedRight
    <3>3. j \in 1..L
      BY <1>2, <3>1
    <3> QED BY <1>2, <3>2, <3>3
  <2> QED BY <2>1, <2>2
<1> QED BY <1>2, <1>3, <1>4 DEF OrderedRight, Gates

\* A gate is computed from what is available, or waits.
LEMMA PassClockedOrders ==
    ASSUME SearchInv, OrderInv, Graph!PassClocked
    PROVE  OrderInv'
<1>0. /\ GroupsInv /\ OrderedRight /\ phase = "Groups" /\ wires \in Wirings
      /\ queue \in Seq(Graph!Nodes) /\ deferred \in Seq(Graph!Nodes)
      /\ order \in Seq(Graph!Nodes)
  BY DEF OrderInv, Graph!PassClocked, SearchInv, Graph!TypeOK
<1>1. PICK n : n = Head(queue)
  OBVIOUS
<1>2. /\ queue # <<>> /\ queue' = Tail(queue)
      /\ UNCHANGED <<wires, injected, phase, clock, streams>>
      /\ \/ /\ Graph!Ready(n, available) /\ available' = available \cup {Graph!Output(n)}
            /\ order' = Append(order, n) /\ progressed' = TRUE /\ UNCHANGED deferred
         \/ /\ ~ Graph!Ready(n, available)
            /\ deferred' = Append(deferred, n) /\ UNCHANGED <<available, order, progressed>>
  BY <1>1 DEF Graph!PassClocked
<1>3. /\ n \in Graph!Nodes /\ Listed(queue) = {n} \cup Listed(queue')
      /\ Distinct(queue') /\ n \notin Listed(queue')
  BY <1>0, <1>1, <1>2, ListedParts DEF GroupsInv
<1>4. /\ n \in Gates /\ n \in Graph!InGroup(clock) /\ n \notin Listed(deferred)
      /\ n \notin Listed(order)
  BY <1>0, <1>3 DEF GroupsInv, Waiting
<1>5. /\ Listed(Append(deferred, n)) = Listed(deferred) \cup {n} /\ Distinct(Append(deferred, n))
      /\ Listed(Append(order, n)) = Listed(order) \cup {n}
  BY <1>0, <1>3, <1>4, ListedParts DEF GroupsInv
<1>6. Fed' /\ Graph!BehindClocked' = {} /\ ComputedBefore(clock, streams)
  <2>1. UNCHANGED <<wires, injected, streams>>
    BY <1>2
  <2>2. Fed /\ Graph!BehindClocked = {} /\ ComputedBefore(clock, streams)
    BY <1>0 DEF GroupsInv
  <2>3. Graph!BehindClocked' = Graph!BehindClocked
    BY <2>1 DEF Graph!BehindClocked
  <2> QED BY <2>1, <2>2, <2>3 DEF Fed, Graph!Unconnected
<1>7. CASE /\ Graph!Ready(n, available) /\ available' = available \cup {Graph!Output(n)}
           /\ order' = Append(order, n) /\ progressed' = TRUE /\ UNCHANGED deferred
  <2>1. \A i \in Graph!InputsOf(n) : wires[i] \in Gates => wires[i] \in Listed(order)
    <3> SUFFICES ASSUME NEW i \in Graph!InputsOf(n), wires[i] \in Gates
                 PROVE  wires[i] \in Listed(order)
      OBVIOUS
    <3>1. wires[i] # 0
      BY KindsApart, GraphFacts
    <3>2. Graph!Output(wires[i]) \in available
      BY <1>7, <3>1 DEF Graph!Ready, Graph!SourceOf
    <3> QED BY <1>0, <3>2 DEF GroupsInv, GatesOrdered
  <2>2. OrderedRight'
    BY <1>0, <1>2, <1>3, <1>4, <1>7, <2>1, OrderGrows
  <2>3. Waiting = Waiting' \cup {n} /\ n \notin Waiting'
    BY <1>3, <1>4, <1>7 DEF Waiting
  <2>4. Listed(order') = Listed(order) \cup {n}
    BY <1>5, <1>7
  <2>5. \A m \in Gates : Graph!Output(m) \in available' => m \in Listed(order')
    BY <1>0, <1>7, <2>4, PortsAre DEF GroupsInv, GatesOrdered
  <2>6. Shapes[n].to <= clock
    <3>1. Shapes[n].to = clock /\ clock \in Nat
      BY <1>0, <1>4, KindsApart DEF GroupsInv, Graph!InGroup
    <3> QED BY <3>1
  <2>7. GatesOrdered(available)'
    BY <1>0, <1>2, <1>4, <2>4, <2>5, <2>6 DEF GroupsInv, GatesOrdered, Gates
  <2>8. \A m \in Graph!InGroup(clock) :
          (m \in Gates /\ m \in Waiting') \/ Graph!Output(m) \in available'
    BY <1>0, <1>7, <2>3 DEF GroupsInv
  <2>9. Waiting' \cap Listed(order') = {} /\ Waiting' \subseteq Gates \cap Graph!InGroup(clock)
    BY <1>0, <2>3, <2>4 DEF GroupsInv
  <2>10. /\ Distinct(deferred') /\ Listed(queue') \cap Listed(deferred') = {}
    BY <1>0, <1>3, <1>7 DEF GroupsInv
  <2>11. streams' \subseteq available' /\ clock' \in Graph!Clocks
    BY <1>0, <1>2, <1>7 DEF GroupsInv
  <2>12. GroupsInv'
    BY <1>2, <1>3, <1>6, <1>7, <2>7, <2>8, <2>9, <2>10, <2>11
       DEF GroupsInv, Gates, ComputedBefore, Transitions
  <2> QED BY <1>0, <1>2, <2>2, <2>12 DEF OrderInv, Graph!StuckOnlyOnTransitions
<1>8. CASE /\ ~ Graph!Ready(n, available)
           /\ deferred' = Append(deferred, n) /\ UNCHANGED <<available, order, progressed>>
  <2>1. Waiting' = Waiting
    BY <1>3, <1>5, <1>8 DEF Waiting
  <2>2. OrderedRight'
    BY <1>0, <1>2, <1>8, OrderedRightKept
  <2>3. /\ Distinct(deferred') /\ Listed(queue') \cap Listed(deferred') = {}
    BY <1>0, <1>3, <1>5, <1>8 DEF GroupsInv
  <2>4. ~ progressed => \A m \in Listed(deferred') : ~ Graph!Ready(m, available)
    BY <1>0, <1>5, <1>8 DEF GroupsInv
  <2>5. \A m : Graph!Ready(m, available)' <=> Graph!Ready(m, available)
    BY <1>2, <1>8 DEF Graph!Ready, Graph!SourceOf
  <2>6. GatesOrdered(available)'
    BY <1>0, <1>2, <1>8 DEF GroupsInv, GatesOrdered, Gates
  <2>7. /\ Waiting' \cap Listed(order') = {} /\ Waiting' \subseteq Gates \cap Graph!InGroup(clock)
        /\ streams' \subseteq available' /\ clock' \in Graph!Clocks
    BY <1>0, <1>2, <1>8, <2>1 DEF GroupsInv
  <2>8. \A m \in Graph!InGroup(clock) :
          (m \in Gates /\ m \in Waiting') \/ Graph!Output(m) \in available'
    BY <1>0, <1>8, <2>1 DEF GroupsInv
  <2>9. GroupsInv'
    BY <1>2, <1>3, <1>6, <1>8, <2>3, <2>4, <2>5, <2>6, <2>7, <2>8
       DEF GroupsInv, Gates, ComputedBefore, Transitions
  <2> QED BY <1>0, <1>2, <2>2, <2>9 DEF OrderInv, Graph!StuckOnlyOnTransitions
<1> QED BY <1>2, <1>7, <1>8

\* Only transitions can be left in a pass without progress.
LEMMA PassAgainOrders ==
    ASSUME SearchInv, OrderInv, Graph!PassAgain
    PROVE  OrderInv'
<1>0. /\ wires \in Wirings /\ ~ Graph!HasCycle /\ queue = <<>> /\ deferred # <<>>
      /\ deferred \in Seq(Graph!Nodes) /\ phase \in {"Transitions", "Groups"}
      /\ UNCHANGED <<wires, injected, clock, streams, available, order>> /\ progressed' = FALSE
      /\ \/ progressed /\ queue' = deferred /\ deferred' = <<>> /\ UNCHANGED phase
         \/ ~ progressed /\ phase' = "Unavailable" /\ UNCHANGED <<queue, deferred>>
  BY DEF OrderInv, Graph!PassAgain, SearchInv, Graph!TypeOK
<1>1. OrderedRight'
  BY <1>0, OrderedRightKept DEF OrderInv
<1>2. Listed(deferred) # {} /\ Head(deferred) \in Listed(deferred)
  BY <1>0, ListedParts
<1>3. CASE progressed /\ queue' = deferred /\ deferred' = <<>> /\ UNCHANGED phase
  <2>1. Waiting' = Waiting /\ Listed(deferred') = {} /\ Distinct(deferred')
    BY <1>0, <1>3, NothingListed DEF Waiting
  <2>2. CASE phase = "Transitions"
    <3>1. TransitionsInv
      BY <2>2 DEF OrderInv
    <3>2. Fed'
      BY <1>0, <3>1 DEF TransitionsInv, Fed, Graph!Unconnected
    <3>3. \A m : Graph!Ready(m, streams)' <=> Graph!Ready(m, streams)
      BY <1>0 DEF Graph!Ready, Graph!SourceOf
    <3>4. TransitionsInv'
      BY <1>0, <2>1, <3>1, <3>2, <3>3 DEF TransitionsInv, Transitions
    <3> QED BY <1>0, <1>1, <1>3, <2>2, <3>4 DEF OrderInv, Graph!StuckOnlyOnTransitions
  <2>3. CASE phase = "Groups"
    <3>1. GroupsInv
      BY <2>3 DEF OrderInv
    <3>2. Fed' /\ Graph!BehindClocked' = {} /\ ComputedBefore(clock, streams)
      BY <1>0, <3>1 DEF GroupsInv, Fed, Graph!Unconnected, Graph!BehindClocked
    <3>3. GatesOrdered(available)'
      BY <1>0, <3>1 DEF GroupsInv, GatesOrdered, Gates
    <3>4. Distinct(queue') /\ Listed(queue') \cap Listed(deferred') = {}
      BY <1>3, <2>1, <3>1 DEF GroupsInv
    <3>5. /\ Waiting' \cap Listed(order') = {} /\ Waiting' \subseteq Gates \cap Graph!InGroup(clock)
          /\ streams' \subseteq available' /\ clock' \in Graph!Clocks
          /\ \A m \in Graph!InGroup(clock) :
                (m \in Gates /\ m \in Waiting') \/ Graph!Output(m) \in available'
      BY <1>0, <2>1, <3>1 DEF GroupsInv
    <3>6. GroupsInv'
      BY <1>0, <2>1, <3>2, <3>3, <3>4, <3>5
         DEF GroupsInv, Gates, ComputedBefore, Transitions
    <3> QED BY <1>0, <1>1, <1>3, <2>3, <3>6 DEF OrderInv, Graph!StuckOnlyOnTransitions
  <2> QED BY <1>0, <2>2, <2>3
<1>4. CASE ~ progressed /\ phase' = "Unavailable" /\ UNCHANGED <<queue, deferred>>
  <2>1. phase = "Transitions" /\ TransitionsInv
    BY <1>0, <1>2, <1>4, GroupNotStuck DEF OrderInv
  <2>2. Head(deferred) \in Graph!BehindClocked
    BY <1>0, <1>2, <1>4, <2>1, StuckTransitions
  <2>3. Graph!BehindClocked' = Graph!BehindClocked
    BY <1>0 DEF Graph!BehindClocked
  <2>4. Graph!StuckOnlyOnTransitions'
    BY <1>0, <1>4, <2>2, <2>3 DEF Graph!StuckOnlyOnTransitions
  <2> QED BY <1>0, <1>1, <1>4, <2>4 DEF OrderInv
<1> QED BY <1>0, <1>3, <1>4

\* The end of the transitions is where the first group can start.
LEMMA TransitionsEndOrders ==
    ASSUME SearchInv, OrderInv, Graph!TransitionsEnd
    PROVE  OrderInv'
<1>0. /\ wires \in Wirings /\ ~ Graph!HasCycle /\ queue = <<>> /\ deferred = <<>>
      /\ phase = "Transitions" /\ TransitionsInv /\ OrderedRight
      /\ Graph!OpenGroup(streams) /\ progressed' = FALSE
      /\ UNCHANGED <<wires, injected, deferred, streams, order>>
  BY DEF OrderInv, Graph!TransitionsEnd, SearchInv
<1>1. Graph!BehindClocked = {}
  BY <1>0, NoneBehind
<1>2. /\ \A n \in Transitions : Graph!Output(n) \in streams
      /\ \A n \in Graph!Clocked : Graph!Output(n) \notin streams
      /\ Fed /\ clock = 0 /\ order = <<>>
  BY <1>0, NothingListed, KindsApart DEF TransitionsInv, Waiting
<1>3. \A n \in Graph!Clocked : ~ (Shapes[n].to <= 0)
  <2> SUFFICES ASSUME NEW n \in Graph!Clocked PROVE ~ (Shapes[n].to <= 0)
    OBVIOUS
  <2>1. Shapes[n].to \in Nat \ {0}
    BY KindsApart
  <2> QED BY <2>1
<1>4. StartsFrom(streams)
  BY <1>1, <1>2, <1>3, KindsApart, NothingListed DEF StartsFrom, Fed
<1>5. \/ phase' = "Done" /\ Listed(order) = Gates
      \/ phase' = "Groups" /\ GroupsInv'
  BY <1>0, <1>4, OrderOpens
<1>6. Graph!BehindClocked' = {}
  BY <1>0, <1>1 DEF Graph!BehindClocked
<1>7. OrderedRight'
  BY <1>0, OrderedRightKept
<1> QED BY <1>0, <1>5, <1>6, <1>7 DEF OrderInv, Graph!StuckOnlyOnTransitions, Gates

\* The end of a group always finds what the group reads.
LEMMA GroupEndOrders ==
    ASSUME SearchInv, OrderInv, Graph!GroupEnd
    PROVE  OrderInv'
<1>1. PICK computed : computed = streams \cup {Graph!Output(n) : n \in Graph!InGroup(clock)}
  OBVIOUS
<1>0. /\ wires \in Wirings /\ queue = <<>> /\ deferred = <<>>
      /\ phase = "Groups" /\ GroupsInv /\ OrderedRight /\ progressed' = FALSE
      /\ UNCHANGED <<wires, injected, deferred, order>>
      /\ IF \A n \in Graph!InGroup(clock) : Graph!Ready(n, computed)
         THEN streams' = computed /\ Graph!OpenGroup(computed)
         ELSE phase' = "Unavailable"
  BY <1>1 DEF OrderInv, Graph!GroupEnd
<1>2. /\ Fed /\ clock \in Graph!Clocks /\ clock \in Nat
      /\ \A n \in Transitions : Graph!Output(n) \in streams
      /\ \A n \in Graph!Clocked : Shapes[n].to < clock => Graph!Output(n) \in streams
      /\ \A n \in Gates : Shapes[n].to < clock => n \in Listed(order)
      /\ \A n \in Listed(order) : n \in Gates /\ Shapes[n].to <= clock
      /\ \A n \in Gates : Graph!Output(n) \in available => n \in Listed(order)
      /\ streams \subseteq available /\ Graph!BehindClocked = {}
  BY <1>0, KindsApart DEF GroupsInv, ComputedBefore, GatesOrdered
<1>3. \A n \in Graph!InGroup(clock) : Graph!Output(n) \in available
  BY <1>0, NothingListed DEF GroupsInv, Waiting
<1>4. \A n \in Graph!Clocked : Shapes[n].to <= clock =>
        Shapes[n].to < clock \/ n \in Graph!InGroup(clock)
  <2> SUFFICES ASSUME NEW n \in Graph!Clocked, Shapes[n].to <= clock
               PROVE  Shapes[n].to < clock \/ n \in Graph!InGroup(clock)
    OBVIOUS
  <2>1. Shapes[n].to \in Nat
    BY KindsApart
  <2> QED BY <1>2, <2>1 DEF Graph!InGroup
<1>5. ASSUME NEW n \in Graph!InGroup(clock), NEW i \in Graph!InputsOf(n)
      PROVE  Graph!SourceOf(i) \in computed
  <2>1. n \in Graph!Clocked /\ n \in Graph!Nodes /\ Shapes[n].from = clock
    BY KindsApart DEF Graph!InGroup
  <2>2. CASE wires[i] = 0 /\ i \in Graph!Unconnected /\ Graph!SourceOf(i) = i
    BY <1>1, <1>2, <2>2 DEF Fed
  <2>3. CASE /\ wires[i] \in Graph!OfKind({"Source"}) \cup Transitions \cup Graph!Clocked
             /\ Graph!SourceOf(i) = Graph!Output(wires[i])
             /\ Shapes[wires[i]].to = Shapes[n].from
    BY <1>1, <1>2, <2>1, <2>3 DEF Fed, Graph!InGroup
  <2> QED BY <1>0, <2>1, <2>2, <2>3, WhatIsRead
<1>6. streams' = computed /\ Graph!OpenGroup(computed)
  BY <1>0, <1>5 DEF Graph!Ready
<1>7. \A n \in Gates : Shapes[n].to <= clock => n \in Listed(order)
  BY <1>2, <1>3, <1>4, KindsApart
<1>8. \A n \in Gates : Graph!Output(n) \in computed => n \in Listed(order)
  BY <1>1, <1>2, <1>3, PortsAre
<1>9. \A n \in Graph!Clocked : Shapes[n].to <= clock => Graph!Output(n) \in computed
  BY <1>1, <1>2, <1>4
<1>10. StartsFrom(computed)
  <2>1. Distinct(order)
    BY <1>0 DEF OrderedRight
  <2> QED BY <1>1, <1>2, <1>7, <1>8, <1>9, <2>1 DEF StartsFrom, Fed
<1>11. \/ phase' = "Done" /\ Listed(order) = Gates
       \/ phase' = "Groups" /\ GroupsInv'
  BY <1>0, <1>6, <1>10, OrderOpens
<1>12. Graph!BehindClocked' = {}
  <2>1. wires' = wires
    BY <1>0
  <2>2. Graph!BehindClocked' = Graph!BehindClocked
    BY <2>1 DEF Graph!BehindClocked
  <2> QED BY <1>2, <2>2
<1>13. OrderedRight'
  BY <1>0, OrderedRightKept
<1> QED BY <1>0, <1>11, <1>12, <1>13 DEF OrderInv, Graph!StuckOnlyOnTransitions, Gates

\* At the start nothing is in order.
LEMMA OrderInit == Graph!Init => OrderInv
BY NothingListed DEF Graph!Init, OrderInv, OrderedRight, Graph!StuckOnlyOnTransitions, Distinct

\* Every step keeps the order.
LEMMA OrderStep == SearchInv /\ OrderInv /\ Graph!Next => OrderInv'
<1> SUFFICES ASSUME SearchInv, OrderInv, Graph!Next PROVE OrderInv'
  OBVIOUS
<1>1. ASSUME Graph!SearchStart \/ Graph!SearchPop \/ Graph!SearchEdge PROVE OrderInv'
  BY <1>1, OrderIdle DEF Graph!SearchStart, Graph!SearchPop, Graph!SearchEdge
<1> QED BY <1>1, SearchEndOrders, PassTransitionOrders, PassClockedOrders, PassAgainOrders,
           TransitionsEndOrders, GroupEndOrders DEF Graph!Next

\* What the invariant keeps is what the properties ask for.
LEMMA OrderIsRight ==
    ASSUME SearchInv, OrderInv
    PROVE  Graph!OrderIsTopological /\ Graph!StuckOnlyOnTransitions
<1>1. order \in Seq(Graph!Nodes) /\ wires \in [Graph!Inputs -> Graph!Nodes \cup {0}]
  BY DEF SearchInv, Graph!TypeOK
<1>2. Graph!IsInjective(order)
  BY <1>1 DEF OrderInv, OrderedRight, Distinct, Graph!IsInjective
<1>3. ASSUME NEW k \in 1..Len(order), NEW i \in Graph!Inputs, i \in Graph!InputsOf(order[k]),
             wires[i] # 0, Shapes[wires[i]].kind = "Combinational"
      PROVE  \E j \in 1..(k - 1) : order[j] = wires[i]
  <2>1. wires[i] \in Gates
    BY <1>1, <1>3 DEF Gates, Graph!OfKind
  <2> QED BY <1>3, <2>1 DEF OrderInv, OrderedRight
<1>4. phase = "Done" => Graph!ToSet(order) = Graph!OfKind({"Combinational"})
  BY <1>1 DEF OrderInv, Listed, Gates, Graph!ToSet
<1> QED BY <1>2, <1>3, <1>4 DEF OrderInv, Graph!OrderIsTopological

-----------------------------------------------------------------------------
(* The search and the passes as a part of the editor.                       *)

EditorGraphInv ==
    /\ part \in {"Authoring", "Simulation"}
    /\ part = "Simulation" => SearchInv /\ OrderInv

\* What is said of the search does not depend on the editor.
LEMMA SearchInvKept ==
    ASSUME SearchInv, UNCHANGED simulator
    PROVE  SearchInv'
<1>1. SearchTypes' /\ PassTypes'
  BY TypesOfParts DEF SearchInv, SearchTypes, PassTypes, simulator
<1>2. Graph!TypeOK'
  BY <1>1 DEF Graph!TypeOK, SearchTypes, PassTypes, Entries, Phases
<1>3. Graph!VerdictIsRight' /\ Graph!WitnessIsCycle'
  BY GraphKept DEF SearchInv, simulator, Graph!VerdictIsRight, Graph!WitnessIsCycle
<1>4. phase = "Analyse" => PathOfSearch' /\ LookedAt' /\ BlackIsDone'
  BY GraphKept DEF SearchInv, simulator, PathOfSearch, LookedAt, BlackIsDone, Black
<1> QED BY <1>2, <1>3, <1>4, GraphKept DEF SearchInv, simulator, ComputedWait

\* Neither does what is said of the order.
LEMMA OrderInvKept ==
    ASSUME OrderInv, UNCHANGED simulator
    PROVE  OrderInv'
<1> USE DEF simulator
<1>1. OrderedRight' /\ Graph!BehindClocked' = Graph!BehindClocked
  BY OrderedRightKept DEF OrderInv, Graph!BehindClocked
<1>2. TransitionsInv => TransitionsInv'
  BY DEF TransitionsInv, Fed, Graph!Unconnected, Waiting, Transitions, Graph!Ready, Graph!SourceOf
<1>3. GroupsInv => GroupsInv'
  BY <1>1 DEF GroupsInv, Fed, Graph!Unconnected, Waiting, Transitions, Gates, Graph!Ready,
              Graph!SourceOf, ComputedBefore, GatesOrdered
<1> QED BY <1>1, <1>2, <1>3 DEF OrderInv, Graph!StuckOnlyOnTransitions, Gates

\* Either part starts right.
LEMMA EditorGraphStart == EditorInit => EditorGraphInv
BY SearchInit, OrderInit DEF EditorInit, EditorGraphInv

\* Every step of either part keeps it so.
LEMMA EditorGraphStep == EditorGraphInv /\ [EditorNext]_<<part, vars, simulator>> => EditorGraphInv'
<1> SUFFICES ASSUME EditorGraphInv, [EditorNext]_<<part, vars, simulator>> PROVE EditorGraphInv'
  OBVIOUS
<1>1. ASSUME Authoring_(Next) PROVE EditorGraphInv'
  BY <1>1, SearchInvKept, OrderInvKept DEF Authoring_, EditorGraphInv
<1>2. ASSUME Simulation_(Graph!Next) PROVE EditorGraphInv'
  <2>1. SearchInv /\ OrderInv /\ UNCHANGED part /\ Graph!Next
    BY <1>2 DEF Simulation_, EditorGraphInv
  <2>2. SearchInv'
    BY <2>1, SearchStartKeeps, SearchPopKeeps, SearchEdgeKeeps, SearchEndKeeps,
       PassTransitionKeeps, PassClockedKeeps, PassAgainKeeps, TransitionsEndKeeps, GroupEndKeeps
       DEF Graph!Next
  <2> QED BY <2>1, <2>2, OrderStep DEF EditorGraphInv
<1>3. ASSUME UNCHANGED <<part, vars, simulator>> PROVE EditorGraphInv'
  BY <1>3, SearchInvKept, OrderInvKept DEF EditorGraphInv
<1> QED BY <1>1, <1>2, <1>3 DEF EditorNext

\* The stack of the search is the grey ports and a path, what is black is done with and holds
\* no circle, and what is computed when depends on what was computed before.
THEOREM GraphInvariant == EditorSpec => []EditorGraphInv
BY EditorGraphStart, EditorGraphStep, PTL DEF EditorSpec

\* find_cycle refuses a graph only when nodes of it read each other in the same tick, and
\* admits it only when none do; the links it reports are such a cycle, simple and within
\* the limit: whatever the nodes, the wiring and the order in which ports are met.
THEOREM VerdictsAreRight == EditorSpec => []GraphVerdictIsRight
<1>1. EditorGraphInv => GraphVerdictIsRight
  BY DEF EditorGraphInv, SearchInv, GraphVerdictIsRight
<1> QED BY <1>1, GraphInvariant, PTL

\* The simulator evaluates every gate once and after the gates it reads, and of what the
\* analysis admits it is stuck on nothing but a transition behind a clocked node: no group
\* of any clock ever is.
THEOREM OrdersAreRight == EditorSpec => []GraphOrderIsRight
<1>1. EditorGraphInv => GraphOrderIsRight
  BY OrderIsRight DEF EditorGraphInv, GraphOrderIsRight
<1> QED BY <1>1, GraphInvariant, PTL

\* Both: whatever the graph, it is refused or put in order, and rightly.
THEOREM GraphsAreRight == EditorSpec => []GraphIsRight
BY VerdictsAreRight, OrdersAreRight, PTL DEF GraphIsRight
=============================================================================
