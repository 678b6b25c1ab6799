----------------------------- MODULE FileProofs -----------------------------
(***************************************************************************)
(* Proofs about open files: reference counts, the ends of pipes and the    *)
(* references to inodes are right whatever calls run at the same time and  *)
(* whatever runs out half way (FileTable); and what is in a file is what   *)
(* was written there, chunk by chunk (FileData, FileBytes).                *)
(***************************************************************************)
EXTENDS FileTableProps, FileDataProps, FiniteSetTheorems, SequenceTheorems, WellFoundedInduction, TLAPS

(***************************************************************************)
(* Counting the places that hold a value, when one place changes.          *)
(***************************************************************************)

\* One element more.
LEMMA OneMore ==
    ASSUME NEW S, IsFiniteSet(S), NEW x, x \notin S, NEW T, T = S \cup {x}
    PROVE  IsFiniteSet(T) /\ Cardinality(T) = Cardinality(S) + 1
BY FS_AddElement, SMT

\* One element less.
LEMMA OneLess ==
    ASSUME NEW S, IsFiniteSet(S), NEW x \in S, NEW T, T = S \ {x}
    PROVE  IsFiniteSet(T) /\ Cardinality(T) = Cardinality(S) - 1
BY FS_RemoveElement, SMT

Is(x, v) == IF x = v THEN 1 ELSE 0

\* The places of X where g is v.
Where(X, g, v) == {x \in X : g[x] = v}

LEMMA WhereFinite ==
    ASSUME NEW X, IsFiniteSet(X), NEW g, NEW v
    PROVE  IsFiniteSet(Where(X, g, v)) /\ Cardinality(Where(X, g, v)) \in Nat
<1>1. Where(X, g, v) \in SUBSET X
  BY DEF Where
<1>2. IsFiniteSet(Where(X, g, v))
  BY <1>1, FS_Subset
<1> QED BY <1>2, FS_CardinalityType

\* A place that gets another value.
LEMMA Moved ==
    ASSUME NEW X, IsFiniteSet(X), NEW z \in X, NEW g, NEW h,
           \A x \in X \ {z} : h[x] = g[x], NEW v
    PROVE  /\ Cardinality(Where(X, g, v)) \in Nat /\ Cardinality(Where(X, h, v)) \in Nat
           /\ Cardinality(Where(X, h, v)) + Is(g[z], v)
                 = Cardinality(Where(X, g, v)) + Is(h[z], v)
<1> DEFINE G == Where(X, g, v)
           H == Where(X, h, v)
<1>1. /\ IsFiniteSet(G) /\ Cardinality(G) \in Nat
      /\ IsFiniteSet(H) /\ Cardinality(H) \in Nat
  BY WhereFinite
<1>2. /\ \A x \in X \ {z} : x \in G <=> x \in H
      /\ z \in G <=> g[z] = v
      /\ z \in H <=> h[z] = v
      /\ G \subseteq X /\ H \subseteq X
  BY DEF Where
<1> HIDE DEF G, H
<1>3. CASE g[z] = v /\ h[z] = v
  <2>1. \A x : x \in G <=> x \in H
    BY <1>2, <1>3
  <2>2. G = H
    BY <2>1
  <2> QED BY <1>1, <1>3, <2>2 DEF Is, G, H
<1>4. CASE g[z] # v /\ h[z] # v
  <2>1. \A x : x \in G <=> x \in H
    BY <1>2, <1>4
  <2>2. G = H
    BY <2>1
  <2> QED BY <1>1, <1>4, <2>2 DEF Is, G, H
<1>5. CASE g[z] = v /\ h[z] # v
  <2>1. \A x : x \in H <=> x \in G /\ x # z
    BY <1>2, <1>5
  <2>2. H = G \ {z} /\ z \in G
    BY <1>2, <1>5, <2>1
  <2>3. Cardinality(H) = Cardinality(G) - 1
    BY <1>1, <2>2, OneLess
  <2> QED BY <1>1, <1>5, <2>3 DEF Is, G, H
<1>6. CASE g[z] # v /\ h[z] = v
  <2>1. \A x : x \in H <=> x \in G \/ x = z
    BY <1>2, <1>6
  <2>2. H = G \cup {z} /\ z \notin G
    BY <1>2, <1>6, <2>1
  <2>3. Cardinality(H) = Cardinality(G) + 1
    BY <1>1, <2>2, OneMore
  <2> QED BY <1>1, <1>6, <2>3 DEF Is, G, H
<1> QED BY <1>3, <1>4, <1>5, <1>6

\* Two elements and a count of one do not go together.
LEMMA OneOnly ==
    ASSUME NEW S, IsFiniteSet(S), Cardinality(S) = 1, NEW x \in S, NEW y \in S
    PROVE  x = y
<1>1. S \ {x} = {}
  <2>1. IsFiniteSet(S \ {x}) /\ Cardinality(S \ {x}) = 0
    BY OneLess
  <2> QED BY <2>1, FS_EmptySet
<1> QED BY <1>1

-----------------------------------------------------------------------------
(***************************************************************************)
(* The references to a file: FdRefs in the descriptors o, HandRefs in the  *)
(* hands h of the calls.                                                   *)
(***************************************************************************)
FdRefs(o, f)   == {x \in Users \X Fds : o[x[1]][x[2]] = f}
HandRefs(h, f) == {x \in Users \X Spots : h[x[1]][x[2]] = f}
Weight(r, f)   == Is(r.new1, f) + Is(r.new2, f) + Is(r.drop1, f) + Is(r.drop2, f)

LEMMA PlacesFinite ==
    IsFiniteSet(Users \X Fds) /\ IsFiniteSet(Users \X Spots) /\ IsFiniteSet(Files \cup Users)
<1>1. IsFiniteSet(Users) /\ IsFiniteSet(Fds) /\ IsFiniteSet(Files)
  BY FileTableAssumption
<1>2. IsFiniteSet({"new1"})
  BY FS_Singleton
<1>3. IsFiniteSet({"new1"} \cup {"new2"})
  BY <1>2, FS_AddElement
<1>4. IsFiniteSet(({"new1"} \cup {"new2"}) \cup {"drop1"})
  BY <1>3, FS_AddElement
<1>5. IsFiniteSet((({"new1"} \cup {"new2"}) \cup {"drop1"}) \cup {"drop2"})
  BY <1>4, FS_AddElement
<1>6. Spots = (({"new1"} \cup {"new2"}) \cup {"drop1"}) \cup {"drop2"}
  BY DEF Spots
<1>7. IsFiniteSet(Spots)
  BY <1>5, <1>6
<1> QED BY <1>1, <1>7, FS_Product, FS_Union

\* One descriptor changes.
LEMMA FdChange ==
    ASSUME NEW o, NEW p \in Users, NEW d \in Fds, NEW o2,
           \A q \in Users, e \in Fds : <<q, e>> # <<p, d>> => o2[q][e] = o[q][e], NEW f
    PROVE  /\ Cardinality(FdRefs(o, f)) \in Nat /\ Cardinality(FdRefs(o2, f)) \in Nat
           /\ Cardinality(FdRefs(o2, f)) + Is(o[p][d], f)
                 = Cardinality(FdRefs(o, f)) + Is(o2[p][d], f)
<1> DEFINE X == Users \X Fds
           g == [x \in X |-> o[x[1]][x[2]]]
           h == [x \in X |-> o2[x[1]][x[2]]]
           z == <<p, d>>
<1>1. \A q \in Users, e \in Fds : <<q, e>> # z => o2[q][e] = o[q][e]
  OBVIOUS
<1>2. z \in X /\ g[z] = o[p][d] /\ h[z] = o2[p][d]
  OBVIOUS
<1>3. \A x \in X \ {z} : h[x] = g[x]
  BY <1>1
<1>4. FdRefs(o, f) = Where(X, g, f) /\ FdRefs(o2, f) = Where(X, h, f)
  BY DEF FdRefs, Where
<1> HIDE DEF X, g, h, z
<1>5. IsFiniteSet(X)
  BY PlacesFinite DEF X
<1> QED BY <1>2, <1>3, <1>4, <1>5, Moved

LEMMA Sums ==
    ASSUME NEW c0 \in Nat, NEW c2 \in Nat, NEW c4 \in Nat,
           NEW a1 \in Nat, NEW a2 \in Nat, NEW a3 \in Nat, NEW a4 \in Nat,
           NEW b1 \in Nat, NEW b2 \in Nat, NEW b3 \in Nat, NEW b4 \in Nat,
           c2 + a1 + a2 = c0 + b1 + b2, c4 + a3 + a4 = c2 + b3 + b4
    PROVE  c4 + (a1 + a2 + a3 + a4) = c0 + (b1 + b2 + b3 + b4)
OBVIOUS

\* What one call has in hand changes.
LEMMA HandChange ==
    ASSUME NEW g, NEW h, NEW p \in Users, \A q \in Users \ {p} : h[q] = g[q], NEW f
    PROVE  /\ Cardinality(HandRefs(g, f)) \in Nat /\ Cardinality(HandRefs(h, f)) \in Nat
           /\ Cardinality(HandRefs(h, f)) + Weight(g[p], f)
                 = Cardinality(HandRefs(g, f)) + Weight(h[p], f)
<1> DEFINE X == Users \X Spots
           C(k) == Cardinality(Where(X, k, f))
<1>1. IsFiniteSet(X)
  BY PlacesFinite
<1>2. PICK g0 : g0 = [x \in X |-> g[x[1]][x[2]]]
  OBVIOUS
<1>3. PICK g1 : g1 = [g0 EXCEPT ![<<p, "new1">>] = h[p].new1]
  OBVIOUS
<1>4. PICK g2 : g2 = [g1 EXCEPT ![<<p, "new2">>] = h[p].new2]
  OBVIOUS
<1>5. PICK g3 : g3 = [g2 EXCEPT ![<<p, "drop1">>] = h[p].drop1]
  OBVIOUS
<1>6. PICK g4 : g4 = [g3 EXCEPT ![<<p, "drop2">>] = h[p].drop2]
  OBVIOUS
<1>7. \A s \in Spots : <<p, s>> \in X
  OBVIOUS
<1>8. /\ {"new1", "new2", "drop1", "drop2"} \subseteq Spots
      /\ \A s \in Spots : s \in {"new1", "new2", "drop1", "drop2"}
  BY DEF Spots
<1>9. /\ \A x \in X \ {<<p, "new1">>} : g1[x] = g0[x]
      /\ g1[<<p, "new1">>] = h[p].new1 /\ g0[<<p, "new1">>] = g[p].new1
  BY <1>2, <1>3, <1>7, <1>8
<1>10. /\ \A x \in X \ {<<p, "new2">>} : g2[x] = g1[x]
       /\ g2[<<p, "new2">>] = h[p].new2 /\ g1[<<p, "new2">>] = g[p].new2
  BY <1>2, <1>3, <1>4, <1>7, <1>8
<1>11. /\ \A x \in X \ {<<p, "drop1">>} : g3[x] = g2[x]
       /\ g3[<<p, "drop1">>] = h[p].drop1 /\ g2[<<p, "drop1">>] = g[p].drop1
  BY <1>2, <1>3, <1>4, <1>5, <1>7, <1>8
<1>12. /\ \A x \in X \ {<<p, "drop2">>} : g4[x] = g3[x]
       /\ g4[<<p, "drop2">>] = h[p].drop2 /\ g3[<<p, "drop2">>] = g[p].drop2
  BY <1>2, <1>3, <1>4, <1>5, <1>6, <1>7, <1>8
<1>13. \A x \in X : g4[x] = h[x[1]][x[2]]
  <2> SUFFICES ASSUME NEW q \in Users, NEW s \in Spots PROVE g4[<<q, s>>] = h[q][s]
    OBVIOUS
  <2>1. CASE q # p
    <3>1. g4[<<q, s>>] = g0[<<q, s>>]
      BY <1>9, <1>10, <1>11, <1>12, <2>1
    <3> QED BY <1>2, <2>1, <3>1
  <2>2. CASE q = p
    <3>1. g4[<<p, "new1">>] = h[p].new1
      BY <1>7, <1>8, <1>9, <1>10, <1>11, <1>12
    <3>2. g4[<<p, "new2">>] = h[p].new2
      BY <1>7, <1>8, <1>10, <1>11, <1>12
    <3>3. g4[<<p, "drop1">>] = h[p].drop1
      BY <1>7, <1>8, <1>11, <1>12
    <3> QED BY <1>8, <1>12, <2>2, <3>1, <3>2, <3>3
  <2> QED BY <2>1, <2>2
<1>14. HandRefs(g, f) = Where(X, g0, f) /\ HandRefs(h, f) = Where(X, g4, f)
  BY <1>2, <1>13 DEF HandRefs, Where
<1> HIDE DEF X
<1>15. \A z \in X : \A k, n : (\A x \in X \ {z} : n[x] = k[x]) =>
          C(k) \in Nat /\ C(n) \in Nat /\ C(n) + Is(k[z], f) = C(k) + Is(n[z], f)
  BY <1>1, Moved
<1>16. C(g0) = Cardinality(HandRefs(g, f)) /\ C(g4) = Cardinality(HandRefs(h, f))
  BY <1>14
<1>17. /\ <<p, "new1">> \in X /\ <<p, "new2">> \in X
       /\ <<p, "drop1">> \in X /\ <<p, "drop2">> \in X
  BY <1>7, <1>8
<1> HIDE DEF C
<1>18. C(g0) \in Nat /\ C(g1) \in Nat /\ C(g1) + Is(g[p].new1, f) = C(g0) + Is(h[p].new1, f)
  BY <1>9, <1>15, <1>17
<1>19. C(g1) \in Nat /\ C(g2) \in Nat /\ C(g2) + Is(g[p].new2, f) = C(g1) + Is(h[p].new2, f)
  BY <1>10, <1>15, <1>17
<1>20. C(g2) \in Nat /\ C(g3) \in Nat /\ C(g3) + Is(g[p].drop1, f) = C(g2) + Is(h[p].drop1, f)
  BY <1>11, <1>15, <1>17
<1>21. C(g3) \in Nat /\ C(g4) \in Nat /\ C(g4) + Is(g[p].drop2, f) = C(g3) + Is(h[p].drop2, f)
  BY <1>12, <1>15, <1>17
<1>22. \A x : Is(x, f) \in Nat
  BY DEF Is
<1>23. /\ Weight(g[p], f) = Is(g[p].new1, f) + Is(g[p].new2, f) + Is(g[p].drop1, f)
                             + Is(g[p].drop2, f)
       /\ Weight(h[p], f) = Is(h[p].new1, f) + Is(h[p].new2, f) + Is(h[p].drop1, f)
                             + Is(h[p].drop2, f)
  BY DEF Weight
<1>24. C(g2) + Is(g[p].new1, f) + Is(g[p].new2, f)
          = C(g0) + Is(h[p].new1, f) + Is(h[p].new2, f)
  BY <1>18, <1>19, <1>22
<1>25. C(g4) + Is(g[p].drop1, f) + Is(g[p].drop2, f)
          = C(g2) + Is(h[p].drop1, f) + Is(h[p].drop2, f)
  BY <1>19, <1>20, <1>21, <1>22
<1>26. C(g4) + Weight(g[p], f) = C(g0) + Weight(h[p], f)
  <2>1. /\ Is(g[p].new1, f) \in Nat /\ Is(g[p].new2, f) \in Nat
        /\ Is(g[p].drop1, f) \in Nat /\ Is(g[p].drop2, f) \in Nat
        /\ Is(h[p].new1, f) \in Nat /\ Is(h[p].new2, f) \in Nat
        /\ Is(h[p].drop1, f) \in Nat /\ Is(h[p].drop2, f) \in Nat
        /\ C(g0) \in Nat /\ C(g2) \in Nat /\ C(g4) \in Nat
    BY <1>18, <1>19, <1>21, <1>22
  <2> QED BY <1>23, <1>24, <1>25, <2>1, Sums
<1> QED BY <1>16, <1>18, <1>21, <1>26

\* What a file stands for, or what the file was that a process is closing.
Stands == [x \in Files \cup Users |-> IF x \in Files THEN what[x] ELSE job[x].last]

LEMMA OwnersWhere ==
    /\ \A g, e : EndOwners(g, e) = Where(Files \cup Users, Stands, PipeEnd(g, e))
    /\ \A i : {f \in Files : what[f] = Inode(i)} \cup {p \in Users : job[p].last = Inode(i)}
                 = Where(Files \cup Users, Stands, Inode(i))
<1>1. Users \cap Files = {}
  BY FileTableAssumption
<1>2. \A v : {f \in Files : what[f] = v} \cup {p \in Users : job[p].last = v}
                = Where(Files \cup Users, Stands, v)
  BY <1>1 DEF Stands, Where
<1> QED BY <1>2 DEF EndOwners

\* The lowest of some descriptors is one of them.
LEMMA LowestIn ==
    ASSUME NEW S, S \subseteq Fds, S # {}
    PROVE  Lowest(S) \in S
<1>1. IsWellFoundedOn(OpToRel(<, Nat), Nat)
  BY NatLessThanWellFounded
<1>2. S \subseteq Nat
  BY FileTableAssumption, FS_CardinalityType
<1>3. PICK d \in S : \A e \in S : ~ (<<e, d>> \in OpToRel(<, Nat))
  BY <1>1, <1>2, WFMin
<1>4. \A e \in S : ~ (e < d)
  BY <1>2, <1>3 DEF OpToRel
<1>5. \A e \in S : d <= e
  BY <1>2, <1>4
<1> QED BY <1>5 DEF Lowest

-----------------------------------------------------------------------------
(***************************************************************************)
(* What a call has in hand counts the files of one sequence.               *)
(***************************************************************************)
Both(s, f) == Is(Nth(s, 1), f) + Is(Nth(s, 2), f)

LEMMA BothOf ==
    ASSUME NEW f \in Files
    PROVE  /\ Both(<<>>, f) = 0
           /\ \A g \in Files : Both(<<g>>, f) = Is(g, f)
           /\ \A s \in Seq(Files) : Both(s, f) \in Nat
           /\ \A s \in Seq(Files) :
                 s # <<>> /\ Len(s) <= 2 => Both(Tail(s), f) + Is(Head(s), f) = Both(s, f)
           /\ \A s \in Seq(Files), g \in Files :
                 Len(s) <= 1 => Both(Append(s, g), f) = Both(s, f) + Is(g, f)
           /\ \A s \in Seq(Files) : Len(s) = 2 => Both(s, f) = Is(s[1], f) + Is(s[2], f)
<1>1. NoFile # f
  BY FileTableAssumption
<1>2. \A x : Is(x, f) \in Nat
  BY DEF Is
<1>3. Is(NoFile, f) = 0
  BY <1>1 DEF Is
<1>4. Both(<<>>, f) = 0
  BY <1>3 DEF Both, Nth
<1>5. \A g \in Files : Both(<<g>>, f) = Is(g, f)
  BY <1>2, <1>3 DEF Both, Nth
<1>6. \A s \in Seq(Files) : Both(s, f) \in Nat
  BY <1>2 DEF Both
<1>7. ASSUME NEW s \in Seq(Files), s # <<>>, Len(s) <= 2
      PROVE  Both(Tail(s), f) + Is(Head(s), f) = Both(s, f)
  <2>0. Len(s) \in Nat \ {0} /\ Len(Tail(s)) = Len(s) - 1
    BY <1>7, EmptySeq, HeadTailProperties
  <2>1. Len(s) \in {1, 2} /\ Len(Tail(s)) = Len(s) - 1 /\ Head(s) = s[1]
    BY <1>7, <2>0
  <2>2. Len(s) = 2 => Tail(s)[1] = s[2]
    BY <1>7, HeadTailProperties
  <2>3. Nth(Tail(s), 1) = Nth(s, 2) /\ Nth(Tail(s), 2) = NoFile /\ Nth(s, 1) = Head(s)
    BY <2>1, <2>2 DEF Nth
  <2> QED BY <1>2, <1>3, <2>3 DEF Both
<1>8. ASSUME NEW s \in Seq(Files), NEW g \in Files, Len(s) <= 1
      PROVE  Both(Append(s, g), f) = Both(s, f) + Is(g, f)
  <2>0. Len(s) \in Nat
    OBVIOUS
  <2>1. Len(s) = 0 \/ Len(s) = 1
    <3>1. \A n \in Nat : n <= 1 => n = 0 \/ n = 1
      OBVIOUS
    <3> QED BY <1>8, <2>0, <3>1
  <2>5. Len(Append(s, g)) = Len(s) + 1 /\ Append(s, g)[Len(s) + 1] = g
    BY AppendProperties
  <2>2. Len(s) = 1 => Append(s, g)[1] = s[1]
    BY <1>8, AppendProperties
  <2>3. CASE Len(s) = 0
    <3>1. /\ Nth(Append(s, g), 1) = g /\ Nth(Append(s, g), 2) = NoFile
          /\ Nth(s, 1) = NoFile /\ Nth(s, 2) = NoFile
      BY <2>3, <2>5 DEF Nth
    <3> QED BY <1>2, <1>3, <3>1 DEF Both
  <2>4. CASE Len(s) = 1
    <3>1. /\ Nth(Append(s, g), 1) = s[1] /\ Nth(Append(s, g), 2) = g
          /\ Nth(s, 1) = s[1] /\ Nth(s, 2) = NoFile
      BY <2>2, <2>4, <2>5 DEF Nth
    <3> QED BY <1>2, <1>3, <3>1 DEF Both
  <2> QED BY <2>1, <2>3, <2>4
<1>9. ASSUME NEW s \in Seq(Files), Len(s) = 2
      PROVE  Both(s, f) = Is(s[1], f) + Is(s[2], f)
  BY <1>9 DEF Both, Nth
<1> QED BY <1>4, <1>5, <1>6, <1>7, <1>8, <1>9

LEMMA HandWeight ==
    ASSUME NEW j, NEW f \in Files
    PROVE  /\ j.at # "pipe" => Weight(InHand(j), f) = Both(j.drop, f)
           /\ j.at = "pipe" /\ j.drop = <<>> => Weight(InHand(j), f) = Both(j.new, f)
<1>1. NoFile # f
  BY FileTableAssumption
<1>2. \A x : Is(x, f) \in Nat
  BY DEF Is
<1>3. Is(NoFile, f) = 0
  BY <1>1 DEF Is
<1>4. Weight(InHand(j), f) = Is(InHand(j).new1, f) + Is(InHand(j).new2, f)
                             + Is(InHand(j).drop1, f) + Is(InHand(j).drop2, f)
  BY DEF Weight
<1>5. InHand(j).drop1 = Nth(j.drop, 1) /\ InHand(j).drop2 = Nth(j.drop, 2)
  BY DEF InHand
<1>6. CASE j.at # "pipe"
  <2>1. InHand(j).new1 = NoFile /\ InHand(j).new2 = NoFile
    BY <1>6 DEF InHand
  <2> QED BY <1>2, <1>3, <1>4, <1>5, <1>6, <2>1 DEF Both
<1>7. CASE j.at = "pipe" /\ j.drop = <<>>
  <2>1. InHand(j).new1 = Nth(j.new, 1) /\ InHand(j).new2 = Nth(j.new, 2)
    BY <1>7 DEF InHand
  <2>2. InHand(j).drop1 = NoFile /\ InHand(j).drop2 = NoFile
    BY <1>5, <1>7 DEF Nth
  <2> QED BY <1>2, <1>3, <1>4, <1>7, <2>1, <2>2 DEF Both
<1> QED BY <1>6, <1>7

-----------------------------------------------------------------------------
(***************************************************************************)
(* The references of a state and of the next.                              *)
(***************************************************************************)
Hands == [p \in Users |-> InHand(job[p])]

LEMMA RefsAre ==
    ASSUME NEW f
    PROVE  DescriptorRefs(f) = FdRefs(ofile, f) /\ JobRefs(f) = HandRefs(Hands, f)
BY DEF DescriptorRefs, JobRefs, FdRefs, HandRefs, Hands

LEMMA RefsAreNext ==
    ASSUME NEW f
    PROVE  DescriptorRefs(f)' = FdRefs(ofile', f) /\ JobRefs(f)' = HandRefs(Hands', f)
BY DEF DescriptorRefs, JobRefs, FdRefs, HandRefs, Hands

\* The references are finitely many.
LEMMA RefsFinite ==
    ASSUME NEW f
    PROVE  /\ IsFiniteSet(DescriptorRefs(f)) /\ Cardinality(DescriptorRefs(f)) \in Nat
           /\ IsFiniteSet(JobRefs(f)) /\ Cardinality(JobRefs(f)) \in Nat
<1>1. DescriptorRefs(f) \in SUBSET (Users \X Fds) /\ JobRefs(f) \in SUBSET (Users \X Spots)
  BY DEF DescriptorRefs, JobRefs
<1>2. IsFiniteSet(DescriptorRefs(f)) /\ IsFiniteSet(JobRefs(f))
  BY <1>1, PlacesFinite, FS_Subset
<1> QED BY <1>2, FS_CardinalityType

\* One call takes a step.
LEMMA HandStep ==
    ASSUME NEW p \in Users, \A q \in Users \ {p} : job'[q] = job[q], NEW f
    PROVE  /\ Cardinality(JobRefs(f)) \in Nat /\ Cardinality(JobRefs(f)') \in Nat
           /\ Cardinality(JobRefs(f)') + Weight(InHand(job[p]), f)
                 = Cardinality(JobRefs(f)) + Weight(InHand(job'[p]), f)
<1>1. \A q \in Users : Hands[q] = InHand(job[q]) /\ Hands'[q] = InHand(job'[q])
  BY DEF Hands, InHand
<1>2. \A q \in Users \ {p} : Hands'[q] = Hands[q]
  BY <1>1
<1>3. /\ Cardinality(HandRefs(Hands, f)) \in Nat /\ Cardinality(HandRefs(Hands', f)) \in Nat
      /\ Cardinality(HandRefs(Hands', f)) + Weight(Hands[p], f)
            = Cardinality(HandRefs(Hands, f)) + Weight(Hands'[p], f)
  BY <1>2, HandChange
<1> QED BY <1>1, <1>3, RefsAre, RefsAreNext

\* One descriptor changes.
LEMMA FdStep ==
    ASSUME NEW p \in Users, NEW d \in Fds,
           \A q \in Users, e \in Fds : <<q, e>> # <<p, d>> => ofile'[q][e] = ofile[q][e],
           NEW f
    PROVE  /\ Cardinality(DescriptorRefs(f)) \in Nat /\ Cardinality(DescriptorRefs(f)') \in Nat
           /\ Cardinality(DescriptorRefs(f)') + Is(ofile[p][d], f)
                 = Cardinality(DescriptorRefs(f)) + Is(ofile'[p][d], f)
<1>1. ASSUME NEW o2,
             \A q \in Users, e \in Fds : <<q, e>> # <<p, d>> => o2[q][e] = ofile[q][e]
      PROVE  /\ Cardinality(FdRefs(ofile, f)) \in Nat /\ Cardinality(FdRefs(o2, f)) \in Nat
             /\ Cardinality(FdRefs(o2, f)) + Is(ofile[p][d], f)
                   = Cardinality(FdRefs(ofile, f)) + Is(o2[p][d], f)
  BY <1>1, FdChange
<1>2. /\ Cardinality(FdRefs(ofile, f)) \in Nat /\ Cardinality(FdRefs(ofile', f)) \in Nat
      /\ Cardinality(FdRefs(ofile', f)) + Is(ofile[p][d], f)
            = Cardinality(FdRefs(ofile, f)) + Is(ofile'[p][d], f)
  BY <1>1
<1> QED BY <1>2, RefsAre, RefsAreNext

\* The files a call has taken are its own.
LEMMA Alone ==
    ASSUME FTTypeOK, JobsInv, RefsCounted, NewIsOwn, NEW q \in Users,
           job[q].at \in {"pipe", "opened"}, NEW k \in 1 .. Len(job[q].new)
    PROVE  /\ job[q].new[k] \in Files
           /\ fref[job[q].new[k]] = 1 /\ what[job[q].new[k]] = Nothing
           /\ \A p \in Users, d \in Fds :
                 ofile[p][d] = job[q].new[k] => p = q /\ job[q].at = "opened"
           /\ \A p \in Users, s \in Spots :
                 InHand(job[p])[s] = job[q].new[k] => p = q /\ job[q].at = "pipe"
           /\ \A i \in 1 .. Len(job[q].new) : job[q].new[i] = job[q].new[k] => i = k
<1> DEFINE f == job[q].new[k]
           D == DescriptorRefs(f)
           J == JobRefs(f)
<1>1. f \in Files /\ job[q].new \in Seq(Files)
  BY DEF FTTypeOK
<1>2. fref[f] = 1 /\ what[f] = Nothing
  BY DEF NewIsOwn
<1>3. Cardinality(D) + Cardinality(J) = 1
  BY <1>1, <1>2 DEF RefsCounted
<1>4. /\ IsFiniteSet(D) /\ Cardinality(D) \in Nat
      /\ IsFiniteSet(J) /\ Cardinality(J) \in Nat
  BY RefsFinite
<1>5. /\ \A p \in Users, d \in Fds : ofile[p][d] = f <=> <<p, d>> \in D
      /\ \A p \in Users, s \in Spots : InHand(job[p])[s] = f <=> <<p, s>> \in J
  BY DEF DescriptorRefs, JobRefs
<1>6. Len(job[q].new) <= 2 /\ Len(job[q].new) \in Nat
  BY <1>1 DEF JobsInv, JobShape
<1>7. CASE job[q].at = "pipe"
  <2>1. \A i \in 1 .. Len(job[q].new) :
           /\ i = 1 => InHand(job[q])["new1"] = job[q].new[i]
           /\ i = 2 => InHand(job[q])["new2"] = job[q].new[i]
           /\ i \in {1, 2}
    BY <1>6, <1>7 DEF InHand, Nth
  <2>2. \A i \in 1 .. Len(job[q].new) : job[q].new[i] = f =>
           \/ i = 1 /\ <<q, "new1">> \in J
           \/ i = 2 /\ <<q, "new2">> \in J
    BY <1>5, <2>1 DEF Spots
  <2>3. J # {}
    BY <2>2
  <2>4. Cardinality(J) # 0
    BY <1>4, <2>3, FS_EmptySet
  <2>5. Cardinality(J) = 1 /\ Cardinality(D) = 0
    BY <1>3, <1>4, <2>4
  <2>6. D = {}
    BY <1>4, <2>5, FS_EmptySet
  <2>7. \A x, y \in J : x = y
    BY <1>4, <2>5, OneOnly
  <2>8. \A i \in 1 .. Len(job[q].new) : job[q].new[i] = f => i = k
    BY <2>2, <2>7
  <2>9. \A p \in Users, s \in Spots : InHand(job[p])[s] = f => p = q
    BY <1>5, <2>2, <2>7
  <2> HIDE DEF D
  <2> QED BY <1>1, <1>2, <1>5, <1>7, <2>6, <2>8, <2>9
<1>8. CASE job[q].at = "opened"
  <2>1. PICK d \in Fds : ofile[q][d] = job[q].new[1]
    BY <1>8 DEF NewIsOwn
  <2>2. Len(job[q].new) = 1
    BY <1>8 DEF JobsInv, JobShape
  <2>3. k = 1 /\ \A i \in 1 .. Len(job[q].new) : i = k
    BY <2>2
  <2>4. <<q, d>> \in D
    BY <1>5, <2>1, <2>3
  <2>5. Cardinality(D) # 0
    BY <1>4, <2>4, FS_EmptySet
  <2>6. Cardinality(D) = 1 /\ Cardinality(J) = 0
    BY <1>3, <1>4, <2>5
  <2>7. J = {}
    BY <1>4, <2>6, FS_EmptySet
  <2>8. \A x, y \in D : x = y
    BY <1>4, <2>6, OneOnly
  <2>9. \A p \in Users, e \in Fds : ofile[p][e] = f => p = q
    BY <1>5, <2>4, <2>8
  <2> HIDE DEF J
  <2> QED BY <1>1, <1>2, <1>5, <1>8, <2>3, <2>7, <2>9
<1> QED BY <1>7, <1>8

-----------------------------------------------------------------------------
(***************************************************************************)
(* The files and closing processes that stand for v, and the open() calls  *)
(* that hold inode i.                                                      *)
(***************************************************************************)
Owners(v)  == {f \in Files : what[f] = v} \cup {p \in Users : job[p].last = v}
Openers(i) == {p \in Users : i \in job[p].ip}
In(i, S)   == IF i \in S THEN 1 ELSE 0

LEMMA Kinds ==
    /\ \A g, e : PipeEnd(g, e) # Nothing /\ PipeEnd(g, e).type = "pipe"
                 /\ PipeEnd(g, e).page = g /\ PipeEnd(g, e).end = e
    /\ \A i : Inode(i) # Nothing /\ Inode(i).type = "inode" /\ Inode(i).ip = i
    /\ Nothing.type = "none"
    /\ \A g, e, i : PipeEnd(g, e) # Inode(i)
    /\ \A g, e, a, b : PipeEnd(g, e) = PipeEnd(a, b) <=> g = a /\ e = b
    /\ \A i, k : Inode(i) = Inode(k) <=> i = k
<1>1. /\ \A g, e : PipeEnd(g, e).type = "pipe"
                   /\ PipeEnd(g, e).page = g /\ PipeEnd(g, e).end = e
      /\ \A i : Inode(i).type = "inode" /\ Inode(i).ip = i
      /\ Nothing.type = "none"
  BY DEF PipeEnd, Inode, Nothing
<1>2. \A g, e : PipeEnd(g, e) # Nothing
  BY <1>1
<1>3. \A i : Inode(i) # Nothing
  BY <1>1
<1>4. \A g, e, i : PipeEnd(g, e) # Inode(i)
  BY <1>1
<1>5. \A g, e, a, b : PipeEnd(g, e) = PipeEnd(a, b) <=> g = a /\ e = b
  BY <1>1
<1>6. \A i, k : Inode(i) = Inode(k) <=> i = k
  BY <1>1
<1> QED BY <1>1, <1>2, <1>3, <1>4, <1>5, <1>6

\* EndsOwned and NodesCounted in these words.
LEMMA InWords ==
    /\ EndsOwned <=> \A g \in Pages, e \in {"r", "w"} :
                        Cardinality(Owners(PipeEnd(g, e))) = In(e, ends[g])
    /\ NodesCounted <=> \A i \in Inodes :
                        iref[i] = Cardinality(Owners(Inode(i))) + Cardinality(Openers(i))
BY DEF EndsOwned, NodesCounted, EndOwners, Owners, Openers, In

LEMMA InWordsNext ==
    /\ EndsOwned' <=> \A g \in Pages, e \in {"r", "w"} :
                        Cardinality(Owners(PipeEnd(g, e))') = In(e, ends'[g])
    /\ NodesCounted' <=> \A i \in Inodes :
                        iref'[i] = Cardinality(Owners(Inode(i))') + Cardinality(Openers(i)')
BY DEF EndsOwned, NodesCounted, EndOwners, Owners, Openers, In

LEMMA OwnersFinite ==
    ASSUME NEW v
    PROVE  IsFiniteSet(Owners(v)) /\ Cardinality(Owners(v)) \in Nat
<1>1. IsFiniteSet(Files \cup Users) /\ Owners(v) \in SUBSET (Files \cup Users)
  BY PlacesFinite DEF Owners
<1>2. IsFiniteSet(Owners(v))
  BY <1>1, FS_Subset
<1> QED BY <1>2, FS_CardinalityType

LEMMA OpenersFinite ==
    ASSUME NEW i
    PROVE  IsFiniteSet(Openers(i)) /\ Cardinality(Openers(i)) \in Nat
<1>1. IsFiniteSet(Users) /\ Openers(i) \in SUBSET Users
  BY FileTableAssumption DEF Openers
<1>2. IsFiniteSet(Openers(i))
  BY <1>1, FS_Subset
<1> QED BY <1>2, FS_CardinalityType

\* One file and one process change.
LEMMA OwnersStep ==
    ASSUME NEW p \in Users, \A q \in Users \ {p} : job'[q] = job[q],
           NEW f \in Files, \A g \in Files \ {f} : what'[g] = what[g], NEW v
    PROVE  /\ Cardinality(Owners(v)) \in Nat /\ Cardinality(Owners(v)') \in Nat
           /\ Cardinality(Owners(v)') + Is(job[p].last, v) + Is(what[f], v)
                 = Cardinality(Owners(v)) + Is(job'[p].last, v) + Is(what'[f], v)
<1> DEFINE X == Files \cup Users
           G == [x \in X |-> IF x \in Files THEN what[x] ELSE job[x].last]
           H == [x \in X |-> IF x \in Files THEN what'[x] ELSE job'[x].last]
           M == [x \in X |-> IF x \in Files THEN what'[x] ELSE job[x].last]
<1>1. Users \cap Files = {} /\ IsFiniteSet(X)
  BY FileTableAssumption, PlacesFinite
<1>2. Owners(v) = Where(X, G, v) /\ Owners(v)' = Where(X, H, v)
  BY <1>1 DEF Owners, Where
<1>3. /\ f \in X /\ G[f] = what[f] /\ M[f] = what'[f]
      /\ \A x \in X \ {f} : M[x] = G[x]
  OBVIOUS
<1>4. /\ p \in X /\ M[p] = job[p].last /\ H[p] = job'[p].last
      /\ \A x \in X \ {p} : H[x] = M[x]
  BY <1>1
<1> HIDE DEF X, G, H, M
<1>5. /\ Cardinality(Where(X, G, v)) \in Nat /\ Cardinality(Where(X, M, v)) \in Nat
      /\ Cardinality(Where(X, M, v)) + Is(G[f], v) = Cardinality(Where(X, G, v)) + Is(M[f], v)
  BY <1>1, <1>3, Moved
<1>6. /\ Cardinality(Where(X, M, v)) \in Nat /\ Cardinality(Where(X, H, v)) \in Nat
      /\ Cardinality(Where(X, H, v)) + Is(M[p], v) = Cardinality(Where(X, M, v)) + Is(H[p], v)
  BY <1>1, <1>4, Moved
<1>7. \A x : Is(x, v) \in Nat
  BY DEF Is
<1> QED BY <1>2, <1>3, <1>4, <1>5, <1>6, <1>7

\* One process changes.
LEMMA OwnersLast ==
    ASSUME NEW p \in Users, \A q \in Users \ {p} : job'[q] = job[q], what' = what, NEW v
    PROVE  /\ Cardinality(Owners(v)) \in Nat /\ Cardinality(Owners(v)') \in Nat
           /\ Cardinality(Owners(v)') + Is(job[p].last, v)
                 = Cardinality(Owners(v)) + Is(job'[p].last, v)
<1> DEFINE X == Files \cup Users
           G == [x \in X |-> IF x \in Files THEN what[x] ELSE job[x].last]
           H == [x \in X |-> IF x \in Files THEN what'[x] ELSE job'[x].last]
<1>1. Users \cap Files = {} /\ IsFiniteSet(X)
  BY FileTableAssumption, PlacesFinite
<1>2. Owners(v) = Where(X, G, v) /\ Owners(v)' = Where(X, H, v)
  BY <1>1 DEF Owners, Where
<1>3. /\ p \in X /\ G[p] = job[p].last /\ H[p] = job'[p].last
      /\ \A x \in X \ {p} : H[x] = G[x]
  BY <1>1
<1> HIDE DEF X, G, H
<1>4. /\ Cardinality(Where(X, G, v)) \in Nat /\ Cardinality(Where(X, H, v)) \in Nat
      /\ Cardinality(Where(X, H, v)) + Is(G[p], v) = Cardinality(Where(X, G, v)) + Is(H[p], v)
  BY <1>1, <1>3, Moved
<1> QED BY <1>2, <1>3, <1>4

LEMMA OpenersStep ==
    ASSUME NEW p \in Users, \A q \in Users \ {p} : job'[q] = job[q], NEW i
    PROVE  /\ Cardinality(Openers(i)) \in Nat /\ Cardinality(Openers(i)') \in Nat
           /\ Cardinality(Openers(i)') + In(i, job[p].ip)
                 = Cardinality(Openers(i)) + In(i, job'[p].ip)
<1> DEFINE G == [q \in Users |-> In(i, job[q].ip)]
           H == [q \in Users |-> In(i, job'[q].ip)]
<1>1. IsFiniteSet(Users)
  BY FileTableAssumption
<1>2. Openers(i) = Where(Users, G, 1) /\ Openers(i)' = Where(Users, H, 1)
  BY DEF Openers, Where, In
<1>3. /\ Is(G[p], 1) = In(i, job[p].ip) /\ Is(H[p], 1) = In(i, job'[p].ip)
      /\ \A q \in Users \ {p} : H[q] = G[q]
  BY DEF Is, In
<1> HIDE DEF G, H
<1>4. /\ Cardinality(Where(Users, G, 1)) \in Nat /\ Cardinality(Where(Users, H, 1)) \in Nat
      /\ Cardinality(Where(Users, H, 1)) + Is(G[p], 1)
            = Cardinality(Where(Users, G, 1)) + Is(H[p], 1)
  BY <1>1, <1>3, Moved
<1> QED BY <1>2, <1>3, <1>4

-----------------------------------------------------------------------------
(***************************************************************************)
(* What steps that leave much alone keep.                                  *)
(***************************************************************************)

\* A call moves on with as much in hand.
LEMMA RefsKept ==
    ASSUME RefsCounted, NEW p \in Users, \A q \in Users \ {p} : job'[q] = job[q],
           UNCHANGED <<ofile, fref>>,
           \A f \in Files : fref[f] # 0 \/ what'[f] = what[f],
           \A f \in Files : /\ Weight(InHand(job[p]), f) \in Nat
                            /\ Weight(InHand(job'[p]), f) = Weight(InHand(job[p]), f)
    PROVE  RefsCounted'
<1> SUFFICES ASSUME NEW f \in Files
             PROVE  /\ fref'[f] = Cardinality(DescriptorRefs(f)') + Cardinality(JobRefs(f)')
                    /\ fref'[f] = 0 => what'[f] = Nothing
  BY DEF RefsCounted
<1>1. DescriptorRefs(f)' = DescriptorRefs(f)
  BY DEF DescriptorRefs
<1>2. Cardinality(JobRefs(f)') = Cardinality(JobRefs(f))
  BY HandStep
<1> QED BY <1>1, <1>2 DEF RefsCounted

Own(p) ==
    /\ job[p].at \in {"pipe", "opened"} =>
          \A k \in 1 .. Len(job[p].new) :
              what[job[p].new[k]] = Nothing /\ fref[job[p].new[k]] = 1
    /\ job[p].at = "opened" => \E d \in Fds : ofile[p][d] = job[p].new[1]

\* The others keep their new files.
LEMMA OwnKept ==
    ASSUME NewIsOwn, NEW p \in Users,
           \A q \in Users \ {p} :
               /\ job'[q] = job[q]
               /\ job[q].at = "opened" => ofile'[q] = ofile[q]
               /\ job[q].at \in {"pipe", "opened"} =>
                     \A k \in 1 .. Len(job[q].new) :
                         /\ what'[job[q].new[k]] = what[job[q].new[k]]
                         /\ fref'[job[q].new[k]] = fref[job[q].new[k]],
           Own(p)'
    PROVE  NewIsOwn'
<1> SUFFICES ASSUME NEW q \in Users PROVE Own(q)'
  BY DEF NewIsOwn, Own
<1>1. CASE q = p
  BY <1>1
<1>2. CASE q # p
  BY <1>2 DEF NewIsOwn, Own
<1> QED BY <1>1, <1>2

\* Nothing is filled in or closed.
LEMMA StandsKept ==
    ASSUME EndsOwned, NodesCounted, NEW p \in Users, \A q \in Users \ {p} : job'[q] = job[q],
           UNCHANGED <<what, ends, iref>>,
           job'[p].last = job[p].last, job'[p].ip = job[p].ip
    PROVE  EndsOwned' /\ NodesCounted'
<1>1. \A v : Owners(v)' = Owners(v)
  BY DEF Owners
<1>2. \A i : Openers(i)' = Openers(i)
  BY DEF Openers
<1> QED BY <1>1, <1>2, InWords, InWordsNext

\* The call of a process in the next state.
JobNext(p, at, new, ip, drop, last) ==
    /\ job' = [job EXCEPT ![p] = job'[p]]
    /\ \A q \in Users \ {p} : job'[q] = job[q]
    /\ job'[p] = [at |-> at, new |-> new, ip |-> ip, drop |-> drop, last |-> last]

LEMMA JobType ==
    ASSUME FTTypeOK, NEW p \in Users
    PROVE  /\ job[p].at \in {"user", "pipe", "open", "opened", "end", "exit"}
           /\ job[p].new \in Seq(Files) /\ job[p].ip \in SUBSET Inodes
           /\ job[p].drop \in Seq(Files) /\ job[p].last \in Whats
           /\ job[p] = [at |-> job[p].at, new |-> job[p].new, ip |-> job[p].ip,
                        drop |-> job[p].drop, last |-> job[p].last]
BY DEF FTTypeOK

\* A call that goes on to close files.
LEMMA DropIs ==
    ASSUME FTTypeOK, NEW p \in Users, NEW l, Drop(p, l), job[p].ip = {}, job[p].last = Nothing
    PROVE  JobNext(p, "end", <<>>, {}, l, Nothing)
<1>1. PICK j : j = job[p]
  OBVIOUS
<1>2. job' = [job EXCEPT ![p] = [j EXCEPT !.at = "end", !.new = <<>>, !.drop = l]]
  BY <1>1 DEF Drop
<1>3. [j EXCEPT !.at = "end", !.new = <<>>, !.drop = l]
         = [at |-> "end", new |-> <<>>, ip |-> {}, drop |-> l, last |-> Nothing]
  <2>1. j = [at |-> j.at, new |-> j.new, ip |-> j.ip, drop |-> j.drop, last |-> j.last]
    BY <1>1, JobType
  <2>2. PICK a, n, i, d, w : j = [at |-> a, new |-> n, ip |-> i, drop |-> d, last |-> w]
    BY <2>1
  <2>3. j.ip = {} /\ j.last = Nothing
    BY <1>1
  <2>4. i = {} /\ w = Nothing
    BY ONLY <2>2, <2>3
  <2> DEFINE R(at, new, drop) == [at |-> at, new |-> new, ip |-> {}, drop |-> drop, last |-> Nothing]
  <2>5. j = R(a, n, d)
    BY ONLY <2>2, <2>4
  <2> PICK z : z = <<>>
    OBVIOUS
  <2>6. [R(a, n, d) EXCEPT !.at = "end"] = R("end", n, d)
    BY ONLY TRUE
  <2>7. [R("end", n, d) EXCEPT !.new = z] = R("end", z, d)
    BY ONLY TRUE
  <2>8. [R("end", z, d) EXCEPT !.drop = l] = R("end", z, l)
    BY ONLY TRUE
  <2>9. [j EXCEPT !.at = "end", !.new = z, !.drop = l]
           = [[[j EXCEPT !.at = "end"] EXCEPT !.new = z] EXCEPT !.drop = l]
    <3>1. [j EXCEPT !.at = "end", !.new = z] = [[j EXCEPT !.at = "end"] EXCEPT !.new = z]
      BY ONLY TRUE
    <3>2. [j EXCEPT !.at = "end", !.new = z, !.drop = l]
             = [[j EXCEPT !.at = "end", !.new = z] EXCEPT !.drop = l]
      BY ONLY TRUE
    <3> QED BY ONLY <3>1, <3>2, Zenon
  <2> HIDE DEF R
  <2>10. [[[j EXCEPT !.at = "end"] EXCEPT !.new = z] EXCEPT !.drop = l] = R("end", z, l)
    BY ONLY <2>5, <2>6, <2>7, <2>8, Zenon
  <2> QED BY <2>9, <2>10, z = <<>> DEF R
<1>4. job = [q \in Users |-> job[q]]
  BY DEF FTTypeOK
<1> QED BY <1>2, <1>3, <1>4 DEF JobNext

\* Who is in a call lives.
LEMMA Lives ==
    ASSUME JobsInv, NEW p \in Users,
           job[p].at # "user" \/ job[p].drop # <<>> \/ job[p].last # Nothing
    PROVE  p \in live
BY DEF JobsInv, User

LEMMA JobsKept ==
    ASSUME JobsInv, NEW p \in Users, p \in live, live' = live,
           \A q \in Users \ {p} : job'[q] = job[q] /\ ofile'[q] = ofile[q],
           JobShape(job'[p])
    PROVE  JobsInv'
<1> SUFFICES ASSUME NEW q \in Users
             PROVE  /\ JobShape(job[q])'
                    /\ q \notin live' => job'[q] = User /\ FreeFds(q)' = Fds
  BY DEF JobsInv, User
<1>1. CASE q = p
  BY <1>1 DEF JobShape
<1>2. CASE q # p
  BY <1>2 DEF JobsInv, JobShape, FreeFds
<1> QED BY <1>1, <1>2

LEMMA JobsTyped ==
    ASSUME FTTypeOK, NEW p \in Users,
           NEW a \in {"user", "pipe", "open", "opened", "end", "exit"}, NEW n \in Seq(Files),
           NEW i \in SUBSET Inodes, NEW d \in Seq(Files), NEW l \in Whats,
           JobNext(p, a, n, i, d, l)
    PROVE  job' \in [Users ->
              [at : {"user", "pipe", "open", "opened", "end", "exit"}, new : Seq(Files),
               ip : SUBSET Inodes, drop : Seq(Files), last : Whats]]
<1> DEFINE R == [at : {"user", "pipe", "open", "opened", "end", "exit"}, new : Seq(Files),
                 ip : SUBSET Inodes, drop : Seq(Files), last : Whats]
<1>1. job'[p] \in R /\ job' = [job EXCEPT ![p] = job'[p]]
  BY DEF JobNext
<1>2. job \in [Users -> R]
  BY DEF FTTypeOK
<1> HIDE DEF R
<1>3. job' \in [Users -> R]
  BY <1>1, <1>2
<1> QED BY <1>3 DEF R

-----------------------------------------------------------------------------
(***************************************************************************)
(* Each step keeps the invariant.                                          *)
(***************************************************************************)

\* fileclose() gives a reference back.
LEMMA FilecloseRefKeeps ==
    ASSUME FilesIInv, NEW p \in Users, FilecloseRef(p)
    PROVE  FilesIInv'
<1> DEFINE f == Head(job[p].drop)
           l == IF fref[f] = 1 THEN what[f] ELSE Nothing
<1>0. FTTypeOK /\ JobsInv /\ RefsCounted /\ NewIsOwn /\ EndsOwned /\ NodesCounted
  BY DEF FilesIInv
<1>1. /\ job[p].drop # <<>> /\ job[p].last = Nothing /\ fref[f] >= 1
      /\ fref' = [fref EXCEPT ![f] = @ - 1]
      /\ what' = IF fref[f] = 1 THEN [what EXCEPT ![f] = Nothing] ELSE what
      /\ job'  = [job EXCEPT ![p].drop = Tail(@), ![p].last = l]
      /\ UNCHANGED <<ofile, live, ends, iref>>
  BY DEF FilecloseRef, Cleared
<1>2. /\ job[p].at \in {"user", "pipe", "open", "opened", "end", "exit"}
      /\ job[p].new \in Seq(Files) /\ job[p].ip \in SUBSET Inodes
      /\ job[p].drop \in Seq(Files) /\ JobShape(job[p]) /\ p \in live
  BY <1>0, <1>1, JobType, Lives DEF JobsInv
<1>3. f \in Files /\ Tail(job[p].drop) \in Seq(Files) /\ Len(Tail(job[p].drop)) <= 2
  BY <1>1, <1>2, HeadTailProperties DEF JobShape
<1>4. l \in Whats /\ fref \in [Files -> Nat] /\ what \in [Files -> Whats] /\ Nothing \in Whats
  <2>1. Nothing \in Whats
    BY DEF Whats
  <2> QED BY <1>0, <1>3, <2>1 DEF FTTypeOK
<1>5. JobNext(p, job[p].at, job[p].new, job[p].ip, Tail(job[p].drop), l)
  BY <1>0, <1>1 DEF JobNext, FTTypeOK
<1> HIDE DEF f, l
<1>6. job[p].at \in {"end", "exit"}
  BY <1>1, <1>2 DEF JobShape
<1>T. FTTypeOK'
  <2>1. fref' \in [Files -> Nat] /\ what' \in [Files -> Whats]
    BY <1>1, <1>3, <1>4
  <2>2. job' \in [Users ->
              [at : {"user", "pipe", "open", "opened", "end", "exit"}, new : Seq(Files),
               ip : SUBSET Inodes, drop : Seq(Files), last : Whats]]
    BY <1>0, <1>2, <1>3, <1>4, <1>5, JobsTyped
  <2> QED BY <1>0, <1>1, <2>1, <2>2 DEF FTTypeOK
<1>J. JobsInv'
  <2>1. JobShape(job'[p])
    BY <1>2, <1>3, <1>5, <1>6 DEF JobShape, JobNext
  <2> QED BY <1>0, <1>1, <1>2, <1>5, <2>1, JobsKept DEF JobNext
<1>R. RefsCounted'
  <2> SUFFICES ASSUME NEW g \in Files
               PROVE  /\ fref'[g] = Cardinality(DescriptorRefs(g)') + Cardinality(JobRefs(g)')
                      /\ fref'[g] = 0 => what'[g] = Nothing
    BY DEF RefsCounted
  <2>1. /\ Weight(InHand(job[p]), g) = Both(job[p].drop, g)
        /\ Weight(InHand(job'[p]), g) = Both(Tail(job[p].drop), g)
    <3>1. job'[p].at # "pipe" /\ job'[p].drop = Tail(job[p].drop)
      BY <1>5, <1>6 DEF JobNext
    <3> QED BY <1>6, <3>1, HandWeight
  <2>2. /\ Both(Tail(job[p].drop), g) \in Nat /\ Is(f, g) \in Nat
        /\ Both(Tail(job[p].drop), g) + Is(f, g) = Both(job[p].drop, g)
    BY <1>1, <1>2, <1>3, BothOf DEF f, JobShape, Is
  <2>3. /\ Cardinality(JobRefs(g)) \in Nat /\ Cardinality(JobRefs(g)') \in Nat
        /\ Cardinality(JobRefs(g)') + Weight(InHand(job[p]), g)
              = Cardinality(JobRefs(g)) + Weight(InHand(job'[p]), g)
    BY <1>5, HandStep DEF JobNext
  <2>4. Cardinality(JobRefs(g)') + Is(f, g) = Cardinality(JobRefs(g))
    BY <2>1, <2>2, <2>3
  <2>5. /\ DescriptorRefs(g)' = DescriptorRefs(g) /\ Cardinality(DescriptorRefs(g)) \in Nat
        /\ fref[g] = Cardinality(DescriptorRefs(g)) + Cardinality(JobRefs(g))
        /\ fref[g] = 0 => what[g] = Nothing
    BY <1>0, <1>1, RefsFinite DEF DescriptorRefs, RefsCounted
  <2>6. fref'[g] + Is(f, g) = fref[g] /\ fref[g] \in Nat /\ fref'[g] \in Nat
    BY <1>1, <1>3, <1>4 DEF Is
  <2>7. fref'[g] = Cardinality(DescriptorRefs(g)') + Cardinality(JobRefs(g)')
    BY <2>2, <2>3, <2>4, <2>5, <2>6
  <2>8. fref'[g] = 0 => what'[g] = Nothing
    BY <1>1, <1>3, <1>4, <2>5
  <2> QED BY <2>7, <2>8
<1>N. NewIsOwn'
  <2>1. Own(p)'
    BY <1>5, <1>6 DEF Own, JobNext
  <2>2. InHand(job[p])["drop1"] = f /\ "drop1" \in Spots
    BY <1>1, <1>2, EmptySeq DEF InHand, Nth, Spots, f
  <2>3. ASSUME NEW q \in Users \ {p}, job[q].at \in {"pipe", "opened"},
               NEW k \in 1 .. Len(job[q].new)
        PROVE  what'[job[q].new[k]] = what[job[q].new[k]] /\ fref'[job[q].new[k]] = fref[job[q].new[k]]
    <3>1. job[q].new[k] \in Files /\ job[q].new[k] # f
      BY <1>0, <2>2, <2>3, Alone
    <3> QED BY <1>1, <1>3, <1>4, <3>1
  <2> QED BY <1>0, <1>1, <1>5, <2>1, <2>3, OwnKept DEF JobNext
<1>E. EndsOwned' /\ NodesCounted'
  <2>1. job'[p].last = l /\ job'[p].ip = job[p].ip
    BY <1>5 DEF JobNext
  <2>2. \A v : Cardinality(Owners(v)') = Cardinality(Owners(v))
    <3> SUFFICES ASSUME NEW v PROVE Cardinality(Owners(v)') = Cardinality(Owners(v))
      OBVIOUS
    <3>1. \A x : Is(x, v) \in Nat
      BY DEF Is
    <3>2. \A g \in Files \ {f} : what'[g] = what[g]
      BY <1>1, <1>3, <1>4
    <3>3. /\ Cardinality(Owners(v)) \in Nat /\ Cardinality(Owners(v)') \in Nat
          /\ Cardinality(Owners(v)') + Is(job[p].last, v) + Is(what[f], v)
                = Cardinality(Owners(v)) + Is(job'[p].last, v) + Is(what'[f], v)
      BY <1>3, <1>5, <3>2, OwnersStep DEF JobNext
    <3>4. \/ what'[f] = Nothing /\ l = what[f]
          \/ what'[f] = what[f] /\ l = Nothing
      BY <1>1, <1>3, <1>4 DEF l
    <3>5. CASE what'[f] = Nothing /\ l = what[f]
      BY <1>1, <2>1, <3>1, <3>3, <3>5
    <3>6. CASE what'[f] = what[f] /\ l = Nothing
      BY <1>1, <2>1, <3>1, <3>3, <3>6
    <3> QED BY <3>4, <3>5, <3>6
  <2>3. \A i : Openers(i)' = Openers(i)
    BY <1>5, <2>1 DEF Openers, JobNext
  <2> QED BY <1>0, <1>1, <2>2, <2>3, InWords, InWordsNext
<1> QED BY <1>T, <1>J, <1>R, <1>N, <1>E DEF FilesIInv

\* A call that has no new files and moves on with as many to close.
LEMMA SameHand ==
    ASSUME FTTypeOK, NEW p \in Users, NEW a, NEW n, NEW i, NEW l,
           JobNext(p, a, n, i, job[p].drop, l), a # "pipe", job[p].at # "pipe", NEW f \in Files
    PROVE  /\ Weight(InHand(job[p]), f) \in Nat
           /\ Weight(InHand(job'[p]), f) = Weight(InHand(job[p]), f)
<1>1. job'[p].at # "pipe" /\ job'[p].drop = job[p].drop
  BY DEF JobNext
<1>2. Both(job[p].drop, f) \in Nat
  BY JobType, BothOf
<1>3. Weight(InHand(job[p]), f) = Both(job[p].drop, f)
  BY HandWeight
<1>4. Weight(InHand(job'[p]), f) = Both(job[p].drop, f)
  BY <1>1, HandWeight
<1> QED BY <1>2, <1>3, <1>4

\* fileclose() closes the end of a pipe.
LEMMA FileclosePipeKeeps ==
    ASSUME FilesIInv, NEW p \in Users, FileclosePipe(p)
    PROVE  FilesIInv'
<1>0. FTTypeOK /\ JobsInv /\ RefsCounted /\ NewIsOwn /\ EndsOwned /\ NodesCounted
  BY DEF FilesIInv
<1>1. /\ job[p].last.type = "pipe"
      /\ ends' = [ends EXCEPT ![job[p].last.page] = @ \ {job[p].last.end}]
      /\ job'  = [job EXCEPT ![p].last = Nothing]
      /\ UNCHANGED <<fref, what, ofile, live, iref>>
  BY DEF FileclosePipe
<1>2. /\ job[p].at \in {"user", "pipe", "open", "opened", "end", "exit"}
      /\ job[p].new \in Seq(Files) /\ job[p].ip \in SUBSET Inodes
      /\ job[p].drop \in Seq(Files) /\ job[p].last \in Whats /\ JobShape(job[p])
  BY <1>0, JobType DEF JobsInv
<1>3. PICK g \in Pages, e \in {"r", "w"} : job[p].last = PipeEnd(g, e)
  BY <1>1, <1>2, Kinds DEF Whats
<1>4. ends' = [ends EXCEPT ![g] = @ \ {e}] /\ job[p].last # Nothing
  <2>1. job[p].last.page = g /\ job[p].last.end = e /\ job[p].last # Nothing
    BY <1>3, Kinds
  <2> QED BY <1>1, <2>1
<1>5. JobNext(p, job[p].at, job[p].new, job[p].ip, job[p].drop, Nothing)
  BY <1>0, <1>1 DEF JobNext, FTTypeOK
<1>6. job[p].at \in {"end", "exit"} /\ p \in live
  BY <1>0, <1>2, <1>4, Lives DEF JobShape
<1>T. FTTypeOK'
  <2>1. Nothing \in Whats
    BY DEF Whats
  <2>2. job' \in [Users ->
              [at : {"user", "pipe", "open", "opened", "end", "exit"}, new : Seq(Files),
               ip : SUBSET Inodes, drop : Seq(Files), last : Whats]]
    BY <1>0, <1>2, <1>5, <2>1, JobsTyped
  <2>3. ends' \in [Pages -> SUBSET {"r", "w"}]
    BY <1>0, <1>4 DEF FTTypeOK
  <2> QED BY <1>0, <1>1, <2>2, <2>3 DEF FTTypeOK
<1>J. JobsInv'
  <2>1. JobShape(job'[p])
    BY <1>2, <1>5, <1>6 DEF JobShape, JobNext
  <2> QED BY <1>0, <1>1, <1>6, <1>5, <2>1, JobsKept DEF JobNext
<1>R. RefsCounted'
  <2>1. \A f \in Files : /\ Weight(InHand(job[p]), f) \in Nat
                         /\ Weight(InHand(job'[p]), f) = Weight(InHand(job[p]), f)
    BY <1>0, <1>5, <1>6, SameHand
  <2> QED BY <1>0, <1>1, <1>5, <2>1, RefsKept DEF JobNext
<1>N. NewIsOwn'
  <2>1. Own(p)'
    BY <1>5, <1>6 DEF Own, JobNext
  <2> QED BY <1>0, <1>1, <1>5, <2>1, OwnKept DEF JobNext
<1>E. EndsOwned' /\ NodesCounted'
  <2>1. job'[p].last = Nothing /\ job'[p].ip = job[p].ip
    BY <1>5 DEF JobNext
  <2>2. \A v : /\ Cardinality(Owners(v)) \in Nat /\ Cardinality(Owners(v)') \in Nat
               /\ Cardinality(Owners(v)') + Is(PipeEnd(g, e), v)
                     = Cardinality(Owners(v)) + Is(Nothing, v)
    BY <1>1, <1>3, <1>5, <2>1, OwnersLast DEF JobNext
  <2>3. e \in ends[g]
    <3>1. p \in Owners(PipeEnd(g, e))
      BY <1>3 DEF Owners
    <3>2. Cardinality(Owners(PipeEnd(g, e))) # 0
      BY <3>1, OwnersFinite, FS_EmptySet
    <3> QED BY <1>0, <3>2, InWords DEF In
  <2>4. ASSUME NEW a \in Pages, NEW b \in {"r", "w"}
        PROVE  Cardinality(Owners(PipeEnd(a, b))') = In(b, ends'[a])
    <3>1. Cardinality(Owners(PipeEnd(a, b))) = In(b, ends[a])
      BY <1>0, InWords
    <3>2. Is(Nothing, PipeEnd(a, b)) = 0
      BY Kinds DEF Is
    <3>3. CASE a = g /\ b = e
      <4>1. In(b, ends[a]) = 1 /\ In(b, ends'[a]) = 0 /\ Is(PipeEnd(g, e), PipeEnd(a, b)) = 1
        BY <1>0, <1>4, <2>3, <3>3 DEF In, Is, FTTypeOK
      <4> QED BY <2>2, <3>1, <3>2, <4>1
    <3>4. CASE ~ (a = g /\ b = e)
      <4>1. In(b, ends'[a]) = In(b, ends[a])
        BY <1>0, <1>4, <3>4 DEF In, FTTypeOK
      <4>2. Is(PipeEnd(g, e), PipeEnd(a, b)) = 0
        BY <3>4, Kinds DEF Is
      <4> QED BY <2>2, <3>1, <3>2, <4>1, <4>2
    <3> QED BY <3>3, <3>4
  <2>5. \A i : Cardinality(Owners(Inode(i))') = Cardinality(Owners(Inode(i)))
    <3>1. \A i : Is(PipeEnd(g, e), Inode(i)) = 0 /\ Is(Nothing, Inode(i)) = 0
      BY Kinds DEF Is
    <3> QED BY <2>2, <3>1
  <2>6. \A i : Openers(i)' = Openers(i)
    BY <1>5, <2>1 DEF Openers, JobNext
  <2> QED BY <1>0, <1>1, <2>4, <2>5, <2>6, InWords, InWordsNext
<1> QED BY <1>T, <1>J, <1>R, <1>N, <1>E DEF FilesIInv

\* fileclose() puts an inode.
LEMMA FilecloseInodeKeeps ==
    ASSUME FilesIInv, NEW p \in Users, FilecloseInode(p)
    PROVE  FilesIInv'
<1>0. FTTypeOK /\ JobsInv /\ RefsCounted /\ NewIsOwn /\ EndsOwned /\ NodesCounted
  BY DEF FilesIInv
<1>1. /\ job[p].last.type = "inode"
      /\ iref' = [iref EXCEPT ![job[p].last.ip] = @ - 1]
      /\ job'  = [job EXCEPT ![p].last = Nothing]
      /\ UNCHANGED <<fref, what, ofile, live, ends>>
  BY DEF FilecloseInode
<1>2. /\ job[p].at \in {"user", "pipe", "open", "opened", "end", "exit"}
      /\ job[p].new \in Seq(Files) /\ job[p].ip \in SUBSET Inodes
      /\ job[p].drop \in Seq(Files) /\ job[p].last \in Whats /\ JobShape(job[p])
  BY <1>0, JobType DEF JobsInv
<1>3. PICK n \in Inodes : job[p].last = Inode(n)
  BY <1>1, <1>2, Kinds DEF Whats
<1>4. iref' = [iref EXCEPT ![n] = @ - 1] /\ job[p].last # Nothing
  BY <1>1, <1>3, Kinds
<1>5. JobNext(p, job[p].at, job[p].new, job[p].ip, job[p].drop, Nothing)
  BY <1>0, <1>1 DEF JobNext, FTTypeOK
<1>6. job[p].at \in {"end", "exit"} /\ p \in live
  BY <1>0, <1>2, <1>4, Lives DEF JobShape
<1>7. job'[p].last = Nothing /\ job'[p].ip = job[p].ip
  BY <1>5 DEF JobNext
<1>8. \A v : /\ Cardinality(Owners(v)) \in Nat /\ Cardinality(Owners(v)') \in Nat
             /\ Cardinality(Owners(v)') + Is(Inode(n), v)
                   = Cardinality(Owners(v)) + Is(Nothing, v)
  BY <1>1, <1>3, <1>5, <1>7, OwnersLast DEF JobNext
<1>9. \A i : Openers(i)' = Openers(i) /\ Cardinality(Openers(i)) \in Nat
  BY <1>5, <1>7, OpenersFinite DEF Openers, JobNext
<1>10. \A i \in Inodes : Cardinality(Owners(Inode(i))') + Is(n, i) = Cardinality(Owners(Inode(i)))
  <2>1. \A i \in Inodes : Is(Inode(n), Inode(i)) = Is(n, i) /\ Is(Nothing, Inode(i)) = 0
    BY Kinds DEF Is
  <2>2. \A i \in Inodes : Is(n, i) \in Nat
    BY DEF Is
  <2> QED BY <1>8, <2>1, <2>2
<1>11. iref \in [Inodes -> Nat]
  BY <1>0 DEF FTTypeOK
<1>12. \A i \in Inodes : /\ iref[i] = Cardinality(Owners(Inode(i))) + Cardinality(Openers(i))
                        /\ iref'[i] = iref[i] - Is(n, i)
                        /\ Is(n, i) \in Nat
  BY <1>0, <1>4, <1>11, InWords DEF Is
<1>13. \A i \in Inodes : /\ iref'[i] = Cardinality(Owners(Inode(i))') + Cardinality(Openers(i)')
                        /\ iref'[i] \in Nat
  BY <1>8, <1>9, <1>10, <1>12
<1>T. FTTypeOK'
  <2>1. Nothing \in Whats
    BY DEF Whats
  <2>2. job' \in [Users ->
              [at : {"user", "pipe", "open", "opened", "end", "exit"}, new : Seq(Files),
               ip : SUBSET Inodes, drop : Seq(Files), last : Whats]]
    BY <1>0, <1>2, <1>5, <2>1, JobsTyped
  <2>3. iref' \in [Inodes -> Nat]
    BY <1>4, <1>11, <1>13
  <2> QED BY <1>0, <1>1, <2>2, <2>3 DEF FTTypeOK
<1>J. JobsInv'
  <2>1. JobShape(job'[p])
    BY <1>2, <1>5, <1>6 DEF JobShape, JobNext
  <2> QED BY <1>0, <1>1, <1>6, <1>5, <2>1, JobsKept DEF JobNext
<1>R. RefsCounted'
  <2>1. \A f \in Files : /\ Weight(InHand(job[p]), f) \in Nat
                         /\ Weight(InHand(job'[p]), f) = Weight(InHand(job[p]), f)
    BY <1>0, <1>5, <1>6, SameHand
  <2> QED BY <1>0, <1>1, <1>5, <2>1, RefsKept DEF JobNext
<1>N. NewIsOwn'
  <2>1. Own(p)'
    BY <1>5, <1>6 DEF Own, JobNext
  <2> QED BY <1>0, <1>1, <1>5, <2>1, OwnKept DEF JobNext
<1>E. EndsOwned' /\ NodesCounted'
  <2>1. \A a, b : Cardinality(Owners(PipeEnd(a, b))') = Cardinality(Owners(PipeEnd(a, b)))
    <3>1. \A a, b : Is(Inode(n), PipeEnd(a, b)) = 0 /\ Is(Nothing, PipeEnd(a, b)) = 0
      BY Kinds DEF Is
    <3> QED BY <1>8, <3>1
  <2> QED BY <1>0, <1>1, <1>13, <2>1, InWords, InWordsNext
<1> QED BY <1>T, <1>J, <1>R, <1>N, <1>E DEF FilesIInv

\* A call returns.
LEMMA CallEndsKeeps ==
    ASSUME FilesIInv, NEW p \in Users, CallEnds(p)
    PROVE  FilesIInv'
<1>0. FTTypeOK /\ JobsInv /\ RefsCounted /\ NewIsOwn /\ EndsOwned /\ NodesCounted
  BY DEF FilesIInv
<1>1. /\ job[p].at = "end" /\ job[p].drop = <<>> /\ job[p].last = Nothing
      /\ iref' = [i \in Inodes |-> IF i \in job[p].ip THEN iref[i] - 1 ELSE iref[i]]
      /\ job'  = [job EXCEPT ![p] = User]
      /\ UNCHANGED <<fref, what, ofile, live, ends>>
  BY DEF CallEnds, At
<1>2. p \in live
  BY <1>0, <1>1, Lives
<1>5. JobNext(p, "user", <<>>, {}, job[p].drop, Nothing)
  BY <1>0, <1>1 DEF JobNext, FTTypeOK, User
<1>7. job'[p].last = job[p].last /\ job'[p].ip = {}
  BY <1>1, <1>5 DEF JobNext
<1>8. \A v : Owners(v)' = Owners(v) /\ Cardinality(Owners(v)) \in Nat
  BY <1>1, <1>5, <1>7, OwnersFinite DEF Owners, JobNext
<1>9. \A i : /\ Cardinality(Openers(i)) \in Nat /\ Cardinality(Openers(i)') \in Nat
             /\ Cardinality(Openers(i)') + In(i, job[p].ip) = Cardinality(Openers(i))
  <2>1. \A i : In(i, {}) = 0 /\ In(i, job[p].ip) \in Nat
    BY DEF In
  <2>2. \A i : /\ Cardinality(Openers(i)) \in Nat /\ Cardinality(Openers(i)') \in Nat
               /\ Cardinality(Openers(i)') + In(i, job[p].ip)
                     = Cardinality(Openers(i)) + In(i, job'[p].ip)
    BY <1>5, OpenersStep DEF JobNext
  <2> QED BY <1>7, <2>1, <2>2
<1>11. iref \in [Inodes -> Nat]
  BY <1>0 DEF FTTypeOK
<1>12. \A i \in Inodes : /\ iref[i] = Cardinality(Owners(Inode(i))) + Cardinality(Openers(i))
                        /\ iref'[i] = iref[i] - In(i, job[p].ip)
                        /\ In(i, job[p].ip) \in Nat
  BY <1>0, <1>1, <1>11, InWords DEF In
<1>13. \A i \in Inodes : /\ iref'[i] = Cardinality(Owners(Inode(i))') + Cardinality(Openers(i)')
                        /\ iref'[i] \in Nat
  BY <1>8, <1>9, <1>12
<1>T. FTTypeOK'
  <2>1. Nothing \in Whats /\ <<>> \in Seq(Files) /\ {} \in SUBSET Inodes
    BY DEF Whats
  <2>2. job' \in [Users ->
              [at : {"user", "pipe", "open", "opened", "end", "exit"}, new : Seq(Files),
               ip : SUBSET Inodes, drop : Seq(Files), last : Whats]]
    BY <1>0, <1>1, <1>5, <2>1, JobsTyped
  <2>3. iref' \in [Inodes -> Nat]
    BY <1>1, <1>13
  <2> QED BY <1>0, <1>1, <2>2, <2>3 DEF FTTypeOK
<1>J. JobsInv'
  <2>1. JobShape(job'[p])
    BY <1>1, <1>5 DEF JobShape, JobNext
  <2> QED BY <1>0, <1>1, <1>2, <1>5, <2>1, JobsKept DEF JobNext
<1>R. RefsCounted'
  <2>1. \A f \in Files : /\ Weight(InHand(job[p]), f) \in Nat
                         /\ Weight(InHand(job'[p]), f) = Weight(InHand(job[p]), f)
    BY <1>0, <1>1, <1>5, SameHand
  <2> QED BY <1>0, <1>1, <1>5, <2>1, RefsKept DEF JobNext
<1>N. NewIsOwn'
  <2>1. Own(p)'
    BY <1>5 DEF Own, JobNext
  <2> QED BY <1>0, <1>1, <1>5, <2>1, OwnKept DEF JobNext
<1>E. EndsOwned' /\ NodesCounted'
  BY <1>0, <1>1, <1>8, <1>13, InWords, InWordsNext
<1> QED BY <1>T, <1>J, <1>R, <1>N, <1>E DEF FilesIInv

\* A process in no call has nothing in hand.
LEMMA NothingInHand ==
    ASSUME FTTypeOK, JobsInv, NEW p \in Users, Ready(p)
    PROVE  /\ p \in live /\ job[p].at = "user" /\ job[p].new = <<>> /\ job[p].ip = {}
           /\ job[p].drop = <<>> /\ job[p].last = Nothing
           /\ job[p] = [at |-> "user", new |-> <<>>, ip |-> {}, drop |-> <<>>, last |-> Nothing]
<1>1. p \in live /\ job[p].at = "user"
  BY DEF Ready
<1>2. job[p].new = <<>> /\ job[p].ip = {} /\ job[p].drop = <<>> /\ job[p].last = Nothing
  BY <1>1 DEF JobsInv, JobShape
<1> QED BY <1>1, <1>2, JobType

\* pipe() begins.
LEMMA PipeStartKeeps ==
    ASSUME FilesIInv, NEW p \in Users, PipeStart(p)
    PROVE  FilesIInv'
<1>0. FTTypeOK /\ JobsInv /\ RefsCounted /\ NewIsOwn /\ EndsOwned /\ NodesCounted
  BY DEF FilesIInv
<1>1. /\ Ready(p) /\ job' = [job EXCEPT ![p].at = "pipe"]
      /\ UNCHANGED <<fref, what, ofile, live, ends, iref>>
  BY DEF PipeStart, Go
<1>2. /\ p \in live /\ job[p].at = "user" /\ job[p].new = <<>> /\ job[p].ip = {}
      /\ job[p].drop = <<>> /\ job[p].last = Nothing
  BY <1>0, <1>1, NothingInHand
<1>5. JobNext(p, "pipe", <<>>, {}, <<>>, Nothing)
  BY <1>0, <1>1, <1>2 DEF JobNext, FTTypeOK
<1>T. FTTypeOK'
  <2>1. Nothing \in Whats /\ <<>> \in Seq(Files) /\ {} \in SUBSET Inodes
    BY DEF Whats
  <2>2. job' \in [Users ->
              [at : {"user", "pipe", "open", "opened", "end", "exit"}, new : Seq(Files),
               ip : SUBSET Inodes, drop : Seq(Files), last : Whats]]
    BY <1>0, <1>5, <2>1, JobsTyped
  <2> QED BY <1>0, <1>1, <2>2 DEF FTTypeOK
<1>J. JobsInv'
  <2>1. JobShape(job'[p])
    BY <1>5 DEF JobShape, JobNext
  <2> QED BY <1>0, <1>1, <1>2, <1>5, <2>1, JobsKept DEF JobNext
<1>R. RefsCounted'
  <2>1. job'[p].at = "pipe" /\ job'[p].drop = <<>> /\ job'[p].new = <<>>
    BY <1>5 DEF JobNext
  <2>2. \A f \in Files : Weight(InHand(job[p]), f) = 0 /\ Weight(InHand(job'[p]), f) = 0
    BY <1>2, <2>1, HandWeight, BothOf
  <2> QED BY <1>0, <1>1, <1>5, <2>2, RefsKept DEF JobNext
<1>N. NewIsOwn'
  <2>1. Own(p)'
    BY <1>5 DEF Own, JobNext
  <2> QED BY <1>0, <1>1, <1>5, <2>1, OwnKept DEF JobNext
<1>E. EndsOwned' /\ NodesCounted'
  <2>1. job'[p].last = job[p].last /\ job'[p].ip = job[p].ip
    BY <1>2, <1>5 DEF JobNext
  <2> QED BY <1>0, <1>1, <1>5, <2>1, StandsKept DEF JobNext
<1> QED BY <1>T, <1>J, <1>R, <1>N, <1>E DEF FilesIInv

\* pipe() fails with the files it has to close.
LEMMA DropNewKeeps ==
    ASSUME FilesIInv, NEW p \in Users, At(p, "pipe"), Drop(p, job[p].new),
           UNCHANGED <<fref, what, ofile, live, ends, iref>>
    PROVE  FilesIInv'
<1>0. FTTypeOK /\ JobsInv /\ RefsCounted /\ NewIsOwn /\ EndsOwned /\ NodesCounted
  BY DEF FilesIInv
<1>1. /\ job[p].at = "pipe" /\ job[p].drop = <<>> /\ job[p].last = Nothing
      /\ job' = [job EXCEPT ![p].at = "end", ![p].new = <<>>, ![p].drop = job[p].new]
  BY DEF At, Drop
<1>2. /\ p \in live /\ job[p].ip = {} /\ Len(job[p].new) <= 2 /\ job[p].new \in Seq(Files)
  BY <1>0, <1>1, Lives, JobType DEF JobsInv, JobShape
<1>5. JobNext(p, "end", <<>>, {}, job[p].new, Nothing)
  BY <1>0, <1>1, <1>2, DropIs
<1>T. FTTypeOK'
  <2>1. Nothing \in Whats /\ <<>> \in Seq(Files) /\ {} \in SUBSET Inodes
    BY DEF Whats
  <2>2. job' \in [Users ->
              [at : {"user", "pipe", "open", "opened", "end", "exit"}, new : Seq(Files),
               ip : SUBSET Inodes, drop : Seq(Files), last : Whats]]
    BY <1>0, <1>2, <1>5, <2>1, JobsTyped
  <2> QED BY <1>0, <2>2 DEF FTTypeOK
<1>J. JobsInv'
  <2>1. JobShape(job'[p])
    BY <1>2, <1>5 DEF JobShape, JobNext
  <2> QED BY <1>0, <1>2, <1>5, <2>1, JobsKept DEF JobNext
<1>R. RefsCounted'
  <2>1. job'[p].at # "pipe" /\ job'[p].drop = job[p].new
    BY <1>5 DEF JobNext
  <2>2. \A f \in Files : /\ Weight(InHand(job[p]), f) = Both(job[p].new, f)
                         /\ Weight(InHand(job'[p]), f) = Both(job[p].new, f)
                         /\ Both(job[p].new, f) \in Nat
    <3> TAKE f \in Files
    <3>1. Weight(InHand(job[p]), f) = Both(job[p].new, f)
      BY <1>1, HandWeight
    <3>2. Weight(InHand(job'[p]), f) = Both(job[p].new, f)
      BY <2>1, HandWeight
    <3>3. Both(job[p].new, f) \in Nat
      BY <1>2, BothOf
    <3> QED BY <3>1, <3>2, <3>3
  <2> QED BY <1>0, <1>5, <2>2, RefsKept DEF JobNext
<1>N. NewIsOwn'
  <2>1. Own(p)'
    BY <1>5 DEF Own, JobNext
  <2> QED BY <1>0, <1>5, <2>1, OwnKept DEF JobNext
<1>E. EndsOwned' /\ NodesCounted'
  <2>1. job'[p].last = Nothing /\ job'[p].ip = {}
    BY <1>5 DEF JobNext
  <2> QED BY <1>0, <1>1, <1>2, <1>5, <2>1, StandsKept DEF JobNext
<1> QED BY <1>T, <1>J, <1>R, <1>N, <1>E DEF FilesIInv

LEMMA PipeNoPageKeeps ==
    ASSUME FilesIInv, NEW p \in Users, PipeNoPage(p)
    PROVE  FilesIInv'
BY DropNewKeeps DEF PipeNoPage

\* pipe() takes a file, or finds none.
LEMMA PipeFileKeeps ==
    ASSUME FilesIInv, NEW p \in Users, PipeFile(p)
    PROVE  FilesIInv'
<1>0. FTTypeOK /\ JobsInv /\ RefsCounted /\ NewIsOwn /\ EndsOwned /\ NodesCounted
  BY DEF FilesIInv
<1>1. /\ At(p, "pipe") /\ Len(job[p].new) < 2
      /\ \/ \E f \in Files : Filealloc(f) /\ job' = [job EXCEPT ![p].new = Append(@, f)]
         \/ NoneFree /\ Drop(p, job[p].new) /\ UNCHANGED fref
      /\ UNCHANGED <<what, ofile, live, ends, iref>>
  BY DEF PipeFile
<1>2. CASE Drop(p, job[p].new) /\ UNCHANGED fref
  BY <1>1, <1>2, DropNewKeeps
<1>3. ASSUME NEW f \in Files, Filealloc(f), job' = [job EXCEPT ![p].new = Append(@, f)]
      PROVE  FilesIInv'
  <2> DEFINE n == Append(job[p].new, f)
  <2>1. /\ job[p].at = "pipe" /\ job[p].drop = <<>> /\ job[p].last = Nothing
        /\ fref[f] = 0 /\ fref' = [fref EXCEPT ![f] = 1]
    BY <1>1, <1>3 DEF At, Filealloc
  <2>2. /\ p \in live /\ job[p].ip = {} /\ Len(job[p].new) <= 1
        /\ job[p].new \in Seq(Files) /\ Len(job[p].new) \in Nat
    <3>1. job[p].new \in Seq(Files)
      BY <1>0, JobType
    <3>2. Len(job[p].new) \in Nat
      BY <3>1
    <3> QED BY <1>0, <1>1, <2>1, <3>1, <3>2, Lives DEF JobsInv, JobShape
  <2>3. /\ n \in Seq(Files) /\ Len(n) = Len(job[p].new) + 1 /\ n[Len(job[p].new) + 1] = f
        /\ \A k \in 1 .. Len(job[p].new) : n[k] = job[p].new[k]
    BY <2>2, AppendProperties
  <2>5. JobNext(p, "pipe", n, {}, <<>>, Nothing)
    BY <1>0, <1>3, <2>1, <2>2 DEF JobNext, FTTypeOK
  <2>6. fref \in [Files -> Nat] /\ what[f] = Nothing
    BY <1>0, <2>1 DEF FTTypeOK, RefsCounted
  <2>T. FTTypeOK'
    <3>1. Nothing \in Whats /\ <<>> \in Seq(Files) /\ {} \in SUBSET Inodes
      BY DEF Whats
    <3>2. job' \in [Users ->
                [at : {"user", "pipe", "open", "opened", "end", "exit"}, new : Seq(Files),
                 ip : SUBSET Inodes, drop : Seq(Files), last : Whats]]
      BY <1>0, <2>3, <2>5, <3>1, JobsTyped
    <3>3. fref' \in [Files -> Nat]
      BY <2>1, <2>6
    <3> QED BY <1>0, <1>1, <3>2, <3>3 DEF FTTypeOK
  <2>J. JobsInv'
    <3>1. JobShape(job'[p])
      BY <2>2, <2>3, <2>5 DEF JobShape, JobNext
    <3> QED BY <1>0, <1>1, <2>2, <2>5, <3>1, JobsKept DEF JobNext
  <2>R. RefsCounted'
    <3> SUFFICES ASSUME NEW g \in Files
                 PROVE  /\ fref'[g] = Cardinality(DescriptorRefs(g)') + Cardinality(JobRefs(g)')
                        /\ fref'[g] = 0 => what'[g] = Nothing
      BY DEF RefsCounted
    <3>1. job'[p].at = "pipe" /\ job'[p].drop = <<>> /\ job'[p].new = n
      BY <2>5 DEF JobNext
    <3>2. /\ Weight(InHand(job[p]), g) = Both(job[p].new, g)
          /\ Weight(InHand(job'[p]), g) = Both(n, g)
      BY <2>1, <3>1, HandWeight
    <3>3. /\ Both(job[p].new, g) \in Nat /\ Is(f, g) \in Nat
          /\ Both(n, g) = Both(job[p].new, g) + Is(f, g)
      BY <2>2, BothOf DEF Is
    <3>4. /\ Cardinality(JobRefs(g)) \in Nat /\ Cardinality(JobRefs(g)') \in Nat
          /\ Cardinality(JobRefs(g)') + Weight(InHand(job[p]), g)
                = Cardinality(JobRefs(g)) + Weight(InHand(job'[p]), g)
      BY <2>5, HandStep DEF JobNext
    <3>5. /\ DescriptorRefs(g)' = DescriptorRefs(g) /\ Cardinality(DescriptorRefs(g)) \in Nat
          /\ fref[g] = Cardinality(DescriptorRefs(g)) + Cardinality(JobRefs(g))
          /\ fref[g] = 0 => what[g] = Nothing
      BY <1>0, <1>1, RefsFinite DEF DescriptorRefs, RefsCounted
    <3>6. fref'[g] = fref[g] + Is(f, g)
      BY <2>1, <2>6 DEF Is
    <3>7. Cardinality(JobRefs(g)') = Cardinality(JobRefs(g)) + Is(f, g)
      BY <3>2, <3>3, <3>4
    <3>8. fref'[g] = Cardinality(DescriptorRefs(g)') + Cardinality(JobRefs(g)')
      BY <3>3, <3>4, <3>5, <3>6, <3>7
    <3>9. fref'[g] = 0 => what'[g] = Nothing
      BY <1>1, <2>1, <2>6, <3>5
    <3> QED BY <3>8, <3>9
  <2>N. NewIsOwn'
    <3>1. Own(p)'
      <4>1. job'[p].at = "pipe" /\ job'[p].new = n
        BY <2>5 DEF JobNext
      <4>2. ASSUME NEW k \in 1 .. Len(n) PROVE what'[n[k]] = Nothing /\ fref'[n[k]] = 1
        <5>1. CASE k = Len(job[p].new) + 1
          BY <1>1, <2>1, <2>3, <2>6, <5>1
        <5>2. CASE k \in 1 .. Len(job[p].new)
          <6>1. /\ job[p].new[k] \in Files /\ fref[job[p].new[k]] = 1
                /\ what[job[p].new[k]] = Nothing
            BY <1>0, <2>1, <5>2, Alone
          <6> QED BY <1>1, <2>1, <2>3, <2>6, <5>2, <6>1
        <5> QED BY <2>2, <2>3, <5>1, <5>2
      <4> HIDE DEF n
      <4> QED BY <4>1, <4>2 DEF Own
    <3>2. ASSUME NEW q \in Users \ {p}, job[q].at \in {"pipe", "opened"},
                 NEW k \in 1 .. Len(job[q].new)
          PROVE  fref'[job[q].new[k]] = fref[job[q].new[k]]
      <4>1. job[q].new[k] \in Files /\ fref[job[q].new[k]] = 1
        BY <1>0, <3>2, Alone
      <4> QED BY <2>1, <2>6, <4>1
    <3> QED BY <1>0, <1>1, <2>5, <3>1, <3>2, OwnKept DEF JobNext
  <2>E. EndsOwned' /\ NodesCounted'
    <3>1. job'[p].last = job[p].last /\ job'[p].ip = job[p].ip
      BY <2>1, <2>2, <2>5 DEF JobNext
    <3> QED BY <1>0, <1>1, <2>5, <3>1, StandsKept DEF JobNext
  <2> QED BY <2>T, <2>J, <2>R, <2>N, <2>E DEF FilesIInv
<1> QED BY <1>1, <1>2, <1>3

\* Free descriptors are there when they fit.
LEMMA FreeFdsFinite ==
    ASSUME NEW p
    PROVE  FreeFds(p) \subseteq Fds /\ IsFiniteSet(FreeFds(p))
<1>1. FreeFds(p) \in SUBSET Fds
  BY DEF FreeFds
<1> QED BY <1>1, FileTableAssumption, FS_Subset

LEMMA OneFits ==
    ASSUME NEW p, Fit(p, 1)
    PROVE  Lowest(FreeFds(p)) \in Fds /\ ofile[p][Lowest(FreeFds(p))] = NoFile
<1>1. FreeFds(p) \subseteq Fds /\ IsFiniteSet(FreeFds(p)) /\ Cardinality(FreeFds(p)) >= 1
  BY FreeFdsFinite DEF Fit
<1>2. FreeFds(p) # {}
  BY <1>1, FS_EmptySet
<1>3. Lowest(FreeFds(p)) \in FreeFds(p)
  BY <1>1, <1>2, LowestIn
<1> QED BY <1>3 DEF FreeFds

LEMMA TwoFit ==
    ASSUME NEW p, Fit(p, 2)
    PROVE  \E d0, d1 \in Fds :
              /\ d0 # d1 /\ ofile[p][d0] = NoFile /\ ofile[p][d1] = NoFile
              /\ d0 = Lowest(FreeFds(p)) /\ d1 = Lowest(FreeFds(p) \ {Lowest(FreeFds(p))})
<1>1. FreeFds(p) \subseteq Fds /\ IsFiniteSet(FreeFds(p)) /\ Cardinality(FreeFds(p)) >= 2
  BY FreeFdsFinite DEF Fit
<1>2. FreeFds(p) # {}
  BY <1>1, FS_EmptySet
<1>3. PICK d0 : d0 = Lowest(FreeFds(p))
  OBVIOUS
<1>4. d0 \in FreeFds(p)
  BY <1>1, <1>2, <1>3, LowestIn
<1>5. PICK S : S = FreeFds(p) \ {d0}
  OBVIOUS
<1>6. IsFiniteSet(S) /\ Cardinality(S) = Cardinality(FreeFds(p)) - 1
  BY <1>1, <1>4, <1>5, OneLess
<1>7. Cardinality(FreeFds(p)) \in Nat
  BY <1>1, FS_CardinalityType
<1>8. S # {} /\ S \subseteq Fds
  BY <1>1, <1>5, <1>6, <1>7, FS_EmptySet
<1>9. PICK d1 : d1 = Lowest(S)
  OBVIOUS
<1>10. d1 \in S
  BY <1>8, <1>9, LowestIn
<1> QED BY <1>3, <1>4, <1>5, <1>9, <1>10 DEF FreeFds

\* Two files are filled in.
LEMMA OwnersTwo ==
    ASSUME \A q \in Users : job'[q].last = job[q].last,
           NEW f \in Files, NEW h \in Files, f # h,
           \A g \in Files \ {f, h} : what'[g] = what[g], NEW v
    PROVE  /\ Cardinality(Owners(v)) \in Nat /\ Cardinality(Owners(v)') \in Nat
           /\ Cardinality(Owners(v)') + Is(what[f], v) + Is(what[h], v)
                 = Cardinality(Owners(v)) + Is(what'[f], v) + Is(what'[h], v)
<1> DEFINE X == Files \cup Users
           G == [x \in X |-> IF x \in Files THEN what[x] ELSE job[x].last]
           M == [x \in X |-> IF x = f THEN what'[x] ELSE IF x \in Files THEN what[x] ELSE job[x].last]
           H == [x \in X |-> IF x \in Files THEN what'[x] ELSE job'[x].last]
<1>1. Users \cap Files = {} /\ IsFiniteSet(X)
  BY FileTableAssumption, PlacesFinite
<1>2. Owners(v) = Where(X, G, v) /\ Owners(v)' = Where(X, H, v)
  BY <1>1 DEF Owners, Where
<1>3. /\ f \in X /\ G[f] = what[f] /\ M[f] = what'[f]
      /\ \A x \in X \ {f} : M[x] = G[x]
  OBVIOUS
<1>4. /\ h \in X /\ M[h] = what[h] /\ H[h] = what'[h]
      /\ \A x \in X \ {h} : H[x] = M[x]
  OBVIOUS
<1> HIDE DEF X, G, H, M
<1>5. /\ Cardinality(Where(X, G, v)) \in Nat /\ Cardinality(Where(X, M, v)) \in Nat
      /\ Cardinality(Where(X, M, v)) + Is(G[f], v) = Cardinality(Where(X, G, v)) + Is(M[f], v)
  BY <1>1, <1>3, Moved
<1>6. /\ Cardinality(Where(X, M, v)) \in Nat /\ Cardinality(Where(X, H, v)) \in Nat
      /\ Cardinality(Where(X, H, v)) + Is(M[h], v) = Cardinality(Where(X, M, v)) + Is(H[h], v)
  BY <1>1, <1>4, Moved
<1>7. \A x : Is(x, v) \in Nat
  BY DEF Is
<1> QED BY <1>2, <1>3, <1>4, <1>5, <1>6, <1>7

\* Two free descriptors are taken.
LEMMA FdsTaken ==
    ASSUME NEW p \in Users, NEW d \in Fds, NEW e \in Fds, d # e,
           ofile[p][d] = NoFile, ofile[p][e] = NoFile,
           ofile'[p][d] \in Files, ofile'[p][e] \in Files,
           \A q \in Users, c \in Fds :
               <<q, c>> \notin {<<p, d>>, <<p, e>>} => ofile'[q][c] = ofile[q][c],
           NEW f \in Files
    PROVE  /\ Cardinality(DescriptorRefs(f)) \in Nat /\ Cardinality(DescriptorRefs(f)') \in Nat
           /\ Cardinality(DescriptorRefs(f)')
                 = Cardinality(DescriptorRefs(f)) + Is(ofile'[p][d], f) + Is(ofile'[p][e], f)
<1> DEFINE a == ofile'[p][d]
           b == ofile'[p][e]
<1>2. PICK o1 : o1 = [q \in Users |-> [c \in Fds |->
                        IF q = p /\ c = d THEN a ELSE ofile[q][c]]]
  OBVIOUS
<1>3. /\ o1[p][d] = a /\ o1[p][e] = NoFile
      /\ \A q \in Users, c \in Fds : <<q, c>> # <<p, d>> => o1[q][c] = ofile[q][c]
  BY <1>2
<1>4. /\ ofile'[p][e] = b
      /\ \A q \in Users, c \in Fds : <<q, c>> # <<p, e>> => ofile'[q][c] = o1[q][c]
  BY <1>2
<1>5. /\ Cardinality(FdRefs(ofile, f)) \in Nat /\ Cardinality(FdRefs(o1, f)) \in Nat
      /\ Cardinality(FdRefs(o1, f)) + Is(NoFile, f) = Cardinality(FdRefs(ofile, f)) + Is(a, f)
  BY <1>3, FdChange
<1>6. ASSUME NEW o2,
             \A q \in Users, c \in Fds : <<q, c>> # <<p, e>> => o2[q][c] = o1[q][c]
      PROVE  /\ Cardinality(FdRefs(o1, f)) \in Nat /\ Cardinality(FdRefs(o2, f)) \in Nat
             /\ Cardinality(FdRefs(o2, f)) + Is(o1[p][e], f)
                   = Cardinality(FdRefs(o1, f)) + Is(o2[p][e], f)
  BY <1>6, FdChange
<1>7. /\ Cardinality(FdRefs(ofile', f)) \in Nat
      /\ Cardinality(FdRefs(ofile', f)) + Is(NoFile, f) = Cardinality(FdRefs(o1, f)) + Is(b, f)
  BY <1>3, <1>4, <1>6
<1>8. Is(NoFile, f) = 0 /\ Is(a, f) \in Nat /\ Is(b, f) \in Nat
  BY FileTableAssumption DEF Is
<1>9. Cardinality(FdRefs(ofile', f)) = Cardinality(FdRefs(ofile, f)) + Is(a, f) + Is(b, f)
  BY <1>5, <1>7, <1>8
<1> QED BY <1>5, <1>7, <1>9, RefsAre, RefsAreNext

\* pipe() has its page, and its descriptors or two files to close.
LEMMA PipeMadeKeeps ==
    ASSUME FilesIInv, NEW p \in Users, PipeMade(p)
    PROVE  FilesIInv'
<1>0. FTTypeOK /\ JobsInv /\ RefsCounted /\ NewIsOwn /\ EndsOwned /\ NodesCounted
  BY DEF FilesIInv
<1> DEFINE rf == job[p].new[1]
           wf == job[p].new[2]
           d0 == Lowest(FreeFds(p))
           d1 == Lowest(FreeFds(p) \ {d0})
           Taken == Fit(p, 2) /\ ofile' = [ofile EXCEPT ![p][d0] = rf, ![p][d1] = wf]
<1>1. /\ job[p].at = "pipe" /\ job[p].drop = <<>> /\ job[p].last = Nothing
      /\ Len(job[p].new) = 2 /\ UNCHANGED <<fref, live, iref>>
      /\ \/ Taken /\ Drop(p, <<>>)
         \/ Drop(p, job[p].new) /\ UNCHANGED ofile
  BY DEF PipeMade, At
<1>2. PICK g \in Pages :
         /\ ends[g] = {}
         /\ ends' = [ends EXCEPT ![g] = {"r", "w"}]
         /\ what' = [what EXCEPT ![rf] = PipeEnd(g, "r"), ![wf] = PipeEnd(g, "w")]
  BY DEF PipeMade
<1>3. /\ p \in live /\ job[p].ip = {} /\ job[p].new \in Seq(Files)
  BY <1>0, <1>1, Lives, JobType DEF JobsInv, JobShape
<1>4. /\ rf \in Files /\ wf \in Files /\ rf # wf
      /\ fref[rf] = 1 /\ fref[wf] = 1 /\ what[rf] = Nothing /\ what[wf] = Nothing
  <2>1. 1 \in 1 .. Len(job[p].new) /\ 2 \in 1 .. Len(job[p].new)
    BY <1>1
  <2>2. /\ rf \in Files /\ fref[rf] = 1 /\ what[rf] = Nothing
        /\ \A i \in 1 .. Len(job[p].new) : job[p].new[i] = rf => i = 1
    BY <1>0, <1>1, <2>1, Alone
  <2>3. wf \in Files /\ fref[wf] = 1 /\ what[wf] = Nothing
    BY <1>0, <1>1, <2>1, Alone
  <2>4. wf = rf => 2 = 1
    BY <2>1, <2>2
  <2> QED BY <2>2, <2>3, <2>4
<1>5. /\ fref \in [Files -> Nat] /\ what \in [Files -> Whats]
      /\ ofile \in [Users -> [Fds -> Files \cup {NoFile}]] /\ ends \in [Pages -> SUBSET {"r", "w"}]
  BY <1>0 DEF FTTypeOK
<1>6. /\ what'[rf] = PipeEnd(g, "r") /\ what'[wf] = PipeEnd(g, "w")
      /\ \A h \in Files \ {rf, wf} : what'[h] = what[h]
  BY <1>2, <1>4, <1>5
<1>7. PICK s \in Seq(Files) :
         /\ job' = [job EXCEPT ![p].at = "end", ![p].new = <<>>, ![p].drop = s]
         /\ Len(s) <= 2
         /\ \/ Taken /\ s = <<>>
            \/ s = job[p].new /\ UNCHANGED ofile
  <2>1. CASE Taken /\ Drop(p, <<>>)
    <3>1. Len(<<>>) <= 2 /\ <<>> \in Seq(Files)
      BY EmptySeq
    <3> QED BY <2>1, <3>1 DEF Drop
  <2>2. CASE Drop(p, job[p].new) /\ UNCHANGED ofile
    <3>1. Len(job[p].new) <= 2
      BY <1>1
    <3> QED BY <1>3, <2>2, <3>1 DEF Drop
  <2> QED BY <1>1, <2>1, <2>2
<1>8. JobNext(p, "end", <<>>, {}, s, Nothing)
  BY <1>0, <1>1, <1>3, <1>7 DEF JobNext, FTTypeOK
<1>9. Taken => \E d, e \in Fds :
         /\ d # e /\ ofile[p][d] = NoFile /\ ofile[p][e] = NoFile
         /\ ofile' = [ofile EXCEPT ![p][d] = rf, ![p][e] = wf]
  <2> SUFFICES ASSUME Taken
               PROVE  \E d, e \in Fds :
                         /\ d # e /\ ofile[p][d] = NoFile /\ ofile[p][e] = NoFile
                         /\ ofile' = [ofile EXCEPT ![p][d] = rf, ![p][e] = wf]
    OBVIOUS
  <2>1. PICK d, e \in Fds :
           /\ d # e /\ ofile[p][d] = NoFile /\ ofile[p][e] = NoFile
           /\ d = d0 /\ e = d1
    BY TwoFit
  <2> HIDE DEF rf, wf, d0, d1
  <2> QED BY <2>1
<1>10. /\ \A q \in Users \ {p} : ofile'[q] = ofile[q]
       /\ ofile' \in [Users -> [Fds -> Files \cup {NoFile}]]
  <2> HIDE DEF rf, wf, d0, d1, Taken
  <2>1. CASE UNCHANGED ofile
    BY <1>5, <2>1
  <2>2. CASE Taken
    <3>1. PICK d, e \in Fds : ofile' = [ofile EXCEPT ![p][d] = rf, ![p][e] = wf]
      BY <1>9, <2>2
    <3> QED BY <1>4, <1>5, <3>1
  <2> QED BY <1>7, <2>1, <2>2
<1> HIDE DEF rf, wf, d0, d1, Taken
<1>T. FTTypeOK'
  <2>1. Nothing \in Whats /\ <<>> \in Seq(Files) /\ {} \in SUBSET Inodes
    BY DEF Whats
  <2>2. job' \in [Users ->
              [at : {"user", "pipe", "open", "opened", "end", "exit"}, new : Seq(Files),
               ip : SUBSET Inodes, drop : Seq(Files), last : Whats]]
    BY <1>0, <1>8, <2>1, JobsTyped
  <2>3. PipeEnd(g, "r") \in Whats /\ PipeEnd(g, "w") \in Whats
    BY DEF Whats
  <2>4. what' \in [Files -> Whats]
    BY <1>2, <1>5, <2>3
  <2>5. ends' \in [Pages -> SUBSET {"r", "w"}]
    BY <1>2, <1>5
  <2> QED BY <1>0, <1>1, <1>10, <2>2, <2>4, <2>5 DEF FTTypeOK
<1>J. JobsInv'
  <2>1. JobShape(job'[p])
    BY <1>7, <1>8 DEF JobShape, JobNext
  <2> QED BY <1>0, <1>1, <1>3, <1>8, <1>10, <2>1, JobsKept DEF JobNext
<1>R. RefsCounted'
  <2> SUFFICES ASSUME NEW f \in Files
               PROVE  /\ fref'[f] = Cardinality(DescriptorRefs(f)') + Cardinality(JobRefs(f)')
                      /\ fref'[f] = 0 => what'[f] = Nothing
    BY DEF RefsCounted
  <2>1. job'[p].at # "pipe" /\ job'[p].drop = s
    BY <1>8 DEF JobNext
  <2>2. Weight(InHand(job[p]), f) = Is(rf, f) + Is(wf, f)
    <3>1. Weight(InHand(job[p]), f) = Both(job[p].new, f)
      BY <1>1, HandWeight
    <3> QED BY <1>1, <1>3, <3>1, BothOf DEF rf, wf
  <2>3. Weight(InHand(job'[p]), f) = Both(s, f)
    BY <2>1, HandWeight
  <2>4. /\ Cardinality(JobRefs(f)) \in Nat /\ Cardinality(JobRefs(f)') \in Nat
        /\ Cardinality(JobRefs(f)') + Weight(InHand(job[p]), f)
              = Cardinality(JobRefs(f)) + Weight(InHand(job'[p]), f)
    BY <1>8, HandStep DEF JobNext
  <2>5. Is(rf, f) \in Nat /\ Is(wf, f) \in Nat
    BY DEF Is
  <2>6. /\ fref[f] = Cardinality(DescriptorRefs(f)) + Cardinality(JobRefs(f))
        /\ Cardinality(DescriptorRefs(f)) \in Nat
        /\ fref[f] = 0 => what[f] = Nothing
    BY <1>0, RefsFinite DEF RefsCounted
  <2>9. fref'[f] = 0 => what'[f] = Nothing
    BY <1>1, <1>4, <1>6, <2>6
  <2>7. CASE Taken /\ s = <<>>
    <3>1. PICK d, e \in Fds :
             /\ d # e /\ ofile[p][d] = NoFile /\ ofile[p][e] = NoFile
             /\ ofile' = [ofile EXCEPT ![p][d] = rf, ![p][e] = wf]
      BY <1>9, <2>7
    <3>2. /\ Cardinality(DescriptorRefs(f)') \in Nat
          /\ Cardinality(DescriptorRefs(f)')
                = Cardinality(DescriptorRefs(f)) + Is(rf, f) + Is(wf, f)
      <4>1. /\ ofile'[p][d] = rf /\ ofile'[p][e] = wf
            /\ \A q \in Users, c \in Fds :
                  <<q, c>> \notin {<<p, d>>, <<p, e>>} => ofile'[q][c] = ofile[q][c]
        BY <1>5, <3>1
      <4>2. ofile'[p][d] \in Files /\ ofile'[p][e] \in Files
        BY <1>4, <4>1
      <4>3. /\ Cardinality(DescriptorRefs(f)) \in Nat /\ Cardinality(DescriptorRefs(f)') \in Nat
            /\ Cardinality(DescriptorRefs(f)')
                  = Cardinality(DescriptorRefs(f)) + Is(ofile'[p][d], f) + Is(ofile'[p][e], f)
        <5>1. d # e /\ ofile[p][d] = NoFile /\ ofile[p][e] = NoFile
          BY <3>1
        <5>2. \A q \in Users, c \in Fds :
                 <<q, c>> \notin {<<p, d>>, <<p, e>>} => ofile'[q][c] = ofile[q][c]
          BY <4>1
        <5> QED BY <4>2, <5>1, <5>2, FdsTaken
      <4> QED BY <4>1, <4>3
    <3>3. Both(s, f) = 0
      BY <2>7, BothOf
    <3>4. fref'[f] = Cardinality(DescriptorRefs(f)') + Cardinality(JobRefs(f)')
      BY <1>1, <2>2, <2>3, <2>4, <2>5, <2>6, <3>2, <3>3
    <3> QED BY <2>9, <3>4
  <2>8. CASE s = job[p].new /\ UNCHANGED ofile
    <3>1. DescriptorRefs(f)' = DescriptorRefs(f)
      BY <2>8 DEF DescriptorRefs
    <3>2. Both(s, f) = Is(rf, f) + Is(wf, f)
      BY <1>1, <1>3, <2>8, BothOf DEF rf, wf
    <3>3. fref'[f] = Cardinality(DescriptorRefs(f)') + Cardinality(JobRefs(f)')
      BY <1>1, <2>2, <2>3, <2>4, <2>5, <2>6, <3>1, <3>2
    <3> QED BY <2>9, <3>3
  <2> QED BY <1>7, <2>7, <2>8
<1>N. NewIsOwn'
  <2>1. Own(p)'
    BY <1>8 DEF Own, JobNext
  <2>2. /\ InHand(job[p])["new1"] = rf /\ "new1" \in Spots
        /\ InHand(job[p])["new2"] = wf /\ "new2" \in Spots
    BY <1>1 DEF InHand, Nth, Spots, rf, wf
  <2>3. ASSUME NEW q \in Users \ {p}, job[q].at \in {"pipe", "opened"},
               NEW k \in 1 .. Len(job[q].new)
        PROVE  what'[job[q].new[k]] = what[job[q].new[k]]
    <3>1. job[q].new[k] \in Files /\ job[q].new[k] # rf /\ job[q].new[k] # wf
      BY <1>0, <2>2, <2>3, Alone
    <3> QED BY <1>6, <3>1
  <2> QED BY <1>0, <1>1, <1>8, <1>10, <2>1, <2>3, OwnKept DEF JobNext
<1>E. EndsOwned' /\ NodesCounted'
  <2>1. job'[p].last = Nothing /\ job'[p].ip = {}
    BY <1>8 DEF JobNext
  <2>2. \A q \in Users : job'[q].last = job[q].last /\ job'[q].ip = job[q].ip
    BY <1>1, <1>3, <1>8, <2>1 DEF JobNext
  <2>3. \A v : /\ Cardinality(Owners(v)) \in Nat /\ Cardinality(Owners(v)') \in Nat
               /\ Cardinality(Owners(v)') + Is(Nothing, v) + Is(Nothing, v)
                     = Cardinality(Owners(v)) + Is(PipeEnd(g, "r"), v) + Is(PipeEnd(g, "w"), v)
    BY <1>4, <1>6, <2>2, OwnersTwo
  <2>4. ASSUME NEW a \in Pages, NEW b \in {"r", "w"}
        PROVE  Cardinality(Owners(PipeEnd(a, b))') = In(b, ends'[a])
    <3>1. Cardinality(Owners(PipeEnd(a, b))) = In(b, ends[a])
      BY <1>0, InWords
    <3>2. Is(Nothing, PipeEnd(a, b)) = 0
      BY Kinds DEF Is
    <3>3. CASE a = g
      <4>1. In(b, ends[a]) = 0 /\ In(b, ends'[a]) = 1
        BY <1>2, <1>5, <3>3 DEF In
      <4>2. Is(PipeEnd(g, "r"), PipeEnd(a, b)) + Is(PipeEnd(g, "w"), PipeEnd(a, b)) = 1
        BY <3>3, Kinds DEF Is
      <4>3. /\ Is(PipeEnd(g, "r"), PipeEnd(a, b)) \in Nat
            /\ Is(PipeEnd(g, "w"), PipeEnd(a, b)) \in Nat
        BY DEF Is
      <4> QED BY <2>3, <3>1, <3>2, <4>1, <4>2, <4>3
    <3>4. CASE a # g
      <4>1. In(b, ends'[a]) = In(b, ends[a])
        BY <1>2, <1>5, <3>4 DEF In
      <4>2. Is(PipeEnd(g, "r"), PipeEnd(a, b)) = 0 /\ Is(PipeEnd(g, "w"), PipeEnd(a, b)) = 0
        BY <3>4, Kinds DEF Is
      <4> QED BY <2>3, <3>1, <3>2, <4>1, <4>2
    <3> QED BY <3>3, <3>4
  <2>5. \A i : Cardinality(Owners(Inode(i))') = Cardinality(Owners(Inode(i)))
    <3>1. \A i : /\ Is(PipeEnd(g, "r"), Inode(i)) = 0 /\ Is(PipeEnd(g, "w"), Inode(i)) = 0
                 /\ Is(Nothing, Inode(i)) = 0
      BY Kinds DEF Is
    <3> QED BY <2>3, <3>1
  <2>6. \A i : Openers(i)' = Openers(i)
    BY <2>2 DEF Openers
  <2> QED BY <1>0, <1>1, <2>4, <2>5, <2>6, InWords, InWordsNext
<1> QED BY <1>T, <1>J, <1>R, <1>N, <1>E DEF FilesIInv

\* open() has its inode.
LEMMA OpenStartKeeps ==
    ASSUME FilesIInv, NEW p \in Users, NEW n \in Inodes, OpenStart(p, n)
    PROVE  FilesIInv'
<1>0. FTTypeOK /\ JobsInv /\ RefsCounted /\ NewIsOwn /\ EndsOwned /\ NodesCounted
  BY DEF FilesIInv
<1>1. /\ Ready(p) /\ iref' = [iref EXCEPT ![n] = @ + 1]
      /\ job' = [job EXCEPT ![p].at = "open", ![p].ip = {n}]
      /\ UNCHANGED <<fref, what, ofile, live, ends>>
  BY DEF OpenStart
<1>2. /\ p \in live /\ job[p].at = "user" /\ job[p].new = <<>> /\ job[p].ip = {}
      /\ job[p].drop = <<>> /\ job[p].last = Nothing
  BY <1>0, <1>1, NothingInHand
<1>5. JobNext(p, "open", <<>>, {n}, job[p].drop, Nothing)
  BY <1>0, <1>1, <1>2 DEF JobNext, FTTypeOK
<1>6. job'[p].last = Nothing /\ job'[p].ip = {n}
  BY <1>5 DEF JobNext
<1>7. iref \in [Inodes -> Nat]
  BY <1>0 DEF FTTypeOK
<1>T. FTTypeOK'
  <2>1. Nothing \in Whats /\ <<>> \in Seq(Files) /\ {n} \in SUBSET Inodes
    BY DEF Whats
  <2>2. job' \in [Users ->
              [at : {"user", "pipe", "open", "opened", "end", "exit"}, new : Seq(Files),
               ip : SUBSET Inodes, drop : Seq(Files), last : Whats]]
    BY <1>0, <1>2, <1>5, <2>1, JobsTyped
  <2>3. iref' \in [Inodes -> Nat]
    BY <1>1, <1>7
  <2> QED BY <1>0, <1>1, <2>2, <2>3 DEF FTTypeOK
<1>J. JobsInv'
  <2>1. JobShape(job'[p])
    BY <1>2, <1>5 DEF JobShape, JobNext
  <2> QED BY <1>0, <1>1, <1>2, <1>5, <2>1, JobsKept DEF JobNext
<1>R. RefsCounted'
  <2>1. \A f \in Files : /\ Weight(InHand(job[p]), f) \in Nat
                         /\ Weight(InHand(job'[p]), f) = Weight(InHand(job[p]), f)
    BY <1>0, <1>2, <1>5, SameHand
  <2> QED BY <1>0, <1>1, <1>5, <2>1, RefsKept DEF JobNext
<1>N. NewIsOwn'
  <2>1. Own(p)'
    BY <1>5 DEF Own, JobNext
  <2> QED BY <1>0, <1>1, <1>5, <2>1, OwnKept DEF JobNext
<1>E. EndsOwned' /\ NodesCounted'
  <2>3. \A q \in Users : job'[q].last = job[q].last
    BY <1>2, <1>5, <1>6 DEF JobNext
  <2>1. \A v : Owners(v)' = Owners(v)
    BY <1>1, <2>3 DEF Owners
  <2>2. ASSUME NEW i \in Inodes
        PROVE  iref'[i] = Cardinality(Owners(Inode(i))') + Cardinality(Openers(i)')
    <3>1. /\ Cardinality(Openers(i)) \in Nat /\ Cardinality(Openers(i)') \in Nat
          /\ Cardinality(Openers(i)') + In(i, job[p].ip)
                = Cardinality(Openers(i)) + In(i, job'[p].ip)
      BY <1>5, OpenersStep DEF JobNext
    <3>2. In(i, job[p].ip) = 0 /\ In(i, job'[p].ip) = Is(n, i) /\ Is(n, i) \in Nat
      BY <1>2, <1>6 DEF In, Is
    <3>3. iref'[i] = iref[i] + Is(n, i)
      BY <1>1, <1>7 DEF Is
    <3>4. /\ iref[i] = Cardinality(Owners(Inode(i))) + Cardinality(Openers(i))
          /\ Cardinality(Owners(Inode(i))) \in Nat
      BY <1>0, InWords, OwnersFinite
    <3> QED BY <2>1, <3>1, <3>2, <3>3, <3>4
  <2> QED BY <1>0, <1>1, <2>1, <2>2, InWords, InWordsNext
<1> QED BY <1>T, <1>J, <1>R, <1>N, <1>E DEF FilesIInv

\* open() has a file and a descriptor, or has to close the file, or found none.
LEMMA OpenFileKeeps ==
    ASSUME FilesIInv, NEW p \in Users, OpenFile(p)
    PROVE  FilesIInv'
<1>0. FTTypeOK /\ JobsInv /\ RefsCounted /\ NewIsOwn /\ EndsOwned /\ NodesCounted
  BY DEF FilesIInv
<1>1. /\ job[p].at = "open" /\ job[p].drop = <<>> /\ job[p].last = Nothing
      /\ UNCHANGED <<what, live, ends, iref>>
  BY DEF OpenFile, At
<1>2. /\ p \in live /\ job[p].ip \in SUBSET Inodes /\ job[p].new = <<>>
      /\ \E i \in Inodes : job[p].ip = {i}
  BY <1>0, <1>1, Lives, JobType DEF JobsInv, JobShape
<1>3. /\ fref \in [Files -> Nat] /\ ofile \in [Users -> [Fds -> Files \cup {NoFile}]]
      /\ Nothing \in Whats /\ <<>> \in Seq(Files)
  BY <1>0 DEF FTTypeOK, Whats
<1>E. ASSUME NEW a, NEW n, NEW s, JobNext(p, a, n, job[p].ip, s, Nothing)
      PROVE  EndsOwned' /\ NodesCounted'
  <2>1. job'[p].last = job[p].last /\ job'[p].ip = job[p].ip
    BY <1>1, <1>E DEF JobNext
  <2> QED BY <1>0, <1>1, <1>E, <2>1, StandsKept DEF JobNext
<1>4. CASE Drop(p, <<>>) /\ UNCHANGED <<fref, ofile>>
  <2>5. JobNext(p, "end", <<>>, job[p].ip, job[p].drop, Nothing)
    BY <1>0, <1>1, <1>4 DEF JobNext, FTTypeOK, Drop
  <2>T. FTTypeOK'
    <3>2. job' \in [Users ->
                [at : {"user", "pipe", "open", "opened", "end", "exit"}, new : Seq(Files),
                 ip : SUBSET Inodes, drop : Seq(Files), last : Whats]]
      BY <1>0, <1>1, <1>2, <1>3, <2>5, JobsTyped
    <3> QED BY <1>0, <1>1, <1>4, <3>2 DEF FTTypeOK
  <2>J. JobsInv'
    <3>1. JobShape(job'[p])
      BY <1>1, <2>5 DEF JobShape, JobNext
    <3> QED BY <1>0, <1>1, <1>2, <1>4, <2>5, <3>1, JobsKept DEF JobNext
  <2>R. RefsCounted'
    <3>1. \A f \in Files : /\ Weight(InHand(job[p]), f) \in Nat
                           /\ Weight(InHand(job'[p]), f) = Weight(InHand(job[p]), f)
      BY <1>0, <1>1, <2>5, SameHand
    <3> QED BY <1>0, <1>1, <1>4, <2>5, <3>1, RefsKept DEF JobNext
  <2>N. NewIsOwn'
    <3>1. Own(p)'
      BY <2>5 DEF Own, JobNext
    <3> QED BY <1>0, <1>1, <1>4, <2>5, <3>1, OwnKept DEF JobNext
  <2> QED BY <2>T, <2>J, <2>R, <2>N, <1>E, <2>5 DEF FilesIInv
<1>5. ASSUME NEW f \in Files, Filealloc(f),
             \/ Fit(p, 1) /\ Fdalloc(p, f)
                /\ job' = [job EXCEPT ![p].at = "opened", ![p].new = <<f>>]
             \/ Drop(p, <<f>>) /\ UNCHANGED ofile
      PROVE  FilesIInv'
  <2>1. /\ fref[f] = 0 /\ fref' = [fref EXCEPT ![f] = 1] /\ what[f] = Nothing
    BY <1>0, <1>5 DEF Filealloc, RefsCounted
  <2>2. <<f>> \in Seq(Files) /\ Len(<<f>>) = 1 /\ <<f>>[1] = f
    OBVIOUS
  <2>3. \A g \in Files : fref'[g] = fref[g] + Is(f, g) /\ Is(f, g) \in Nat
    BY <1>3, <2>1 DEF Is
  <2>4. fref' \in [Files -> Nat]
    BY <1>3, <2>1
  <2>5. ASSUME NEW q \in Users \ {p}, job[q].at \in {"pipe", "opened"},
               NEW k \in 1 .. Len(job[q].new)
        PROVE  fref'[job[q].new[k]] = fref[job[q].new[k]]
    <3>1. job[q].new[k] \in Files /\ fref[job[q].new[k]] = 1
      BY <1>0, <2>5, Alone
    <3> QED BY <1>3, <2>1, <3>1
  <2>6. \A g \in Files :
           /\ fref[g] = Cardinality(DescriptorRefs(g)) + Cardinality(JobRefs(g))
           /\ Cardinality(DescriptorRefs(g)) \in Nat /\ Cardinality(JobRefs(g)) \in Nat
           /\ fref'[g] = 0 => what'[g] = Nothing
    BY <1>0, <1>1, <2>1, RefsFinite DEF RefsCounted
  <2>7. CASE Drop(p, <<f>>) /\ UNCHANGED ofile
    <3>5. JobNext(p, "end", <<>>, job[p].ip, <<f>>, Nothing)
      BY <1>0, <1>1, <2>7 DEF JobNext, FTTypeOK, Drop
    <3>T. FTTypeOK'
      <4>2. job' \in [Users ->
                  [at : {"user", "pipe", "open", "opened", "end", "exit"}, new : Seq(Files),
                   ip : SUBSET Inodes, drop : Seq(Files), last : Whats]]
        BY <1>0, <1>2, <1>3, <2>2, <3>5, JobsTyped
      <4> QED BY <1>0, <1>1, <2>4, <2>7, <4>2 DEF FTTypeOK
    <3>J. JobsInv'
      <4>1. JobShape(job'[p])
        BY <2>2, <3>5 DEF JobShape, JobNext
      <4> QED BY <1>0, <1>1, <1>2, <2>7, <3>5, <4>1, JobsKept DEF JobNext
    <3>R. ASSUME NEW g \in Files
          PROVE  fref'[g] = Cardinality(DescriptorRefs(g)') + Cardinality(JobRefs(g)')
      <4>1. job'[p].at # "pipe" /\ job'[p].drop = <<f>>
        BY <3>5 DEF JobNext
      <4>2. Weight(InHand(job[p]), g) = 0 /\ Weight(InHand(job'[p]), g) = Is(f, g)
        <5>1. Weight(InHand(job[p]), g) = Both(<<>>, g)
          BY <1>1, HandWeight
        <5>2. Weight(InHand(job'[p]), g) = Both(<<f>>, g)
          BY <4>1, HandWeight
        <5> QED BY <5>1, <5>2, BothOf
      <4>3. /\ Cardinality(JobRefs(g)') \in Nat
            /\ Cardinality(JobRefs(g)') + Weight(InHand(job[p]), g)
                  = Cardinality(JobRefs(g)) + Weight(InHand(job'[p]), g)
        BY <3>5, HandStep DEF JobNext
      <4>4. DescriptorRefs(g)' = DescriptorRefs(g)
        BY <2>7 DEF DescriptorRefs
      <4> QED BY <2>3, <2>6, <4>2, <4>3, <4>4
    <3>N. NewIsOwn'
      <4>1. Own(p)'
        BY <3>5 DEF Own, JobNext
      <4> QED BY <1>0, <1>1, <2>5, <2>7, <3>5, <4>1, OwnKept DEF JobNext
    <3>S. RefsCounted'
      BY <2>6, <3>R DEF RefsCounted
    <3> QED BY <3>T, <3>J, <3>S, <3>N, <1>E, <3>5 DEF FilesIInv
  <2>8. CASE Fit(p, 1) /\ Fdalloc(p, f)
             /\ job' = [job EXCEPT ![p].at = "opened", ![p].new = <<f>>]
    <3>1. PICK d \in Fds : /\ ofile[p][d] = NoFile
                           /\ ofile' = [ofile EXCEPT ![p][d] = f]
      BY <2>8, OneFits DEF Fdalloc
    <3>2. /\ ofile'[p][d] = f /\ \A q \in Users \ {p} : ofile'[q] = ofile[q]
          /\ \A q \in Users, e \in Fds : <<q, e>> # <<p, d>> => ofile'[q][e] = ofile[q][e]
          /\ ofile' \in [Users -> [Fds -> Files \cup {NoFile}]]
      BY <1>3, <3>1
    <3>5. JobNext(p, "opened", <<f>>, job[p].ip, <<>>, Nothing)
      BY <1>0, <1>1, <2>8 DEF JobNext, FTTypeOK
    <3>T. FTTypeOK'
      <4>2. job' \in [Users ->
                  [at : {"user", "pipe", "open", "opened", "end", "exit"}, new : Seq(Files),
                   ip : SUBSET Inodes, drop : Seq(Files), last : Whats]]
        BY <1>0, <1>2, <1>3, <2>2, <3>5, JobsTyped
      <4> QED BY <1>0, <1>1, <2>4, <3>2, <4>2 DEF FTTypeOK
    <3>J. JobsInv'
      <4>1. JobShape(job'[p])
        BY <1>2, <2>2, <3>5 DEF JobShape, JobNext
      <4> QED BY <1>0, <1>1, <1>2, <3>2, <3>5, <4>1, JobsKept DEF JobNext
    <3>R. ASSUME NEW g \in Files
          PROVE  fref'[g] = Cardinality(DescriptorRefs(g)') + Cardinality(JobRefs(g)')
      <4>1. job'[p].at # "pipe" /\ job'[p].drop = <<>>
        BY <3>5 DEF JobNext
      <4>2. Weight(InHand(job[p]), g) = 0 /\ Weight(InHand(job'[p]), g) = 0
        BY <1>1, <4>1, HandWeight, BothOf
      <4>3. /\ Cardinality(JobRefs(g)') \in Nat
            /\ Cardinality(JobRefs(g)') + Weight(InHand(job[p]), g)
                  = Cardinality(JobRefs(g)) + Weight(InHand(job'[p]), g)
        BY <3>5, HandStep DEF JobNext
      <4>4. /\ Cardinality(DescriptorRefs(g)) \in Nat /\ Cardinality(DescriptorRefs(g)') \in Nat
            /\ Cardinality(DescriptorRefs(g)') + Is(ofile[p][d], g)
                  = Cardinality(DescriptorRefs(g)) + Is(ofile'[p][d], g)
        BY <3>2, FdStep
      <4>5. Is(ofile[p][d], g) = 0
        BY <3>1, FileTableAssumption DEF Is
      <4> QED BY <2>3, <2>6, <3>2, <4>2, <4>3, <4>4, <4>5
    <3>N. NewIsOwn'
      <4>1. Own(p)'
        <5>1. job'[p].at = "opened" /\ job'[p].new = <<f>>
          BY <3>5 DEF JobNext
        <5>2. what'[f] = Nothing /\ fref'[f] = 1
          BY <1>1, <1>3, <2>1
        <5> QED BY <2>2, <3>2, <5>1, <5>2 DEF Own
      <4> QED BY <1>0, <1>1, <2>5, <3>2, <3>5, <4>1, OwnKept DEF JobNext
    <3>S. RefsCounted'
      BY <2>6, <3>R DEF RefsCounted
    <3> QED BY <3>T, <3>J, <3>S, <3>N, <1>E, <3>5 DEF FilesIInv
  <2> QED BY <1>5, <2>7, <2>8
<1> QED BY <1>4, <1>5 DEF OpenFile

\* open() fills in the file and returns.
LEMMA OpenFillKeeps ==
    ASSUME FilesIInv, NEW p \in Users, OpenFill(p)
    PROVE  FilesIInv'
<1>0. FTTypeOK /\ JobsInv /\ RefsCounted /\ NewIsOwn /\ EndsOwned /\ NodesCounted
  BY DEF FilesIInv
<1>1. /\ job[p].at = "opened" /\ job[p].drop = <<>> /\ job[p].last = Nothing
      /\ job' = [job EXCEPT ![p] = User]
      /\ UNCHANGED <<fref, ofile, live, ends, iref>>
  BY DEF OpenFill, At
<1>2. /\ p \in live /\ Len(job[p].new) = 1
  BY <1>0, <1>1, Lives DEF JobsInv, JobShape
<1>3. PICK n \in Inodes : job[p].ip = {n}
  BY <1>0, <1>1 DEF JobsInv, JobShape
<1>4. PICK f : f = job[p].new[1]
  OBVIOUS
<1>5. f \in Files /\ fref[f] = 1 /\ what[f] = Nothing
  <2>1. 1 \in 1 .. Len(job[p].new)
    BY <1>2
  <2> QED BY <1>0, <1>1, <1>4, <2>1, Alone
<1>6. what' = [what EXCEPT ![f] = Inode(n)]
  <2>1. (CHOOSE i \in job[p].ip : TRUE) = n
    BY <1>3
  <2> QED BY <1>4, <2>1 DEF OpenFill
<1>7. JobNext(p, "user", <<>>, {}, job[p].drop, Nothing)
  BY <1>0, <1>1 DEF JobNext, FTTypeOK, User
<1>8. what \in [Files -> Whats] /\ Inode(n) \in Whats
  <2>1. Inode(n) \in Whats
    BY DEF Whats
  <2> QED BY <1>0, <2>1 DEF FTTypeOK
<1>9. what'[f] = Inode(n) /\ \A h \in Files \ {f} : what'[h] = what[h]
  BY <1>5, <1>6, <1>8
<1>T. FTTypeOK'
  <2>1. Nothing \in Whats /\ <<>> \in Seq(Files) /\ {} \in SUBSET Inodes
    BY DEF Whats
  <2>2. job' \in [Users ->
              [at : {"user", "pipe", "open", "opened", "end", "exit"}, new : Seq(Files),
               ip : SUBSET Inodes, drop : Seq(Files), last : Whats]]
    BY <1>0, <1>1, <1>7, <2>1, JobsTyped
  <2>3. what' \in [Files -> Whats]
    BY <1>6, <1>8
  <2> QED BY <1>0, <1>1, <2>2, <2>3 DEF FTTypeOK
<1>J. JobsInv'
  <2>1. JobShape(job'[p])
    BY <1>1, <1>7 DEF JobShape, JobNext
  <2> QED BY <1>0, <1>1, <1>2, <1>7, <2>1, JobsKept DEF JobNext
<1>R. RefsCounted'
  <2>1. \A g \in Files : /\ Weight(InHand(job[p]), g) \in Nat
                         /\ Weight(InHand(job'[p]), g) = Weight(InHand(job[p]), g)
    BY <1>0, <1>1, <1>7, SameHand
  <2>2. \A g \in Files : fref[g] # 0 \/ what'[g] = what[g]
    BY <1>5, <1>9
  <2> QED BY <1>0, <1>1, <1>7, <2>1, <2>2, RefsKept DEF JobNext
<1>N. NewIsOwn'
  <2>1. Own(p)'
    BY <1>7 DEF Own, JobNext
  <2>2. ASSUME NEW q \in Users \ {p}, job[q].at \in {"pipe", "opened"},
               NEW k \in 1 .. Len(job[q].new)
        PROVE  what'[job[q].new[k]] = what[job[q].new[k]]
    <3>1. PICK d \in Fds : ofile[p][d] = f
      BY <1>0, <1>1, <1>4 DEF NewIsOwn
    <3>2. job[q].new[k] \in Files /\ job[q].new[k] # f
      BY <1>0, <2>2, <3>1, Alone
    <3> QED BY <1>9, <3>2
  <2> QED BY <1>0, <1>1, <1>7, <2>1, <2>2, OwnKept DEF JobNext
<1>E. EndsOwned' /\ NodesCounted'
  <2>1. job'[p].last = Nothing /\ job'[p].ip = {}
    BY <1>7 DEF JobNext
  <2>2. \A v : Is(Nothing, v) \in Nat /\ Is(Inode(n), v) \in Nat
    BY DEF Is
  <2>3. \A v : /\ Cardinality(Owners(v)) \in Nat /\ Cardinality(Owners(v)') \in Nat
               /\ Cardinality(Owners(v)') + Is(Nothing, v)
                     = Cardinality(Owners(v)) + Is(Inode(n), v)
    <3> TAKE v
    <3>1. /\ Cardinality(Owners(v)) \in Nat /\ Cardinality(Owners(v)') \in Nat
          /\ Cardinality(Owners(v)') + Is(job[p].last, v) + Is(what[f], v)
                = Cardinality(Owners(v)) + Is(job'[p].last, v) + Is(what'[f], v)
      BY <1>5, <1>7, <1>9, OwnersStep DEF JobNext
    <3> QED BY <1>1, <1>5, <1>9, <2>1, <2>2, <3>1
  <2>4. \A a, b : Cardinality(Owners(PipeEnd(a, b))') = Cardinality(Owners(PipeEnd(a, b)))
    <3>1. \A a, b : Is(Inode(n), PipeEnd(a, b)) = 0 /\ Is(Nothing, PipeEnd(a, b)) = 0
      BY Kinds DEF Is
    <3> QED BY <2>3, <3>1
  <2>5. ASSUME NEW i \in Inodes
        PROVE  iref'[i] = Cardinality(Owners(Inode(i))') + Cardinality(Openers(i)')
    <3>1. /\ Cardinality(Openers(i)) \in Nat /\ Cardinality(Openers(i)') \in Nat
          /\ Cardinality(Openers(i)') + In(i, job[p].ip)
                = Cardinality(Openers(i)) + In(i, job'[p].ip)
      BY <1>7, OpenersStep DEF JobNext
    <3>2. In(i, job[p].ip) = Is(n, i) /\ In(i, job'[p].ip) = 0 /\ Is(n, i) \in Nat
      BY <1>3, <2>1 DEF In, Is
    <3>3. Is(Inode(n), Inode(i)) = Is(n, i) /\ Is(Nothing, Inode(i)) = 0
      BY Kinds DEF Is
    <3>4. iref[i] = Cardinality(Owners(Inode(i))) + Cardinality(Openers(i))
      BY <1>0, InWords
    <3>5. Cardinality(Owners(Inode(i))') = Cardinality(Owners(Inode(i))) + Is(n, i)
      BY <2>3, <3>2, <3>3
    <3>6. Cardinality(Owners(Inode(i))) \in Nat
      BY OwnersFinite
    <3> QED BY <1>1, <3>1, <3>2, <3>4, <3>5, <3>6
  <2> QED BY <1>0, <1>1, <2>4, <2>5, InWords, InWordsNext
<1> QED BY <1>T, <1>J, <1>R, <1>N, <1>E DEF FilesIInv

\* dup() takes the lowest free descriptor.
LEMMA DupKeeps ==
    ASSUME FilesIInv, NEW p \in Users, NEW c \in Fds, Dup(p, c)
    PROVE  FilesIInv'
<1>0. FTTypeOK /\ JobsInv /\ RefsCounted /\ NewIsOwn /\ EndsOwned /\ NodesCounted
  BY DEF FilesIInv
<1>1. PICK f : f = ofile[p][c]
  OBVIOUS
<1>2. /\ Ready(p) /\ f # NoFile /\ Fit(p, 1) /\ Fdalloc(p, f)
      /\ fref' = [fref EXCEPT ![f] = @ + 1]
      /\ UNCHANGED <<what, live, ends, iref, job>>
  BY <1>1 DEF Dup
<1>3. /\ fref \in [Files -> Nat] /\ ofile \in [Users -> [Fds -> Files \cup {NoFile}]]
      /\ f \in Files
  BY <1>0, <1>1, <1>2 DEF FTTypeOK
<1>4. p \in live /\ job[p].at = "user"
  BY <1>2 DEF Ready
<1>5. PICK d \in Fds : ofile[p][d] = NoFile /\ ofile' = [ofile EXCEPT ![p][d] = f]
  BY <1>2, OneFits DEF Fdalloc
<1>6. /\ ofile'[p][d] = f /\ \A q \in Users \ {p} : ofile'[q] = ofile[q]
      /\ \A q \in Users, e \in Fds : <<q, e>> # <<p, d>> => ofile'[q][e] = ofile[q][e]
      /\ ofile' \in [Users -> [Fds -> Files \cup {NoFile}]]
  BY <1>3, <1>5
<1>T. FTTypeOK'
  <2>1. fref' \in [Files -> Nat]
    BY <1>2, <1>3
  <2> QED BY <1>0, <1>2, <1>6, <2>1 DEF FTTypeOK
<1>J. JobsInv'
  <2>1. JobShape(job'[p])
    BY <1>0, <1>2 DEF JobsInv
  <2> QED BY <1>0, <1>2, <1>4, <1>6, <2>1, JobsKept
<1>R. RefsCounted'
  <2> SUFFICES ASSUME NEW g \in Files
               PROVE  /\ fref'[g] = Cardinality(DescriptorRefs(g)') + Cardinality(JobRefs(g)')
                      /\ fref'[g] = 0 => what'[g] = Nothing
    BY DEF RefsCounted
  <2>1. fref'[g] = fref[g] + Is(f, g) /\ fref[g] \in Nat /\ Is(f, g) \in Nat
    BY <1>2, <1>3 DEF Is
  <2>2. JobRefs(g)' = JobRefs(g)
    BY <1>2 DEF JobRefs
  <2>3. /\ Cardinality(DescriptorRefs(g)) \in Nat /\ Cardinality(DescriptorRefs(g)') \in Nat
        /\ Cardinality(DescriptorRefs(g)') + Is(ofile[p][d], g)
              = Cardinality(DescriptorRefs(g)) + Is(ofile'[p][d], g)
    BY <1>6, FdStep
  <2>4. Is(ofile[p][d], g) = 0
    BY <1>5, FileTableAssumption DEF Is
  <2>5. /\ fref[g] = Cardinality(DescriptorRefs(g)) + Cardinality(JobRefs(g))
        /\ Cardinality(JobRefs(g)) \in Nat
        /\ fref[g] = 0 => what[g] = Nothing
    BY <1>0, RefsFinite DEF RefsCounted
  <2>6. fref'[g] = Cardinality(DescriptorRefs(g)') + Cardinality(JobRefs(g)')
    BY <1>6, <2>1, <2>2, <2>3, <2>4, <2>5
  <2>7. fref'[g] = 0 => what'[g] = Nothing
    BY <1>2, <2>1, <2>5
  <2> QED BY <2>6, <2>7
<1>N. NewIsOwn'
  <2>1. Own(p)'
    BY <1>2, <1>4 DEF Own
  <2>2. ASSUME NEW q \in Users \ {p}, job[q].at \in {"pipe", "opened"},
               NEW k \in 1 .. Len(job[q].new)
        PROVE  fref'[job[q].new[k]] = fref[job[q].new[k]]
    <3>1. job[q].new[k] \in Files /\ job[q].new[k] # f
      BY <1>0, <1>1, <2>2, Alone
    <3> QED BY <1>2, <1>3, <3>1
  <2> QED BY <1>0, <1>2, <1>6, <2>1, <2>2, OwnKept
<1>E. EndsOwned' /\ NodesCounted'
  BY <1>0, <1>2, StandsKept
<1> QED BY <1>T, <1>J, <1>R, <1>N, <1>E DEF FilesIInv

\* A descriptor is given up and its file is to be closed: close(), exit().
LEMMA GivenUp ==
    ASSUME FilesIInv, NEW p \in Users, NEW d \in Fds, ofile[p][d] # NoFile, p \in live,
           job[p].at \in {"user", "exit"}, job[p].drop = <<>>, job[p].last = Nothing,
           ofile' = [ofile EXCEPT ![p][d] = NoFile],
           NEW a \in {"end", "exit"}, JobNext(p, a, <<>>, {}, <<ofile[p][d]>>, Nothing),
           UNCHANGED <<fref, what, live, ends, iref>>
    PROVE  FilesIInv'
<1>0. FTTypeOK /\ JobsInv /\ RefsCounted /\ NewIsOwn /\ EndsOwned /\ NodesCounted
  BY DEF FilesIInv
<1>1. PICK f : f = ofile[p][d]
  OBVIOUS
<1>2. ofile \in [Users -> [Fds -> Files \cup {NoFile}]] /\ f \in Files
  BY <1>0, <1>1 DEF FTTypeOK
<1>3. /\ ofile'[p][d] = NoFile /\ \A q \in Users \ {p} : ofile'[q] = ofile[q]
      /\ \A q \in Users, e \in Fds : <<q, e>> # <<p, d>> => ofile'[q][e] = ofile[q][e]
      /\ ofile' \in [Users -> [Fds -> Files \cup {NoFile}]]
  BY <1>2
<1>4. JobNext(p, a, <<>>, {}, <<f>>, Nothing)
  BY <1>1
<1>5. job[p].ip = {}
  BY <1>0 DEF JobsInv, JobShape
<1>T. FTTypeOK'
  <2>1. Nothing \in Whats /\ <<>> \in Seq(Files) /\ <<f>> \in Seq(Files) /\ {} \in SUBSET Inodes
    BY <1>2 DEF Whats
  <2>2. a \in {"user", "pipe", "open", "opened", "end", "exit"}
    OBVIOUS
  <2>3. job' \in [Users ->
              [at : {"user", "pipe", "open", "opened", "end", "exit"}, new : Seq(Files),
               ip : SUBSET Inodes, drop : Seq(Files), last : Whats]]
    BY <1>0, <1>4, <2>1, <2>2, JobsTyped
  <2> QED BY <1>0, <1>3, <2>3 DEF FTTypeOK
<1>J. JobsInv'
  <2>1. JobShape(job'[p])
    BY <1>4 DEF JobShape, JobNext
  <2> QED BY <1>0, <1>3, <1>4, <2>1, JobsKept DEF JobNext
<1>R. RefsCounted'
  <2> SUFFICES ASSUME NEW g \in Files
               PROVE  fref[g] = Cardinality(DescriptorRefs(g)') + Cardinality(JobRefs(g)')
    BY <1>0 DEF RefsCounted
  <2>1. job'[p].at # "pipe" /\ job'[p].drop = <<f>>
    BY <1>4 DEF JobNext
  <2>2. Weight(InHand(job[p]), g) = 0
    <3>1. Weight(InHand(job[p]), g) = Both(<<>>, g)
      BY HandWeight
    <3> QED BY <3>1, BothOf
  <2>3. Weight(InHand(job'[p]), g) = Is(f, g)
    <3>1. Weight(InHand(job'[p]), g) = Both(<<f>>, g)
      BY <2>1, HandWeight
    <3> QED BY <1>2, <3>1, BothOf
  <2>4. /\ Cardinality(JobRefs(g)) \in Nat /\ Cardinality(JobRefs(g)') \in Nat
        /\ Cardinality(JobRefs(g)') + Weight(InHand(job[p]), g)
              = Cardinality(JobRefs(g)) + Weight(InHand(job'[p]), g)
    BY <1>4, HandStep DEF JobNext
  <2>5. /\ Cardinality(DescriptorRefs(g)) \in Nat /\ Cardinality(DescriptorRefs(g)') \in Nat
        /\ Cardinality(DescriptorRefs(g)') + Is(ofile[p][d], g)
              = Cardinality(DescriptorRefs(g)) + Is(ofile'[p][d], g)
    BY <1>3, FdStep
  <2>6. Is(ofile'[p][d], g) = 0 /\ Is(f, g) \in Nat
    BY <1>3, FileTableAssumption DEF Is
  <2>7. fref[g] = Cardinality(DescriptorRefs(g)) + Cardinality(JobRefs(g))
    BY <1>0 DEF RefsCounted
  <2> QED BY <1>1, <2>2, <2>3, <2>4, <2>5, <2>6, <2>7
<1>N. NewIsOwn'
  <2>1. Own(p)'
    BY <1>4 DEF Own, JobNext
  <2> QED BY <1>0, <1>3, <1>4, <2>1, OwnKept DEF JobNext
<1>E. EndsOwned' /\ NodesCounted'
  <2>1. job'[p].last = Nothing /\ job'[p].ip = {}
    BY <1>4 DEF JobNext
  <2> QED BY <1>0, <1>4, <1>5, <2>1, StandsKept DEF JobNext
<1> QED BY <1>T, <1>J, <1>R, <1>N, <1>E DEF FilesIInv

LEMMA CloseKeeps ==
    ASSUME FilesIInv, NEW p \in Users, NEW d \in Fds, Close(p, d)
    PROVE  FilesIInv'
<1>0. FTTypeOK /\ JobsInv
  BY DEF FilesIInv
<1>1. /\ Ready(p) /\ ofile[p][d] # NoFile /\ ofile' = [ofile EXCEPT ![p][d] = NoFile]
      /\ Drop(p, <<ofile[p][d]>>)
      /\ UNCHANGED <<fref, what, live, ends, iref>>
  BY DEF Close
<1>2. /\ p \in live /\ job[p].at = "user" /\ job[p].new = <<>> /\ job[p].ip = {}
      /\ job[p].drop = <<>> /\ job[p].last = Nothing
  BY <1>0, <1>1, NothingInHand
<1>3. JobNext(p, "end", <<>>, {}, <<ofile[p][d]>>, Nothing)
  BY <1>0, <1>1, <1>2, DropIs
<1> QED BY <1>1, <1>2, <1>3, GivenUp

\* exit() closes its lowest open descriptor.
LEMMA ExitCloseKeeps ==
    ASSUME FilesIInv, NEW p \in Users, ExitClose(p)
    PROVE  FilesIInv'
<1>0. FTTypeOK /\ JobsInv
  BY DEF FilesIInv
<1>1. PICK d : d = Lowest(Fds \ FreeFds(p))
  OBVIOUS
<1>2. /\ job[p].at = "exit" /\ job[p].drop = <<>> /\ job[p].last = Nothing
      /\ FreeFds(p) # Fds
      /\ ofile' = [ofile EXCEPT ![p][d] = NoFile]
      /\ job' = [job EXCEPT ![p].drop = <<ofile[p][d]>>]
      /\ UNCHANGED <<fref, what, live, ends, iref>>
  BY <1>1 DEF ExitClose, At
<1>3. d \in Fds \ FreeFds(p)
  <2>1. Fds \ FreeFds(p) # {}
    BY <1>2 DEF FreeFds
  <2> QED BY <1>1, <2>1, LowestIn
<1>4. d \in Fds /\ ofile[p][d] # NoFile
  BY <1>3 DEF FreeFds
<1>5. p \in live /\ job[p].new = <<>> /\ job[p].ip = {}
  BY <1>0, <1>2, Lives DEF JobsInv, JobShape
<1>6. JobNext(p, "exit", <<>>, {}, <<ofile[p][d]>>, Nothing)
  BY <1>0, <1>2, <1>5 DEF JobNext, FTTypeOK
<1> QED BY <1>2, <1>4, <1>5, <1>6, GivenUp

\* exit() begins.
LEMMA ExitKeeps ==
    ASSUME FilesIInv, NEW p \in Users, Exit(p)
    PROVE  FilesIInv'
<1>0. FTTypeOK /\ JobsInv /\ RefsCounted /\ NewIsOwn /\ EndsOwned /\ NodesCounted
  BY DEF FilesIInv
<1>1. /\ Ready(p) /\ job' = [job EXCEPT ![p].at = "exit"]
      /\ UNCHANGED <<fref, what, ofile, live, ends, iref>>
  BY DEF Exit, Go
<1>2. /\ p \in live /\ job[p].at = "user" /\ job[p].new = <<>> /\ job[p].ip = {}
      /\ job[p].drop = <<>> /\ job[p].last = Nothing
  BY <1>0, <1>1, NothingInHand
<1>5. JobNext(p, "exit", <<>>, {}, job[p].drop, Nothing)
  BY <1>0, <1>1, <1>2 DEF JobNext, FTTypeOK
<1>T. FTTypeOK'
  <2>1. Nothing \in Whats /\ <<>> \in Seq(Files) /\ {} \in SUBSET Inodes
    BY DEF Whats
  <2>2. job' \in [Users ->
              [at : {"user", "pipe", "open", "opened", "end", "exit"}, new : Seq(Files),
               ip : SUBSET Inodes, drop : Seq(Files), last : Whats]]
    BY <1>0, <1>2, <1>5, <2>1, JobsTyped
  <2> QED BY <1>0, <1>1, <2>2 DEF FTTypeOK
<1>J. JobsInv'
  <2>1. JobShape(job'[p])
    BY <1>2, <1>5 DEF JobShape, JobNext
  <2> QED BY <1>0, <1>1, <1>2, <1>5, <2>1, JobsKept DEF JobNext
<1>R. RefsCounted'
  <2>1. \A f \in Files : /\ Weight(InHand(job[p]), f) \in Nat
                         /\ Weight(InHand(job'[p]), f) = Weight(InHand(job[p]), f)
    BY <1>0, <1>2, <1>5, SameHand
  <2> QED BY <1>0, <1>1, <1>5, <2>1, RefsKept DEF JobNext
<1>N. NewIsOwn'
  <2>1. Own(p)'
    BY <1>5 DEF Own, JobNext
  <2> QED BY <1>0, <1>1, <1>5, <2>1, OwnKept DEF JobNext
<1>E. EndsOwned' /\ NodesCounted'
  <2>1. job'[p].last = Nothing /\ job'[p].ip = {}
    BY <1>5 DEF JobNext
  <2> QED BY <1>0, <1>1, <1>2, <1>5, <2>1, StandsKept DEF JobNext
<1> QED BY <1>T, <1>J, <1>R, <1>N, <1>E DEF FilesIInv

\* exit() ends.
LEMMA ExitedKeeps ==
    ASSUME FilesIInv, NEW p \in Users, Exited(p)
    PROVE  FilesIInv'
<1>0. FTTypeOK /\ JobsInv /\ RefsCounted /\ NewIsOwn /\ EndsOwned /\ NodesCounted
  BY DEF FilesIInv
<1>1. /\ job[p].at = "exit" /\ job[p].drop = <<>> /\ job[p].last = Nothing
      /\ FreeFds(p) = Fds
      /\ live' = live \ {p} /\ job' = [job EXCEPT ![p] = User]
      /\ UNCHANGED <<fref, what, ofile, ends, iref>>
  BY DEF Exited, At
<1>2. job[p].ip = {}
  BY <1>0, <1>1 DEF JobsInv, JobShape
<1>5. JobNext(p, "user", <<>>, {}, job[p].drop, Nothing)
  BY <1>0, <1>1 DEF JobNext, FTTypeOK, User
<1>6. job'[p] = User /\ \A q \in Users \ {p} : job'[q] = job[q]
  BY <1>0, <1>1 DEF FTTypeOK
<1>T. FTTypeOK'
  <2>1. Nothing \in Whats /\ <<>> \in Seq(Files) /\ {} \in SUBSET Inodes
    BY DEF Whats
  <2>2. job' \in [Users ->
              [at : {"user", "pipe", "open", "opened", "end", "exit"}, new : Seq(Files),
               ip : SUBSET Inodes, drop : Seq(Files), last : Whats]]
    BY <1>0, <1>1, <1>5, <2>1, JobsTyped
  <2> QED BY <1>0, <1>1, <2>2 DEF FTTypeOK
<1>J. JobsInv'
  <2> SUFFICES ASSUME NEW q \in Users
               PROVE  /\ JobShape(job'[q])
                      /\ q \notin live' => job'[q] = User /\ FreeFds(q)' = Fds
    BY DEF JobsInv, JobShape, User
  <2>1. FreeFds(q)' = FreeFds(q)
    BY <1>1 DEF FreeFds
  <2>2. CASE q = p
    <3>1. JobShape(User)
      BY EmptySeq DEF JobShape, User
    <3> QED BY <1>1, <1>6, <2>1, <2>2, <3>1
  <2>3. CASE q # p
    BY <1>0, <1>1, <1>6, <2>1, <2>3 DEF JobsInv
  <2> QED BY <2>2, <2>3
<1>R. RefsCounted'
  <2>1. \A f \in Files : /\ Weight(InHand(job[p]), f) \in Nat
                         /\ Weight(InHand(job'[p]), f) = Weight(InHand(job[p]), f)
    BY <1>0, <1>1, <1>5, SameHand
  <2> QED BY <1>0, <1>1, <1>5, <2>1, RefsKept DEF JobNext
<1>N. NewIsOwn'
  <2>1. Own(p)'
    BY <1>5 DEF Own, JobNext
  <2> QED BY <1>0, <1>1, <1>5, <2>1, OwnKept DEF JobNext
<1>E. EndsOwned' /\ NodesCounted'
  <2>1. job'[p].last = Nothing /\ job'[p].ip = {}
    BY <1>5 DEF JobNext
  <2> QED BY <1>0, <1>1, <1>2, <1>5, <2>1, StandsKept DEF JobNext
<1> QED BY <1>T, <1>J, <1>R, <1>N, <1>E DEF FilesIInv

\* fork() shares every descriptor with the child.
LEMMA ForkKeeps ==
    ASSUME FilesIInv, NEW p \in Users, NEW q \in Users, Fork(p, q)
    PROVE  FilesIInv'
<1>0. FTTypeOK /\ JobsInv /\ RefsCounted /\ NewIsOwn /\ EndsOwned /\ NodesCounted
  BY DEF FilesIInv
<1>1. /\ Ready(p) /\ q \notin live /\ job[q] = User /\ live' = live \cup {q}
      /\ fref' = [f \in Files |-> fref[f] + Holds(p, f)]
      /\ ofile' = [ofile EXCEPT ![q] = ofile[p]]
      /\ UNCHANGED <<what, ends, iref, job>>
  BY DEF Fork, Shared
<1>2. /\ fref \in [Files -> Nat] /\ ofile \in [Users -> [Fds -> Files \cup {NoFile}]]
      /\ live \subseteq Users /\ p \in live /\ p # q /\ job[p].at = "user"
  BY <1>0, <1>1 DEF FTTypeOK, Ready
<1>3. \A d \in Fds : ofile[q][d] = NoFile
  BY <1>0, <1>1 DEF JobsInv, FreeFds
<1>4. /\ \A d \in Fds : ofile'[q][d] = ofile[p][d]
      /\ \A r \in Users \ {q} : ofile'[r] = ofile[r]
      /\ ofile' \in [Users -> [Fds -> Files \cup {NoFile}]]
  BY <1>1, <1>2
<1>5. \A f : IsFiniteSet({d \in Fds : ofile[p][d] = f}) /\ Holds(p, f) \in Nat
  <2> TAKE f
  <2>1. {d \in Fds : ofile[p][d] = f} \in SUBSET Fds
    OBVIOUS
  <2>2. IsFiniteSet({d \in Fds : ofile[p][d] = f})
    BY <2>1, FileTableAssumption, FS_Subset
  <2> QED BY <2>2, FS_CardinalityType DEF Holds
<1>T. FTTypeOK'
  <2>1. fref' \in [Files -> Nat]
    <3>1. \A f \in Files : Holds(p, f) \in Nat
      BY <1>5
    <3>2. \A f \in Files : fref[f] + Holds(p, f) \in Nat
      BY <1>2, <3>1
    <3> QED BY <1>1, <3>2
  <2>2. live' \subseteq Users
    BY <1>1, <1>2
  <2> QED BY <1>0, <1>1, <1>4, <2>1, <2>2 DEF FTTypeOK
<1>J. JobsInv'
  <2> SUFFICES ASSUME NEW r \in Users
               PROVE  /\ JobShape(job[r])
                      /\ r \notin live' => job[r] = User /\ FreeFds(r)' = Fds
    BY <1>1 DEF JobsInv
  <2>1. CASE r = q
    BY <1>0, <1>1, <2>1 DEF JobsInv
  <2>2. CASE r # q
    BY <1>0, <1>1, <1>4, <2>2 DEF JobsInv, FreeFds
  <2> QED BY <2>1, <2>2
<1>R. RefsCounted'
  <2> SUFFICES ASSUME NEW f \in Files
               PROVE  /\ fref'[f] = Cardinality(DescriptorRefs(f)') + Cardinality(JobRefs(f)')
                      /\ fref'[f] = 0 => what'[f] = Nothing
    BY DEF RefsCounted
  <2> DEFINE S == {d \in Fds : ofile[p][d] = f}
             D == DescriptorRefs(f)
             N == {q} \X S
  <2>1. f # NoFile
    BY FileTableAssumption
  <2>2. DescriptorRefs(f)' = D \cup N
    <3>1. ASSUME NEW r \in Users, NEW d \in Fds
          PROVE  ofile'[r][d] = f <=> (ofile[r][d] = f \/ (r = q /\ ofile[p][d] = f))
      BY <1>3, <1>4, <2>1
    <3>2. \A x \in Users \X Fds : x \in DescriptorRefs(f)' <=> x \in D \/ x \in N
      BY <3>1 DEF DescriptorRefs
    <3>3. DescriptorRefs(f)' \subseteq Users \X Fds /\ D \subseteq Users \X Fds
          /\ N \subseteq Users \X Fds
      BY DEF DescriptorRefs
    <3> HIDE DEF D, N
    <3> QED BY <3>2, <3>3
  <2>3. D \cap N = {}
    BY <1>3, <2>1 DEF DescriptorRefs
  <2>4. IsFiniteSet(S) /\ Cardinality(S) = Holds(p, f) /\ Holds(p, f) \in Nat
    BY <1>5 DEF Holds
  <2>5. IsFiniteSet({q}) /\ Cardinality({q}) = 1
    BY FS_Singleton
  <2>6. IsFiniteSet(D) /\ Cardinality(D) \in Nat
    BY RefsFinite
  <2> HIDE DEF S, D
  <2>7. IsFiniteSet(N) /\ Cardinality(N) = 1 * Cardinality(S)
    BY <2>4, <2>5, FS_Product
  <2>8. Cardinality(N) = Holds(p, f)
    BY <2>4, <2>7
  <2> HIDE DEF N
  <2>9. Cardinality(D \cup N) = Cardinality(D) + Cardinality(N) - Cardinality(D \cap N)
    BY <2>6, <2>7, FS_Union
  <2>10. Cardinality(D \cap N) = 0
    BY <2>3, FS_EmptySet
  <2>11. Cardinality(DescriptorRefs(f)') = Cardinality(D) + Holds(p, f)
    BY <2>2, <2>4, <2>6, <2>8, <2>9, <2>10
  <2>12. JobRefs(f)' = JobRefs(f)
    BY <1>1 DEF JobRefs
  <2>13. /\ fref[f] = Cardinality(D) + Cardinality(JobRefs(f))
         /\ Cardinality(JobRefs(f)) \in Nat
         /\ fref[f] = 0 => what[f] = Nothing
    BY <1>0, RefsFinite DEF RefsCounted, D
  <2>14. fref'[f] = fref[f] + Holds(p, f) /\ fref[f] \in Nat
    BY <1>1, <1>2
  <2>15. fref'[f] = Cardinality(DescriptorRefs(f)') + Cardinality(JobRefs(f)')
    BY <2>4, <2>6, <2>11, <2>12, <2>13, <2>14
  <2>16. fref'[f] = 0 => what'[f] = Nothing
    BY <1>1, <2>4, <2>13, <2>14
  <2> QED BY <2>15, <2>16
<1>N. NewIsOwn'
  <2> SUFFICES ASSUME NEW r \in Users PROVE Own(r)'
    BY DEF NewIsOwn, Own
  <2>1. CASE job[r].at \notin {"pipe", "opened"}
    BY <1>1, <2>1 DEF Own
  <2>2. CASE job[r].at \in {"pipe", "opened"}
    <3>1. r # q /\ r # p
      BY <1>1, <1>2, <2>2 DEF User
    <3>2. ASSUME NEW k \in 1 .. Len(job[r].new)
          PROVE  what[job[r].new[k]] = Nothing /\ fref'[job[r].new[k]] = 1
      <4>1. /\ job[r].new[k] \in Files /\ fref[job[r].new[k]] = 1
            /\ what[job[r].new[k]] = Nothing
            /\ \A d \in Fds : ofile[p][d] # job[r].new[k]
        BY <1>0, <2>2, <3>1, Alone
      <4>2. Holds(p, job[r].new[k]) = 0
        <5>1. {d \in Fds : ofile[p][d] = job[r].new[k]} = {}
          BY <4>1
        <5> QED BY <5>1, FS_EmptySet DEF Holds
      <4> QED BY <1>1, <4>1, <4>2
    <3>3. job[r].at = "opened" => \E d \in Fds : ofile'[r][d] = job[r].new[1]
      BY <1>0, <1>4, <3>1 DEF NewIsOwn
    <3> QED BY <1>1, <3>2, <3>3 DEF Own
  <2> QED BY <2>1, <2>2
<1>E. EndsOwned' /\ NodesCounted'
  BY <1>0, <1>1, StandsKept
<1> QED BY <1>T, <1>J, <1>R, <1>N, <1>E DEF FilesIInv

-----------------------------------------------------------------------------
(***************************************************************************)
(* The invariant.                                                          *)
(***************************************************************************)
LEMMA InitFiles == FTInit => FilesIInv
<1> SUFFICES ASSUME FTInit PROVE FilesIInv
  OBVIOUS
<1>1. /\ fref = [f \in Files |-> 0] /\ what = [f \in Files |-> Nothing]
      /\ ofile = [p \in Users |-> [d \in Fds |-> NoFile]]
      /\ ends = [g \in Pages |-> {}] /\ iref = [i \in Inodes |-> 0]
      /\ job = [p \in Users |-> User] /\ live \subseteq Users
  BY DEF FTInit, NoneOpen
<1>2. /\ Nothing \in Whats /\ <<>> \in Seq(Files) /\ Len(<<>>) = 0
  BY EmptySeq DEF Whats
<1>3. /\ User.at = "user" /\ User.new = <<>> /\ User.ip = {} /\ User.drop = <<>>
      /\ User.last = Nothing
      /\ User \in [at : {"user", "pipe", "open", "opened", "end", "exit"}, new : Seq(Files),
                   ip : SUBSET Inodes, drop : Seq(Files), last : Whats]
  BY <1>2 DEF User
<1>4. FTTypeOK
  BY <1>1, <1>2, <1>3 DEF FTTypeOK
<1>5. JobsInv
  <2>1. JobShape(User)
    BY <1>2, <1>3 DEF JobShape
  <2> QED BY <1>1, <2>1 DEF JobsInv, FreeFds
<1>6. RefsCounted
  <2> SUFFICES ASSUME NEW f \in Files
               PROVE  /\ Cardinality(DescriptorRefs(f)) = 0 /\ Cardinality(JobRefs(f)) = 0
    BY <1>1 DEF RefsCounted
  <2>1. f # NoFile
    BY FileTableAssumption
  <2>2. DescriptorRefs(f) = {}
    BY <1>1, <2>1 DEF DescriptorRefs
  <2>3. \A s \in Spots : InHand(User)[s] = NoFile
    BY <1>2, <1>3 DEF Spots, InHand, Nth
  <2>4. JobRefs(f) = {}
    BY <1>1, <2>1, <2>3 DEF JobRefs
  <2> QED BY <2>2, <2>4, FS_EmptySet
<1>7. NewIsOwn
  BY <1>1, <1>3 DEF NewIsOwn
<1>8. \A v : v # Nothing => Cardinality(Owners(v)) = 0
  <2>1. \A v : v # Nothing => Owners(v) = {}
    BY <1>1, <1>3 DEF Owners
  <2> QED BY <2>1, FS_EmptySet
<1>9. EndsOwned
  <2>1. \A g \in Pages, e \in {"r", "w"} : In(e, ends[g]) = 0
    BY <1>1 DEF In
  <2> QED BY <1>8, <2>1, Kinds, InWords
<1>10. NodesCounted
  <2>1. \A i : Openers(i) = {}
    BY <1>1, <1>3 DEF Openers
  <2>2. \A i : Cardinality(Openers(i)) = 0
    BY <2>1, FS_EmptySet
  <2> QED BY <1>1, <1>8, <2>2, Kinds, InWords
<1> QED BY <1>4, <1>5, <1>6, <1>7, <1>9, <1>10 DEF FilesIInv

LEMMA FilesStep == FilesIInv /\ [FTNext]_ftvars => FilesIInv'
<1> SUFFICES ASSUME FilesIInv, [FTNext]_ftvars PROVE FilesIInv'
  OBVIOUS
<1>1. CASE FTNext
  <2>1. PICK p \in Users :
           \/ FilecloseRef(p) \/ FileclosePipe(p) \/ FilecloseInode(p) \/ CallEnds(p)
           \/ PipeStart(p) \/ PipeFile(p) \/ PipeNoPage(p) \/ PipeMade(p)
           \/ \E i \in Inodes : OpenStart(p, i)
           \/ OpenFile(p) \/ OpenFill(p)
           \/ \E d \in Fds : Dup(p, d) \/ Close(p, d)
           \/ \E q \in Users : Fork(p, q)
           \/ Exit(p) \/ ExitClose(p) \/ Exited(p)
    BY <1>1 DEF FTNext
  <2>2. CASE FilecloseRef(p) \/ FileclosePipe(p) \/ FilecloseInode(p) \/ CallEnds(p)
    BY <2>2, FilecloseRefKeeps, FileclosePipeKeeps, FilecloseInodeKeeps, CallEndsKeeps
  <2>3. CASE PipeStart(p) \/ PipeFile(p) \/ PipeNoPage(p) \/ PipeMade(p)
    BY <2>3, PipeStartKeeps, PipeFileKeeps, PipeNoPageKeeps, PipeMadeKeeps
  <2>4. CASE OpenFile(p) \/ OpenFill(p) \/ \E i \in Inodes : OpenStart(p, i)
    BY <2>4, OpenFileKeeps, OpenFillKeeps, OpenStartKeeps
  <2>5. CASE \E d \in Fds : Dup(p, d) \/ Close(p, d)
    BY <2>5, DupKeeps, CloseKeeps
  <2>6. CASE \E q \in Users : Fork(p, q)
    BY <2>6, ForkKeeps
  <2>7. CASE Exit(p) \/ ExitClose(p) \/ Exited(p)
    BY <2>7, ExitKeeps, ExitCloseKeeps, ExitedKeeps
  <2> QED BY <2>1, <2>2, <2>3, <2>4, <2>5, <2>6, <2>7
<1>2. CASE UNCHANGED ftvars
  <2>1. UNCHANGED <<fref, what, ofile, live, ends, iref, job>>
    BY <1>2 DEF ftvars
  <2>2. FTTypeOK'
    BY <2>1 DEF FilesIInv, FTTypeOK
  <2>3. JobsInv'
    BY <2>1 DEF FilesIInv, JobsInv, FreeFds
  <2>4. RefsCounted'
    BY <2>1 DEF FilesIInv, RefsCounted, DescriptorRefs, JobRefs
  <2>5. NewIsOwn'
    BY <2>1 DEF FilesIInv, NewIsOwn
  <2>6. EndsOwned' /\ NodesCounted'
    BY <2>1 DEF FilesIInv, EndsOwned, EndOwners, NodesCounted
  <2> QED BY <2>2, <2>3, <2>4, <2>5, <2>6 DEF FilesIInv
<1> QED BY <1>1, <1>2

\* Whatever calls run at the same time, and whatever runs out half way: a file's
\* count is the number of its descriptors and of the calls that have yet to install
\* it or to close it, a new file is alone in the hands of its call, each open end of
\* a pipe has one file or one process about to close it, and an inode has one
\* reference for each file, each close and each open() that holds it (file.c, pipe.c,
\* sysfile.c, fork() and exit() in proc.c).
THEOREM FilesInvariant == FTSpec => []FilesIInv
BY InitFiles, FilesStep, PTL DEF FTSpec

(***************************************************************************)
(* The contents of files.                                                  *)
(***************************************************************************)

LEMMA Limits ==
    /\ BSIZE \in Nat /\ BSIZE > 0 /\ NDIRECT \in Nat /\ NDIRECT > 0
    /\ NINDIRECT \in Nat /\ NINDIRECT > 0 /\ NBLOCKS \in Nat
    /\ MAXFILE \in Nat /\ MAXFILE = NDIRECT + NINDIRECT
    /\ MAXOPBLOCKS \in Nat /\ MAXOPBLOCKS > 6 /\ NoWriter \notin Writers
    /\ Lengths \subseteq Nat \ {0}
BY FileDataAssumption DEF MAXFILE

\* Positions and blocks.
LEMMA InBlocks ==
    /\ \A a \in Nat : /\ a \div BSIZE \in Nat /\ (a \div BSIZE) * BSIZE \in Nat
                      /\ (a \div BSIZE) * BSIZE <= a /\ a < (a \div BSIZE) * BSIZE + BSIZE
                      /\ a % BSIZE = a - (a \div BSIZE) * BSIZE
                      /\ a % BSIZE \in 0 .. BSIZE - 1
    /\ \A n, k \in Nat : n * BSIZE \in Nat /\ (n < k <=> n * BSIZE < k * BSIZE)
    /\ \A k \in Nat : (k + 1) * BSIZE = k * BSIZE + BSIZE
    /\ \A n, k \in Nat : (n + k) * BSIZE = n * BSIZE + k * BSIZE
<1>1. \A a \in Nat : a \div BSIZE \in Nat /\ (a \div BSIZE) * BSIZE \in Nat
                      /\ (a \div BSIZE) * BSIZE <= a /\ a < (a \div BSIZE) * BSIZE + BSIZE
                      /\ a % BSIZE = a - (a \div BSIZE) * BSIZE
  BY Limits
<1>2. \A n, k \in Nat : n * BSIZE \in Nat /\ (n < k <=> n * BSIZE < k * BSIZE)
  BY Limits
<1>3. \A k \in Nat : (k + 1) * BSIZE = k * BSIZE + BSIZE
  BY Limits
<1>4. \A n, k \in Nat : (n + k) * BSIZE = n * BSIZE + k * BSIZE
  BY Limits
<1>5. \A a \in Nat : a % BSIZE \in 0 .. BSIZE - 1
  BY Limits
<1> QED BY <1>1, <1>2, <1>3, <1>4, <1>5

\* The block of a position is the only one around it.
LEMMA BlockOf ==
    ASSUME NEW a \in Nat, NEW k \in Nat
    PROVE  k * BSIZE <= a /\ a < k * BSIZE + BSIZE <=> k = a \div BSIZE
<1> DEFINE d == a \div BSIZE
<1>1. d \in Nat /\ d * BSIZE \in Nat /\ d * BSIZE <= a /\ a < d * BSIZE + BSIZE
  BY InBlocks
<1>2. (d + 1) * BSIZE = d * BSIZE + BSIZE /\ (k + 1) * BSIZE = k * BSIZE + BSIZE
  BY <1>1, InBlocks
<1>3. k * BSIZE \in Nat /\ BSIZE \in Nat
  BY Limits, InBlocks
<1>4. (d + 1 <= k => (d + 1) * BSIZE <= k * BSIZE) /\ (k + 1 <= d => (k + 1) * BSIZE <= d * BSIZE)
  <2>1. d + 1 \in Nat /\ k + 1 \in Nat
    BY <1>1
  <2>2. (d + 1 < k => (d + 1) * BSIZE < k * BSIZE) /\ (k + 1 < d => (k + 1) * BSIZE < d * BSIZE)
    BY <1>1, <2>1, InBlocks
  <2> HIDE DEF d
  <2> QED BY <1>1, <1>2, <1>3, <2>1, <2>2
<1> HIDE DEF d
<1>5. k = d => k * BSIZE = d * BSIZE
  OBVIOUS
<1>6. k * BSIZE <= a /\ a < k * BSIZE + BSIZE <=> k = d
  <2>1. CASE k = d
    BY <1>1, <1>5, <2>1
  <2>2. CASE k < d
    BY <1>1, <1>2, <1>3, <1>4, <2>2
  <2>3. CASE d < k
    BY <1>1, <1>2, <1>3, <1>4, <2>3
  <2> QED BY <1>1, <2>1, <2>2, <2>3
<1> QED BY <1>6 DEF d

LEMMA Ordered ==
    ASSUME NEW a \in Nat, NEW e \in Nat, a <= e
    PROVE  a \div BSIZE \in Nat /\ e \div BSIZE \in Nat /\ a \div BSIZE <= e \div BSIZE
<1> DEFINE x == a \div BSIZE
           y == e \div BSIZE
<1>1. /\ x \in Nat /\ x * BSIZE \in Nat /\ x * BSIZE <= a
      /\ y \in Nat /\ y * BSIZE \in Nat /\ e < y * BSIZE + BSIZE
      /\ BSIZE \in Nat /\ y + 1 \in Nat
  BY InBlocks, Limits
<1>2. (y + 1) * BSIZE = y * BSIZE + BSIZE
  BY <1>1, InBlocks
<1> HIDE DEF x, y
<1>3. x * BSIZE < (y + 1) * BSIZE
  BY <1>1, <1>2
<1>4. x < y + 1
  BY <1>1, <1>3, InBlocks
<1>5. x <= y
  BY <1>1, <1>4
<1> QED BY <1>1, <1>5 DEF x, y

\* A position in a file is in one of its blocks.
LEMMA InFile ==
    ASSUME NEW a \in Nat, a < MAXFILE * BSIZE
    PROVE  a \div BSIZE \in 0 .. MAXFILE - 1
<1>1. (a \div BSIZE) \in Nat /\ (a \div BSIZE) * BSIZE \in Nat /\ (a \div BSIZE) * BSIZE <= a
  BY InBlocks
<1>2. MAXFILE \in Nat /\ MAXFILE * BSIZE \in Nat
  BY Limits, InBlocks
<1>3. (a \div BSIZE) * BSIZE < MAXFILE * BSIZE
  BY <1>1, <1>2
<1>4. a \div BSIZE < MAXFILE
  BY <1>1, <1>2, <1>3, InBlocks
<1> QED BY <1>1, <1>2, <1>4

(***************************************************************************)
(* Who has which block.                                                    *)
(***************************************************************************)

LEMMA BlockType ==
    ASSUME FDTypeOK, NEW i \in Disk
    PROVE  /\ \A k \in BlockPlaces : BlockAt(i, k) \in Block \cup {0}
           /\ \A k \in 0 .. MAXFILE - 1 : Mapped(i, k) \in Block \cup {0}
<1>1. addrs[i] \in [0 .. NDIRECT -> Block \cup {0}] /\ NDIRECT \in 0 .. NDIRECT
  BY Limits DEF FDTypeOK
<1>2. \A k \in 0 .. NINDIRECT - 1 :
         addrs[i][NDIRECT] # 0 => ents[addrs[i][NDIRECT]][k] \in Block \cup {0}
  <2>1. PICK x : x = addrs[i][NDIRECT]
    OBVIOUS
  <2>2. x \in Block \cup {0}
    BY <1>1, <2>1
  <2>3. x # 0 => ents[x] \in [0 .. NINDIRECT - 1 -> Block \cup {0}]
    BY <2>2 DEF FDTypeOK
  <2> QED BY <2>1, <2>3
<1>3. ASSUME NEW k \in BlockPlaces PROVE BlockAt(i, k) \in Block \cup {0}
  <2>1. CASE k <= NDIRECT
    BY <1>1, <2>1, Limits DEF BlockAt, BlockPlaces
  <2>2. CASE ~(k <= NDIRECT)
    <3>1. k - 1 - NDIRECT \in 0 .. NINDIRECT - 1
      BY <2>2, Limits DEF BlockPlaces
    <3> QED BY <1>2, <2>2, <3>1 DEF BlockAt
  <2> QED BY <2>1, <2>2
<1>4. ASSUME NEW k \in 0 .. MAXFILE - 1 PROVE Mapped(i, k) \in Block \cup {0}
  <2>1. CASE k < NDIRECT
    BY <1>1, <2>1, Limits DEF Mapped, Direct
  <2>2. CASE ~(k < NDIRECT)
    <3>1. k - NDIRECT \in 0 .. NINDIRECT - 1
      BY <2>2, Limits
    <3> QED BY <1>2, <2>2, <3>1 DEF Mapped, Direct
  <2> QED BY <2>1, <2>2
<1> QED BY <1>3, <1>4

\* A place of a file gets another block, from the free ones, or none.
LEMMA OwnerMoves ==
    ASSUME OneOwner, bitmap \subseteq Block,
           NEW i \in Disk, NEW k \in BlockPlaces, NEW b \in Block \cup {0}, b \notin bitmap,
           BlockAt(i, k)' = b,
           \A j \in Disk, n \in BlockPlaces : ~(j = i /\ n = k) => BlockAt(j, n)' = BlockAt(j, n),
           bitmap' = (bitmap \ {BlockAt(i, k)}) \cup ({b} \ {0})
    PROVE  OneOwner'
<1> DEFINE old(j, n) == BlockAt(j, n)
           new(j, n) == BlockAt(j, n)'
<1>1. /\ bitmap = {old(j, n) : j \in Disk, n \in BlockPlaces} \ {0}
      /\ \A j \in Disk, n \in BlockPlaces : old(j, n) # 0 =>
            \A x \in Disk, y \in BlockPlaces : old(x, y) = old(j, n) => x = j /\ y = n
  BY DEF OneOwner
<1>2. /\ new(i, k) = b
      /\ \A j \in Disk, n \in BlockPlaces : ~(j = i /\ n = k) => new(j, n) = old(j, n)
  OBVIOUS
<1>3. bitmap' = (bitmap \ {old(i, k)}) \cup ({b} \ {0})
  OBVIOUS
<1>4. BlockPlaces' = BlockPlaces
  BY DEF BlockPlaces, MAXFILE
<1> HIDE DEF old, new
<1>5. \A j \in Disk, n \in BlockPlaces : old(j, n) # 0 => old(j, n) \in bitmap
  BY <1>1
<1>6. bitmap' = {new(j, n) : j \in Disk, n \in BlockPlaces} \ {0}
  <2>1. ASSUME NEW e \in bitmap' PROVE e \in {new(j, n) : j \in Disk, n \in BlockPlaces} \ {0}
    <3>1. CASE e = b
      BY <1>2, <1>3, <2>1, <3>1
    <3>2. CASE e # b
      <4>1. e \in bitmap /\ e # old(i, k)
        BY <1>3, <2>1, <3>2
      <4>2. e # 0 /\ \E j \in Disk, n \in BlockPlaces : e = old(j, n)
        BY <1>1, <4>1
      <4> QED BY <1>2, <4>1, <4>2
    <3> QED BY <3>1, <3>2
  <2>2. ASSUME NEW j \in Disk, NEW n \in BlockPlaces, new(j, n) # 0 PROVE new(j, n) \in bitmap'
    <3>1. CASE j = i /\ n = k
      BY <1>2, <1>3, <2>2, <3>1
    <3>2. CASE ~(j = i /\ n = k)
      <4>1. new(j, n) = old(j, n)
        BY <1>2, <3>2
      <4>2. old(j, n) \in bitmap /\ old(j, n) # old(i, k)
        BY <1>1, <1>5, <2>2, <3>2, <4>1
      <4> QED BY <1>3, <4>1, <4>2
    <3> QED BY <3>1, <3>2
  <2>3. 0 \notin bitmap'
    BY <1>1, <1>3
  <2> QED BY <2>1, <2>2, <2>3
<1>7. ASSUME NEW j \in Disk, NEW n \in BlockPlaces, new(j, n) # 0,
             NEW x \in Disk, NEW y \in BlockPlaces, new(x, y) = new(j, n)
      PROVE  x = j /\ y = n
  <2>1. CASE j = i /\ n = k
    <3>1. CASE x = i /\ y = k
      BY <2>1, <3>1
    <3>2. CASE ~(x = i /\ y = k)
      BY <1>2, <1>5, <1>7, <2>1, <3>2
    <3> QED BY <3>1, <3>2
  <2>2. CASE ~(j = i /\ n = k)
    <3>1. new(j, n) = old(j, n) /\ old(j, n) \in bitmap
      BY <1>2, <1>5, <1>7, <2>2
    <3>2. ~(x = i /\ y = k)
      BY <1>2, <1>7, <3>1
    <3> QED BY <1>1, <1>2, <1>7, <3>1, <3>2
  <2> QED BY <2>1, <2>2
<1> QED BY <1>4, <1>6, <1>7 DEF OneOwner, new

LEMMA OwnersStay ==
    ASSUME OneOwner, bitmap' = bitmap,
           \A j \in Disk, n \in BlockPlaces : BlockAt(j, n)' = BlockAt(j, n)
    PROVE  OneOwner'
<1> DEFINE old(j, n) == BlockAt(j, n)
           new(j, n) == BlockAt(j, n)'
<1>1. /\ bitmap = {old(j, n) : j \in Disk, n \in BlockPlaces} \ {0}
      /\ \A j \in Disk, n \in BlockPlaces : old(j, n) # 0 =>
            \A x \in Disk, y \in BlockPlaces : old(x, y) = old(j, n) => x = j /\ y = n
  BY DEF OneOwner
<1>2. \A j \in Disk, n \in BlockPlaces : new(j, n) = old(j, n)
  OBVIOUS
<1>3. BlockPlaces' = BlockPlaces
  BY DEF BlockPlaces, MAXFILE
<1> HIDE DEF old, new
<1>4. bitmap' = {new(j, n) : j \in Disk, n \in BlockPlaces} \ {0}
  BY <1>1, <1>2
<1>5. \A j \in Disk, n \in BlockPlaces : new(j, n) # 0 =>
            \A x \in Disk, y \in BlockPlaces : new(x, y) = new(j, n) => x = j /\ y = n
  BY <1>1, <1>2
<1> QED BY <1>3, <1>4, <1>5 DEF OneOwner, new

(***************************************************************************)
(* What a step leaves alone.                                               *)
(***************************************************************************)

LEMMA TruncatedStays ==
    ASSUME io \in [Writers -> Doings], io' \in [Writers -> Doings],
           \A q \in Writers :
              \/ io'[q] = io[q]
              \/ /\ Truncs(q) => io[q].next <= NDIRECT
                 /\ Truncs(q)' => io'[q].next <= NDIRECT
    PROVE  \A i, k : k \in Nat /\ k >= NDIRECT => (Truncated(i, k)' <=> Truncated(i, k))
<1> SUFFICES ASSUME NEW i, NEW k, k \in Nat, k >= NDIRECT PROVE Truncated(i, k)' <=> Truncated(i, k)
  OBVIOUS
<1>1. ASSUME NEW q \in Writers
      PROVE  io'[q].do = "trunc" /\ io'[q].ip = i /\ io'[q].next > k
                <=> io[q].do = "trunc" /\ io[q].ip = i /\ io[q].next > k
  <2>1. io[q].next \in Nat /\ io'[q].next \in Nat /\ NDIRECT \in Nat
    BY Limits DEF Doings
  <2>2. CASE io'[q] = io[q]
    BY <2>2
  <2>3. CASE io'[q] # io[q]
    BY <2>1, <2>3 DEF Truncs
  <2> QED BY <2>2, <2>3
<1> QED BY <1>1 DEF Truncated, Truncs

\* The same numbers at the same places.
LEMMA PlacesStay ==
    ASSUME NEW j \in Disk, addrs'[j] = addrs[j],
           addrs[j][NDIRECT] # 0 => ents'[addrs[j][NDIRECT]] = ents[addrs[j][NDIRECT]],
           \A k : k \in Nat /\ k >= NDIRECT => (Truncated(j, k)' <=> Truncated(j, k))
    PROVE  /\ \A n \in BlockPlaces : BlockAt(j, n)' = BlockAt(j, n)
           /\ \A k \in 0 .. MAXFILE - 1 : Mapped(j, k)' = Mapped(j, k)
<1>1. ASSUME NEW n \in BlockPlaces PROVE BlockAt(j, n)' = BlockAt(j, n)
  <2>1. CASE n <= NDIRECT
    BY <2>1 DEF BlockAt
  <2>2. CASE ~(n <= NDIRECT)
    <3>1. n - 1 \in Nat /\ n - 1 >= NDIRECT
      BY <2>2, Limits DEF BlockPlaces
    <3>2. Truncated(j, n - 1)' <=> Truncated(j, n - 1)
      BY <3>1
    <3> QED BY <2>2, <3>2 DEF BlockAt
  <2> QED BY <2>1, <2>2
<1>2. ASSUME NEW k \in 0 .. MAXFILE - 1 PROVE Mapped(j, k)' = Mapped(j, k)
  BY DEF Mapped, Direct
<1> QED BY <1>1, <1>2

LEMMA HolesStay ==
    ASSUME NoHoles, size' = size,
           \A i \in Disk, k \in 0 .. MAXFILE - 1 : Mapped(i, k) # 0 => Mapped(i, k)' # 0,
           \A q \in Writers : Truncs(q) => Truncs(q)' /\ io'[q].ip = io[q].ip
    PROVE  NoHoles'
BY DEF NoHoles, Truncs

\* No block changes hands.
LEMMA BlocksStay ==
    ASSUME DataCore, io' \in [Writers -> Doings],
           bitmap' = bitmap, ents' = ents, addrs' = addrs,
           \A q \in Writers :
              \/ io'[q] = io[q]
              \/ ~Truncs(q) /\ (Truncs(q)' => io'[q].next <= NDIRECT)
    PROVE  /\ OneOwner'
           /\ \A j \in Disk, k \in 0 .. MAXFILE - 1 : Mapped(j, k)' = Mapped(j, k)
<1>1. \A i, k : k \in Nat /\ k >= NDIRECT => (Truncated(i, k)' <=> Truncated(i, k))
  BY TruncatedStays DEF DataCore, FDTypeOK
<1>2. \A j \in Disk : /\ \A n \in BlockPlaces : BlockAt(j, n)' = BlockAt(j, n)
                      /\ \A k \in 0 .. MAXFILE - 1 : Mapped(j, k)' = Mapped(j, k)
  BY <1>1, PlacesStay
<1>3. OneOwner'
  BY <1>2, OwnersStay DEF DataCore
<1> QED BY <1>2, <1>3

\* Nothing on the disk changes.
LEMMA DiskStays ==
    ASSUME DataCore, io' \in [Writers -> Doings],
           bitmap' = bitmap, ents' = ents, addrs' = addrs, size' = size,
           \A q \in Writers :
              \/ io'[q] = io[q]
              \/ ~Truncs(q) /\ (Truncs(q)' => io'[q].next <= NDIRECT)
    PROVE  /\ OneOwner' /\ NoHoles'
           /\ \A j \in Disk, k \in 0 .. MAXFILE - 1 : Mapped(j, k)' = Mapped(j, k)
<1>1. \A q \in Writers : Truncs(q) => Truncs(q)' /\ io'[q].ip = io[q].ip
  BY DEF Truncs
<1> QED BY <1>1, BlocksStay, HolesStay DEF DataCore

\* Where a process is in the file it writes.
LEMMA InTheFile ==
    ASSUME FDTypeOK, NEW q \in Writers, WriterHolds(q), OneInode, io[q].do = "write"
    PROVE  /\ io[q] \in Doings /\ io[q].at \in Nat /\ io[q].end \in Nat /\ io[q].file \in Opens
           /\ off[io[q].file] \in Nat /\ io[q].end > 0
           /\ io[q].ip \in Disk /\ fip[io[q].file] = {io[q].ip}
           /\ FirstBn(q) \in Nat /\ LastBn(q) \in Nat
           /\ FirstBn(q) .. LastBn(q) \subseteq 0 .. MAXFILE - 1
           /\ io[q].at < io[q].end =>
                 Bn(q) \in 0 .. MAXFILE - 1 /\ Bn(q) \in FirstBn(q) .. LastBn(q)
<1>1. /\ io[q] \in Doings /\ io[q].at \in Nat /\ io[q].end \in Nat /\ io[q].file \in Opens
      /\ off[io[q].file] \in Nat /\ io[q].end > 0 /\ off[io[q].file] < io[q].end
      /\ off[io[q].file] <= io[q].at /\ io[q].end <= MAXFILE * BSIZE
      /\ io[q].ip \in fip[io[q].file]
  <2>1. io[q] \in Doings
    BY DEF FDTypeOK
  <2>2. io[q].at \in Nat /\ io[q].end \in Nat /\ io[q].file \in Opens /\ off[io[q].file] \in Nat
    BY <2>1 DEF FDTypeOK, Doings, WriterHolds
  <2> QED BY <2>1, <2>2 DEF WriterHolds
<1>2. io[q].ip \in Disk /\ fip[io[q].file] = {io[q].ip}
  BY <1>1 DEF FDTypeOK, OneInode
<1>3. MAXFILE * BSIZE \in Nat /\ MAXFILE \in Nat
  BY Limits, InBlocks
<1> DEFINE a == io[q].at
           e == io[q].end
           o == off[io[q].file]
<1>4. a \in Nat /\ e \in Nat /\ o \in Nat /\ e > 0 /\ o < e /\ o <= a /\ e <= MAXFILE * BSIZE
      /\ e - 1 \in Nat
  BY <1>1
<1>5. FirstBn(q) = o \div BSIZE /\ LastBn(q) = (e - 1) \div BSIZE /\ Bn(q) = a \div BSIZE
  BY DEF FirstBn, LastBn, Bn
<1> HIDE DEF a, e, o
<1>6. o \div BSIZE \in Nat /\ (e - 1) \div BSIZE \in 0 .. MAXFILE - 1
  <2>1. e - 1 < MAXFILE * BSIZE
    BY <1>3, <1>4
  <2> QED BY <1>4, <2>1, InFile, InBlocks
<1>7. a < e => a \div BSIZE \in (o \div BSIZE) .. ((e - 1) \div BSIZE)
  <2>1. SUFFICES ASSUME a < e PROVE a \div BSIZE \in (o \div BSIZE) .. ((e - 1) \div BSIZE)
    OBVIOUS
  <2>2. o <= a /\ a <= e - 1
    BY <1>4, <2>1
  <2> QED BY <1>4, <2>2, Ordered
<1>8. (o \div BSIZE) .. ((e - 1) \div BSIZE) \subseteq 0 .. MAXFILE - 1
  BY <1>3, <1>6
<1>9. a < e <=> io[q].at < io[q].end
  BY DEF a, e
<1> QED BY <1>1, <1>2, <1>3, <1>5, <1>6, <1>7, <1>8, <1>9

\* A process that does nothing, when nobody touches what it holds.
LEMMA Undisturbed ==
    ASSUME DataCore, NEW q \in Writers, io'[q] = io[q], logged'[q] = logged[q],
           io[q].do \in {"chunk", "write"} => fip'[io[q].file] = fip[io[q].file],
           io[q].do = "write" => off'[io[q].file] = off[io[q].file],
           io[q].do \in {"write", "trunc"} =>
              /\ ilock'[io[q].ip] = ilock[io[q].ip] /\ addrs'[io[q].ip] = addrs[io[q].ip]
              /\ \A k \in 0 .. MAXFILE - 1 : Mapped(io[q].ip, k)' = Mapped(io[q].ip, k),
           Truncs(q) => \A f \in Opens : io[q].ip \notin fip'[f]
    PROVE  InCall(q)'
<1> DEFINE i == io[q].ip
           f == io[q].file
<1>0. InCall(q)
  BY DEF DataCore
<1>9. io[q].do = "write" => /\ FirstBn(q) .. LastBn(q) \subseteq 0 .. MAXFILE - 1
                            /\ Bn(q) \in 0 .. MAXFILE - 1 \/ ~(io[q].at < io[q].end)
  BY <1>0, InTheFile DEF InCall, DataCore
<1>1. OutOfTransaction(q)'
  BY <1>0 DEF InCall, OutOfTransaction
<1>2. ASSUME io[q].do = "write"
      PROVE  /\ \A k \in 0 .. MAXFILE - 1 : Mapped(io[q].ip, k)' = Mapped(i, k)
             /\ Bn(q)' = Bn(q) /\ FirstBn(q)' = FirstBn(q) /\ LastBn(q)' = LastBn(q)
  BY <1>2 DEF Bn, FirstBn, LastBn
<1>3. WriterHolds(q)'
  <2>1. SUFFICES ASSUME io[q].do = "write" PROVE WriterHolds(q)'
    BY DEF WriterHolds
  <2>2. WriterHolds(q)
    BY <1>0 DEF InCall
  <2>3. io'[q].map # 0 => io'[q].at < io'[q].end /\ io'[q].map = Mapped(io[q].ip, Bn(q))'
    BY <1>2, <1>9, <2>1, <2>2 DEF WriterHolds
  <2>4. \A k \in 0 .. MAXFILE - 1 : k * BSIZE < io'[q].at => Mapped(io[q].ip, k)' # 0
    BY <1>2, <2>1, <2>2 DEF WriterHolds
  <2>5. /\ io'[q].file \in Opens /\ io'[q].ip \in fip'[io'[q].file] /\ ilock'[io'[q].ip] = q
        /\ off'[io'[q].file] <= io'[q].at /\ io'[q].at <= io'[q].end
        /\ off'[io'[q].file] < io'[q].end
        /\ io'[q].end <= off'[io'[q].file] + Chunk /\ io'[q].end <= MAXFILE * BSIZE
    BY <2>1, <2>2 DEF WriterHolds
  <2> QED BY <2>3, <2>4, <2>5 DEF WriterHolds
<1>4. LogsItsBlocks(q)'
  <2>1. SUFFICES ASSUME io[q].do = "write" PROVE LogsItsBlocks(q)'
    BY DEF LogsItsBlocks
  <2>2. ASSUME NEW b \in logged'[q]
        PROVE  \/ b \in {TheBitmap, addrs'[io'[q].ip][NDIRECT]}
               \/ \E k \in FirstBn(q)' .. LastBn(q)' : b = Mapped(io[q].ip, k)'
    <3>1. \/ b \in {TheBitmap, addrs[i][NDIRECT]}
          \/ \E k \in FirstBn(q) .. LastBn(q) : b = Mapped(i, k)
      BY <1>0, <2>1, <2>2 DEF InCall, LogsItsBlocks
    <3>2. FirstBn(q) .. LastBn(q) \subseteq 0 .. MAXFILE - 1
      BY <1>9, <2>1
    <3> QED BY <1>2, <2>1, <3>1, <3>2
  <2> QED BY <2>2 DEF LogsItsBlocks
<1>5. TruncHolds(q)'
  BY <1>0 DEF InCall, TruncHolds, Truncs
<1> QED BY <1>1, <1>3, <1>4, <1>5 DEF InCall

(***************************************************************************)
(* Each step keeps the invariant.                                          *)
(***************************************************************************)

LEMMA CloseFileKeeps ==
    ASSUME DataCore, NEW f \in Opens, CloseFile(f)
    PROVE  DataCore'
<1>1. /\ fip' = [fip EXCEPT ![f] = {}] /\ off' = [off EXCEPT ![f] = 0]
      /\ \A q \in Writers : io[q].file # f
      /\ UNCHANGED <<bitmap, bytes, ents, addrs, size, ilock, io, logged, got>>
  BY DEF CloseFile
<1>2. FDTypeOK'
  BY <1>1 DEF DataCore, FDTypeOK
<1>3. /\ OneOwner' /\ NoHoles'
      /\ \A j \in Disk, k \in 0 .. MAXFILE - 1 : Mapped(j, k)' = Mapped(j, k)
  BY <1>1, <1>2, DiskStays DEF FDTypeOK
<1>4. \A g \in Opens : fip'[g] = (IF g = f THEN {} ELSE fip[g]) /\ (g # f => off'[g] = off[g])
  BY <1>1 DEF DataCore, FDTypeOK
<1>5. OffsetsIn' /\ OneInode'
  BY <1>1, <1>4 DEF DataCore, OffsetsIn, OneInode
<1>6. ASSUME NEW q \in Writers PROVE InCall(q)'
  <2>0. InCall(q)
    BY DEF DataCore
  <2>1. io[q].do \in {"chunk", "write"} => io[q].file \in Opens /\ io[q].file # f
    BY <1>1, <2>0 DEF InCall, OutOfTransaction, WriterHolds
  <2>2. io[q].do \in {"write", "trunc"} => io[q].ip \in Disk
    BY <2>0, InTheFile DEF InCall, DataCore, TruncHolds, Truncs
  <2>3. Truncs(q) => \A g \in Opens : io[q].ip \notin fip'[g]
    BY <1>4, <2>0 DEF InCall, TruncHolds
  <2> QED BY <1>1, <1>3, <1>4, <2>1, <2>2, <2>3, Undisturbed
<1> QED BY <1>2, <1>3, <1>5, <1>6 DEF DataCore

LEMMA OpenKeeps ==
    ASSUME DataCore, NEW f \in Opens, NEW i \in Disk, Open(f, i)
    PROVE  DataCore'
<1>1. /\ fip[f] = {} /\ fip' = [fip EXCEPT ![f] = {i}] /\ off' = [off EXCEPT ![f] = 0]
      /\ \A q \in Writers : ~(io[q].do = "trunc" /\ io[q].ip = i)
      /\ UNCHANGED <<bitmap, bytes, ents, addrs, size, ilock, io, logged, got>>
  BY DEF Open
<1>2. FDTypeOK'
  BY <1>1 DEF DataCore, FDTypeOK
<1>3. /\ OneOwner' /\ NoHoles'
      /\ \A j \in Disk, k \in 0 .. MAXFILE - 1 : Mapped(j, k)' = Mapped(j, k)
  BY <1>1, <1>2, DiskStays DEF FDTypeOK
<1>4. \A g \in Opens : fip'[g] = (IF g = f THEN {i} ELSE fip[g]) /\ (g # f => off'[g] = off[g])
  BY <1>1 DEF DataCore, FDTypeOK
<1>5. OffsetsIn' /\ OneInode'
  <2>1. off'[f] = 0 /\ size' = size /\ \A j \in Disk : size[j] \in Nat
    <3>1. MAXFILE * BSIZE \in Nat
      BY Limits, InBlocks
    <3> QED BY <1>1, <3>1 DEF DataCore, FDTypeOK
  <2> QED BY <1>4, <2>1 DEF DataCore, OffsetsIn, OneInode
<1>6. ASSUME NEW q \in Writers PROVE InCall(q)'
  <2>0. InCall(q)
    BY DEF DataCore
  <2>1. io[q].do \in {"chunk", "write"} => io[q].file \in Opens /\ io[q].file # f
    BY <1>1, <2>0 DEF InCall, OutOfTransaction, WriterHolds
  <2>2. io[q].do \in {"write", "trunc"} => io[q].ip \in Disk
    BY <2>0, InTheFile DEF InCall, DataCore, TruncHolds, Truncs
  <2>3. Truncs(q) => \A g \in Opens : io[q].ip \notin fip'[g]
    BY <1>1, <1>4, <2>0 DEF InCall, TruncHolds, Truncs
  <2> QED BY <1>1, <1>3, <1>4, <2>1, <2>2, <2>3, Undisturbed
<1> QED BY <1>2, <1>3, <1>5, <1>6 DEF DataCore

\* Bytes of the file, in whatever order the processes read and write it.
LEMMA ByteType ==
    ASSUME FDTypeOK, NEW i \in Disk, NEW k \in Nat, k < MAXFILE * BSIZE,
           Mapped(i, k \div BSIZE) # 0
    PROVE  Byte(i, k) \in Writers \cup {Zero}
<1>1. k \div BSIZE \in 0 .. MAXFILE - 1 /\ k % BSIZE \in 0 .. BSIZE - 1
  BY InFile, InBlocks
<1>2. Mapped(i, k \div BSIZE) \in Block
  BY <1>1, BlockType
<1>3. bytes[Mapped(i, k \div BSIZE)] \in [0 .. BSIZE - 1 -> Writers \cup {Zero}]
  BY <1>2 DEF FDTypeOK
<1> QED BY <1>1, <1>3 DEF Byte

LEMMA ReadKeeps ==
    ASSUME DataCore, NEW p \in Writers, NEW f \in Opens, NEW n \in Lengths, Read(p, f, n)
    PROVE  DataCore'
<1>1. PICK i \in fip[f] :
          /\ ilock[i] = NoWriter /\ off[f] <= size[i]
          /\ LET m == SmallerOf(n, size[i] - off[f]) IN
                /\ \A k \in off[f] .. off[f] + m - 1 : Mapped(i, k \div BSIZE) # 0
                /\ got' = [got EXCEPT ![p] = [k \in 1 .. m |-> Byte(i, off[f] + k - 1)]]
                /\ off' = [off EXCEPT ![f] = @ + m]
  BY DEF Read
<1>2. UNCHANGED <<bitmap, bytes, ents, addrs, size, ilock, fip, io, logged>>
  BY DEF Read
<1>3. /\ i \in Disk /\ off[f] \in Nat /\ size[i] \in Nat /\ size[i] <= MAXFILE * BSIZE
      /\ MAXFILE * BSIZE \in Nat /\ n \in Nat
  <2>1. MAXFILE * BSIZE \in Nat
    BY Limits, InBlocks
  <2> QED BY <1>1, <2>1, Limits DEF DataCore, FDTypeOK
<1>4. PICK m \in Nat : m = SmallerOf(n, size[i] - off[f])
  BY <1>1, <1>3 DEF SmallerOf
<1>5. off[f] + m <= size[i]
  BY <1>1, <1>3, <1>4 DEF SmallerOf
<1>6. [k \in 1 .. m |-> Byte(i, off[f] + k - 1)] \in Seq(Writers \cup {Zero})
  <2>1. ASSUME NEW k \in 1 .. m PROVE Byte(i, off[f] + k - 1) \in Writers \cup {Zero}
    <3>1. off[f] + k - 1 \in off[f] .. off[f] + m - 1
      BY <1>3, <1>4, <2>1
    <3>2. off[f] + k - 1 \in Nat /\ off[f] + k - 1 < MAXFILE * BSIZE
      BY <1>3, <1>4, <1>5, <2>1
    <3>3. Mapped(i, (off[f] + k - 1) \div BSIZE) # 0
      BY <1>1, <1>4, <3>1
    <3> QED BY <1>3, <3>2, <3>3, ByteType DEF DataCore
  <2>2. \A k \in 1 .. m : Byte(i, off[f] + k - 1) \in Writers \cup {Zero}
    BY <2>1
  <2> HIDE DEF Zero
  <2> QED BY <1>4, <2>2
<1>7. /\ off' = [off EXCEPT ![f] = off[f] + m] /\ off[f] + m \in Nat
      /\ got' = [got EXCEPT ![p] = [k \in 1 .. m |-> Byte(i, off[f] + k - 1)]]
  BY <1>1, <1>3, <1>4
<1>8. FDTypeOK'
  BY <1>2, <1>6, <1>7 DEF DataCore, FDTypeOK
<1>9. /\ OneOwner' /\ NoHoles'
      /\ \A j \in Disk, k \in 0 .. MAXFILE - 1 : Mapped(j, k)' = Mapped(j, k)
  BY <1>2, <1>8, DiskStays DEF FDTypeOK
<1>10. off'[f] = off[f] + m /\ \A g \in Opens : g # f => off'[g] = off[g]
  BY <1>7 DEF DataCore, FDTypeOK
<1>11. OffsetsIn' /\ OneInode'
  <2>1. \A j \in fip[f] : j = i
    BY <1>1 DEF DataCore, OneInode
  <2> QED BY <1>2, <1>5, <1>10, <2>1 DEF DataCore, OffsetsIn, OneInode
<1>12. ASSUME NEW q \in Writers PROVE InCall(q)'
  <2>0. InCall(q)
    BY DEF DataCore
  <2>1. io[q].do = "write" => io[q].file \in Opens /\ io[q].file # f
    <3>1. SUFFICES ASSUME io[q].do = "write", io[q].file = f PROVE FALSE
      BY <2>0 DEF InCall, WriterHolds
    <3>2. io[q].ip \in fip[f] /\ ilock[io[q].ip] = q
      BY <2>0, <3>1 DEF InCall, WriterHolds
    <3>3. io[q].ip = i
      BY <1>1, <3>2 DEF DataCore, OneInode
    <3> QED BY <1>1, <3>2, <3>3, Limits
  <2>2. io[q].do \in {"write", "trunc"} => io[q].ip \in Disk
    BY <2>0, InTheFile DEF InCall, DataCore, TruncHolds, Truncs
  <2>3. Truncs(q) => \A g \in Opens : io[q].ip \notin fip'[g]
    BY <1>2, <2>0 DEF InCall, TruncHolds
  <2> QED BY <1>2, <1>9, <1>10, <2>1, <2>2, <2>3, Undisturbed
<1> QED BY <1>8, <1>9, <1>11, <1>12 DEF DataCore

LEMMA BackToUserKeeps ==
    ASSUME DataCore, NEW p \in Writers, BackToUser(p)
    PROVE  DataCore'
<1>1. /\ got' = [got EXCEPT ![p] = <<>>]
      /\ UNCHANGED <<bitmap, bytes, ents, addrs, size, ilock, fip, off, io, logged>>
  BY DEF BackToUser
<1>2. FDTypeOK'
  <2>1. <<>> \in Seq(Writers \cup {Zero})
    BY EmptySeq
  <2> QED BY <1>1, <2>1 DEF DataCore, FDTypeOK
<1>3. /\ OneOwner' /\ NoHoles'
      /\ \A j \in Disk, k \in 0 .. MAXFILE - 1 : Mapped(j, k)' = Mapped(j, k)
  BY <1>1, <1>2, DiskStays DEF FDTypeOK
<1>4. OffsetsIn' /\ OneInode'
  BY <1>1 DEF DataCore, OffsetsIn, OneInode
<1>5. ASSUME NEW q \in Writers PROVE InCall(q)'
  <2>0. InCall(q)
    BY DEF DataCore
  <2>2. io[q].do \in {"write", "trunc"} => io[q].ip \in Disk
    BY <2>0, InTheFile DEF InCall, DataCore, TruncHolds, Truncs
  <2>3. Truncs(q) => \A g \in Opens : io[q].ip \notin fip'[g]
    BY <1>1, <2>0 DEF InCall, TruncHolds
  <2> QED BY <1>1, <1>3, <2>2, <2>3, Undisturbed
<1> QED BY <1>2, <1>3, <1>4, <1>5 DEF DataCore

\* A process that is in no chunk.
LEMMA CallSteps ==
    ASSUME FDTypeOK, NEW p \in Writers, NEW r \in Doings, io' = [io EXCEPT ![p] = r]
    PROVE  /\ io' \in [Writers -> Doings] /\ io'[p] = r
           /\ \A q \in Writers : q # p => io'[q] = io[q]
BY DEF FDTypeOK

LEMMA NoneIsACall == None \in Doings
BY DEF None, Doings

LEMMA StartWriteKeeps ==
    ASSUME DataCore, NEW p \in Writers, NEW f \in Opens, NEW n \in Lengths, StartWrite(p, f, n)
    PROVE  DataCore'
<1> DEFINE r == [None EXCEPT !.do = "chunk", !.file = f, !.left = n]
<1>1. /\ io[p].do = "none" /\ fip[f] # {} /\ io' = [io EXCEPT ![p] = r]
      /\ UNCHANGED <<bitmap, bytes, ents, addrs, size, ilock, fip, off, logged, got>>
  BY DEF StartWrite, InUser
<1>2. r \in Doings /\ r.do = "chunk" /\ r.file = f /\ r.map = 0
  BY Limits DEF None, Doings
<1> HIDE DEF r
<1>3. /\ io' \in [Writers -> Doings] /\ io'[p] = r
      /\ \A q \in Writers : q # p => io'[q] = io[q]
  BY <1>1, <1>2, CallSteps DEF DataCore
<1>4. FDTypeOK'
  BY <1>1, <1>3 DEF DataCore, FDTypeOK
<1>5. /\ OneOwner' /\ NoHoles'
      /\ \A j \in Disk, k \in 0 .. MAXFILE - 1 : Mapped(j, k)' = Mapped(j, k)
  <2>1. ~Truncs(p) /\ ~Truncs(p)'
    BY <1>1, <1>2, <1>3 DEF Truncs
  <2> QED BY <1>1, <1>3, <2>1, DiskStays
<1>6. OffsetsIn' /\ OneInode'
  BY <1>1 DEF DataCore, OffsetsIn, OneInode
<1>7. InCall(p)'
  <2>1. logged[p] = {}
    BY <1>1 DEF DataCore, InCall, OutOfTransaction
  <2> QED BY <1>1, <1>2, <1>3, <2>1
          DEF InCall, OutOfTransaction, WriterHolds, LogsItsBlocks, TruncHolds, Truncs
<1>8. ASSUME NEW q \in Writers, q # p PROVE InCall(q)'
  <2>0. InCall(q)
    BY DEF DataCore
  <2>1. io'[q] = io[q]
    BY <1>3, <1>8
  <2>2. io[q].do \in {"write", "trunc"} => io[q].ip \in Disk
    BY <2>0, InTheFile DEF InCall, DataCore, TruncHolds, Truncs
  <2>3. Truncs(q) => \A g \in Opens : io[q].ip \notin fip'[g]
    BY <1>1, <2>0 DEF InCall, TruncHolds
  <2> QED BY <1>1, <1>5, <2>1, <2>2, <2>3, Undisturbed
<1> QED BY <1>4, <1>5, <1>6, <1>7, <1>8 DEF DataCore

LEMMA EndWriteKeeps ==
    ASSUME DataCore, NEW p \in Writers, EndWrite(p)
    PROVE  DataCore'
<1>1. /\ io[p].do = "chunk" /\ io' = [io EXCEPT ![p] = None]
      /\ UNCHANGED <<bitmap, bytes, ents, addrs, size, ilock, fip, off, logged, got>>
  BY DEF EndWrite
<1>3. /\ io' \in [Writers -> Doings] /\ io'[p] = None
      /\ \A q \in Writers : q # p => io'[q] = io[q]
  BY <1>1, NoneIsACall, CallSteps DEF DataCore
<1>4. FDTypeOK'
  BY <1>1, <1>3 DEF DataCore, FDTypeOK
<1>5. /\ OneOwner' /\ NoHoles'
      /\ \A j \in Disk, k \in 0 .. MAXFILE - 1 : Mapped(j, k)' = Mapped(j, k)
  <2>1. ~Truncs(p) /\ ~Truncs(p)'
    BY <1>1, <1>3 DEF Truncs, None
  <2> QED BY <1>1, <1>3, <2>1, DiskStays
<1>6. OffsetsIn' /\ OneInode'
  BY <1>1 DEF DataCore, OffsetsIn, OneInode
<1>7. InCall(p)'
  <2>1. logged[p] = {}
    BY <1>1 DEF DataCore, InCall, OutOfTransaction
  <2> QED BY <1>1, <1>3, <2>1
          DEF InCall, OutOfTransaction, WriterHolds, LogsItsBlocks, TruncHolds, Truncs, None
<1>8. ASSUME NEW q \in Writers, q # p PROVE InCall(q)'
  <2>0. InCall(q)
    BY DEF DataCore
  <2>1. io'[q] = io[q]
    BY <1>3, <1>8
  <2>2. io[q].do \in {"write", "trunc"} => io[q].ip \in Disk
    BY <2>0, InTheFile DEF InCall, DataCore, TruncHolds, Truncs
  <2>3. Truncs(q) => \A g \in Opens : io[q].ip \notin fip'[g]
    BY <1>1, <2>0 DEF InCall, TruncHolds
  <2> QED BY <1>1, <1>5, <2>1, <2>2, <2>3, Undisturbed
<1> QED BY <1>4, <1>5, <1>6, <1>7, <1>8 DEF DataCore

\* A chunk: whole blocks, and few enough of them.
LEMMA ChunkSize ==
    \E m \in Nat : /\ Chunk = m * BSIZE /\ m > 0 /\ m + 6 <= MAXOPBLOCKS
                   /\ Chunk \in Nat /\ Chunk > 0
<1> DEFINE m == (MAXOPBLOCKS - 1 - 1 - 2) \div 2
<1>1. m \in Nat /\ m > 0 /\ m + 6 <= MAXOPBLOCKS
  BY Limits
<1>2. Chunk = m * BSIZE
  BY DEF Chunk
<1> HIDE DEF m
<1>3. m * BSIZE \in Nat /\ m * BSIZE > 0
  BY <1>1, Limits
<1> QED BY <1>1, <1>2, <1>3

LEMMA StartChunkKeeps ==
    ASSUME DataCore, NEW p \in Writers, StartChunk(p)
    PROVE  DataCore'
<1>1. /\ io[p].do = "chunk" /\ io[p].left > 0
      /\ UNCHANGED <<bitmap, bytes, ents, addrs, size, fip, off, logged, got>>
  BY DEF StartChunk
<1>2. PICK f : f = io[p].file
  OBVIOUS
<1>3. PICK n : n = Chunked(io[p].left)
  OBVIOUS
<1>4. PICK i \in fip[f] :
          /\ ilock[i] = NoWriter
          /\ IF off[f] > size[i] \/ TooLong(f, n)
             THEN io' = [io EXCEPT ![p] = None] /\ UNCHANGED ilock
             ELSE /\ ilock' = [ilock EXCEPT ![i] = p]
                  /\ io' = [io EXCEPT ![p].do = "write", ![p].ip = i, ![p].at = off[f],
                                      ![p].end = off[f] + n, ![p].left = @ - n]
  BY <1>2, <1>3 DEF StartChunk
<1>5. /\ f \in Opens /\ logged[p] = {} /\ io[p].map = 0 /\ io[p] \in Doings /\ io[p].left \in Nat
  BY <1>1, <1>2 DEF DataCore, InCall, OutOfTransaction, FDTypeOK, Doings
<1>6. /\ i \in Disk /\ off[f] \in Nat /\ size[i] \in Nat /\ off[f] <= size[i]
      /\ MAXFILE * BSIZE \in Nat /\ size[i] <= MAXFILE * BSIZE
  <2>1. MAXFILE * BSIZE \in Nat
    BY Limits, InBlocks
  <2> QED BY <1>4, <1>5, <2>1 DEF DataCore, FDTypeOK, OffsetsIn
<1>7. n \in Nat /\ n > 0 /\ n <= Chunk /\ n <= io[p].left /\ Chunk \in Nat
  BY <1>1, <1>3, <1>5, ChunkSize DEF Chunked, SmallerOf
<1>8. UNCHANGED <<bitmap, bytes, ents, addrs, size, fip, off, logged, got>>
  BY <1>1
<1>9. CASE TooLong(f, n)
  <2>1. io' = [io EXCEPT ![p] = None] /\ ilock' = ilock
    BY <1>4, <1>9
  <2>3. /\ io' \in [Writers -> Doings] /\ io'[p] = None
        /\ \A q \in Writers : q # p => io'[q] = io[q]
    BY <2>1, NoneIsACall, CallSteps DEF DataCore
  <2>4. FDTypeOK'
    BY <1>8, <2>1, <2>3 DEF DataCore, FDTypeOK
  <2>5. /\ OneOwner' /\ NoHoles'
        /\ \A j \in Disk, k \in 0 .. MAXFILE - 1 : Mapped(j, k)' = Mapped(j, k)
    <3>1. ~Truncs(p) /\ ~Truncs(p)'
      BY <1>1, <2>3 DEF Truncs, None
    <3> QED BY <1>8, <2>3, <3>1, DiskStays
  <2>6. OffsetsIn' /\ OneInode'
    BY <1>8 DEF DataCore, OffsetsIn, OneInode
  <2>7. InCall(p)'
    BY <1>5, <1>8, <2>3
       DEF InCall, OutOfTransaction, WriterHolds, LogsItsBlocks, TruncHolds, Truncs, None
  <2>8. ASSUME NEW q \in Writers, q # p PROVE InCall(q)'
    <3>0. InCall(q)
      BY DEF DataCore
    <3>1. io'[q] = io[q]
      BY <2>3, <2>8
    <3>2. io[q].do \in {"write", "trunc"} => io[q].ip \in Disk
      BY <3>0, InTheFile DEF InCall, DataCore, TruncHolds, Truncs
    <3>3. Truncs(q) => \A g \in Opens : io[q].ip \notin fip'[g]
      BY <1>8, <3>0 DEF InCall, TruncHolds
    <3> QED BY <1>8, <2>1, <2>5, <3>1, <3>2, <3>3, Undisturbed
  <2> QED BY <2>4, <2>5, <2>6, <2>7, <2>8 DEF DataCore
<1>10. CASE ~TooLong(f, n)
  <2> DEFINE r == [io[p] EXCEPT !.do = "write", !.ip = i, !.at = off[f],
                                !.end = off[f] + n, !.left = @ - n]
  <2>0. /\ ilock' = [ilock EXCEPT ![i] = p]
        /\ io' = [io EXCEPT ![p].do = "write", ![p].ip = i, ![p].at = off[f],
                            ![p].end = off[f] + n, ![p].left = @ - n]
    <3>1. ~(off[f] > size[i] \/ TooLong(f, n))
      BY <1>6, <1>10
    <3> QED BY <1>4, <3>1
  <2>1. ilock' = [ilock EXCEPT ![i] = p] /\ io' = [io EXCEPT ![p] = r]
    BY <2>0 DEF DataCore, FDTypeOK, Doings
  <2>2. /\ r \in Doings /\ r.do = "write" /\ r.file = f /\ r.ip = i /\ r.at = off[f]
        /\ r.end = off[f] + n /\ r.map = 0 /\ off[f] + n <= MAXFILE * BSIZE
    <3>1. off[f] + n \in Nat /\ io[p].left - n \in Nat
      BY <1>5, <1>6, <1>7
    <3>2. off[f] + n <= MAXFILE * BSIZE
      BY <1>6, <1>7, <1>10 DEF TooLong
    <3> QED BY <1>2, <1>5, <1>6, <3>1, <3>2 DEF Doings
  <2> HIDE DEF r
  <2>3. /\ io' \in [Writers -> Doings] /\ io'[p] = r
        /\ \A q \in Writers : q # p => io'[q] = io[q]
    BY <2>1, <2>2, CallSteps DEF DataCore
  <2>4. FDTypeOK'
    BY <1>6, <1>8, <2>1, <2>3 DEF DataCore, FDTypeOK
  <2>5. /\ OneOwner' /\ NoHoles'
        /\ \A j \in Disk, k \in 0 .. MAXFILE - 1 : Mapped(j, k)' = Mapped(j, k)
    <3>1. ~Truncs(p) /\ ~Truncs(p)'
      BY <1>1, <2>2, <2>3 DEF Truncs
    <3> QED BY <1>8, <2>3, <3>1, DiskStays
  <2>6. OffsetsIn' /\ OneInode'
    BY <1>8 DEF DataCore, OffsetsIn, OneInode
  <2>7. InCall(p)'
    <3>1. OutOfTransaction(p)' /\ TruncHolds(p)' /\ LogsItsBlocks(p)'
      BY <1>5, <1>8, <2>2, <2>3 DEF OutOfTransaction, LogsItsBlocks, TruncHolds, Truncs
    <3>2. ilock'[i] = p
      BY <1>6, <2>1 DEF DataCore, FDTypeOK
    <3>3. \A k \in 0 .. MAXFILE - 1 : k * BSIZE < off[f] => Mapped(i, k) # 0
      <4>1. \A q \in Writers : ~(Truncs(q) /\ io[q].ip = i)
        BY <1>4, <1>5 DEF DataCore, InCall, TruncHolds
      <4>2. \A k \in 0 .. MAXFILE - 1 : k * BSIZE \in Nat
        BY Limits, InBlocks
      <4> QED BY <1>6, <4>1, <4>2 DEF DataCore, NoHoles
    <3>4. \A k \in 0 .. MAXFILE - 1 : k * BSIZE < off[f] => Mapped(i, k)' # 0
      BY <1>6, <2>5, <3>3
    <3>5. WriterHolds(p)'
      <4>1. /\ f \in Opens /\ i \in fip'[f] /\ ilock'[i] = p
            /\ off'[f] <= r.at /\ r.at <= r.end /\ off'[f] < r.end
            /\ r.end <= off'[f] + Chunk /\ r.end <= MAXFILE * BSIZE /\ r.map = 0
        BY <1>4, <1>5, <1>6, <1>7, <1>8, <2>2, <3>2
      <4>2. \A k \in 0 .. MAXFILE - 1 : k * BSIZE < r.at => Mapped(i, k)' # 0
        BY <2>2, <3>4
      <4> QED BY <2>2, <2>3, <4>1, <4>2 DEF WriterHolds
    <3> QED BY <3>1, <3>5 DEF InCall
  <2>8. ASSUME NEW q \in Writers, q # p PROVE InCall(q)'
    <3>0. InCall(q)
      BY DEF DataCore
    <3>1. io'[q] = io[q]
      BY <2>3, <2>8
    <3>2. io[q].do \in {"write", "trunc"} => io[q].ip \in Disk /\ ilock[io[q].ip] = q
      BY <3>0, InTheFile DEF InCall, DataCore, TruncHolds, Truncs, WriterHolds
    <3>3. Truncs(q) => \A g \in Opens : io[q].ip \notin fip'[g]
      BY <1>8, <3>0 DEF InCall, TruncHolds
    <3>4. io[q].do \in {"write", "trunc"} => ilock'[io[q].ip] = ilock[io[q].ip]
      BY <1>4, <2>1, <3>2, Limits DEF DataCore, FDTypeOK
    <3> QED BY <1>8, <2>5, <3>1, <3>2, <3>3, <3>4, Undisturbed
  <2> QED BY <2>4, <2>5, <2>6, <2>7, <2>8 DEF DataCore
<1> QED BY <1>9, <1>10

\* What a process has locked is its own.
LEMMA HasLocked ==
    ASSUME DataCore, NEW q \in Writers, io[q].do \in {"write", "trunc"}
    PROVE  io[q].ip \in Disk /\ ilock[io[q].ip] = q
BY InTheFile DEF InCall, DataCore, TruncHolds, Truncs, WriterHolds

\* While a process writes a file, nobody truncates it.
LEMMA NotTruncated ==
    ASSUME DataCore, NEW p \in Writers, io[p].do = "write", NEW i, i = io[p].ip
    PROVE  \A k : ~Truncated(i, k)
<1>1. ASSUME NEW q \in Writers, Truncs(q), io[q].ip = i PROVE FALSE
  <2>1. io[q].do = "trunc"
    BY <1>1 DEF Truncs
  <2>2. ilock[i] = q /\ ilock[i] = p
    BY <1>1, <2>1, HasLocked
  <2> QED BY <2>1, <2>2
<1> QED BY <1>1 DEF Truncated

LEMMA IndirectOwned ==
    ASSUME DataCore, NEW j \in Disk, addrs[j][NDIRECT] # 0
    PROVE  /\ addrs[j][NDIRECT] \in Block /\ addrs[j][NDIRECT] \in bitmap
           /\ \A i \in Disk : addrs[i][NDIRECT] = addrs[j][NDIRECT] => i = j
<1>1. NDIRECT \in BlockPlaces
  BY Limits DEF BlockPlaces
<1>2. \A i \in Disk : BlockAt(i, NDIRECT) = addrs[i][NDIRECT]
  BY Limits DEF BlockAt
<1>3. BlockAt(j, NDIRECT) \in Block \cup {0}
  BY <1>1, BlockType DEF DataCore
<1> QED BY <1>1, <1>2, <1>3 DEF DataCore, OneOwner

\* The blocks of the file of a writer, and those of the others, when p gets a block.
LEMMA MapIndirectMaps ==
    ASSUME DataCore, NEW p \in Writers, MapIndirect(p), NEW i, i = io[p].ip,
           NEW b \in Block, b \notin bitmap, bitmap' = bitmap \cup {b}, Zeroed(b),
           addrs' = [addrs EXCEPT ![i][NDIRECT] = b]
    PROVE  /\ i \in Disk /\ addrs' \in [Disk -> [0 .. NDIRECT -> Block \cup {0}]]
           /\ ents' \in [Block -> [0 .. NINDIRECT - 1 -> Block \cup {0}]]
           /\ OneOwner' /\ addrs'[i][NDIRECT] = b
           /\ \A j \in Disk : j # i => addrs'[j] = addrs[j]
           /\ \A j \in Disk, k \in 0 .. MAXFILE - 1 : Mapped(j, k)' = Mapped(j, k)
<1>1. /\ io[p].do = "write" /\ addrs[i][NDIRECT] = 0 /\ io' = io
      /\ ents' = [ents EXCEPT ![b] = NoEnts]
  BY DEF MapIndirect, Writing, Zeroed
<1>2. i \in Disk
  BY <1>1, HasLocked
<1>3. /\ addrs \in [Disk -> [0 .. NDIRECT -> Block \cup {0}]]
      /\ ents \in [Block -> [0 .. NINDIRECT - 1 -> Block \cup {0}]]
      /\ NDIRECT \in 0 .. NDIRECT
  BY Limits DEF DataCore, FDTypeOK
<1>4. NoEnts \in [0 .. NINDIRECT - 1 -> Block \cup {0}] /\ \A k \in 0 .. NINDIRECT - 1 : NoEnts[k] = 0
  BY DEF NoEnts
<1>5. /\ addrs' \in [Disk -> [0 .. NDIRECT -> Block \cup {0}]]
      /\ \A j \in Disk : j # i => addrs'[j] = addrs[j]
      /\ addrs'[i] = [addrs[i] EXCEPT ![NDIRECT] = b] /\ addrs'[i][NDIRECT] = b
      /\ \A k \in 0 .. NDIRECT : k # NDIRECT => addrs'[i][k] = addrs[i][k]
  BY <1>2, <1>3
<1>6. /\ ents' \in [Block -> [0 .. NINDIRECT - 1 -> Block \cup {0}]]
      /\ ents'[b] = NoEnts /\ \A e \in Block : e # b => ents'[e] = ents[e]
  BY <1>1, <1>3, <1>4
<1>7. \A j, k : Truncated(j, k)' <=> Truncated(j, k)
  BY <1>1 DEF Truncated, Truncs
<1>8. ASSUME NEW j \in Disk, j # i
      PROVE  /\ \A n \in BlockPlaces : BlockAt(j, n)' = BlockAt(j, n)
             /\ \A k \in 0 .. MAXFILE - 1 : Mapped(j, k)' = Mapped(j, k)
  <2>1. addrs[j][NDIRECT] # 0 => ents'[addrs[j][NDIRECT]] = ents[addrs[j][NDIRECT]]
    BY <1>6, IndirectOwned
  <2> QED BY <1>5, <1>7, <1>8, <2>1, PlacesStay
<1>9. \A n \in BlockPlaces : n # NDIRECT => BlockAt(i, n)' = BlockAt(i, n)
  <2>1. SUFFICES ASSUME NEW n \in BlockPlaces, n # NDIRECT PROVE BlockAt(i, n)' = BlockAt(i, n)
    OBVIOUS
  <2>2. CASE n <= NDIRECT
    <3>1. n \in 0 .. NDIRECT
      BY <2>2, Limits DEF BlockPlaces
    <3> QED BY <1>5, <2>1, <2>2, <3>1 DEF BlockAt
  <2>3. CASE ~(n <= NDIRECT)
    <3>1. n - 1 - NDIRECT \in 0 .. NINDIRECT - 1
      BY <2>3, Limits DEF BlockPlaces
    <3>2. BlockAt(i, n) = 0
      BY <1>1, <2>3 DEF BlockAt
    <3>3. ents'[addrs'[i][NDIRECT]][n - 1 - NDIRECT] = 0
      BY <1>4, <1>5, <1>6, <3>1
    <3> QED BY <2>3, <3>2, <3>3 DEF BlockAt
  <2> QED BY <2>2, <2>3
<1>10. NDIRECT \in BlockPlaces /\ BlockAt(i, NDIRECT)' = b /\ BlockAt(i, NDIRECT) = 0
  BY <1>1, <1>5, Limits DEF BlockAt, BlockPlaces
<1>11. OneOwner'
  <2>1. bitmap' = (bitmap \ {BlockAt(i, NDIRECT)}) \cup ({b} \ {0})
    <3>1. 0 \notin bitmap /\ b # 0
      BY DEF DataCore, FDTypeOK, Block
    <3> QED BY <1>10, <3>1
  <2>2. \A j \in Disk, n \in BlockPlaces : ~(j = i /\ n = NDIRECT) => BlockAt(j, n)' = BlockAt(j, n)
    BY <1>8, <1>9
  <2>3. OneOwner /\ bitmap \subseteq Block /\ b \in Block \cup {0}
    BY DEF DataCore, FDTypeOK
  <2> QED BY <1>2, <1>10, <2>1, <2>2, <2>3, OwnerMoves
<1>12. ASSUME NEW k \in 0 .. MAXFILE - 1 PROVE Mapped(i, k)' = Mapped(i, k)
  <2>1. CASE k < NDIRECT
    <3>1. k \in 0 .. NDIRECT /\ k # NDIRECT
      BY <2>1, Limits
    <3> QED BY <1>5, <2>1, <3>1 DEF Mapped, Direct
  <2>2. CASE ~(k < NDIRECT)
    <3>1. k - NDIRECT \in 0 .. NINDIRECT - 1
      BY <2>2, Limits
    <3>2. ents'[addrs'[i][NDIRECT]][k - NDIRECT] = 0
      BY <1>4, <1>5, <1>6, <3>1
    <3> QED BY <1>1, <2>2, <3>2 DEF Mapped, Direct
  <2> QED BY <2>1, <2>2
<1> QED BY <1>2, <1>5, <1>6, <1>8, <1>11, <1>12

LEMMA MapIndirectKeeps ==
    ASSUME DataCore, NEW p \in Writers, MapIndirect(p)
    PROVE  DataCore'
<1>1. PICK i : i = io[p].ip
  OBVIOUS
<1>2. PICK b \in Block :
          /\ Balloc(b) /\ Zeroed(b)
          /\ addrs' = [addrs EXCEPT ![i][NDIRECT] = b]
          /\ Log(p, {TheBitmap, b})
  BY <1>1 DEF MapIndirect
<1>3. /\ io[p].do = "write" /\ addrs[i][NDIRECT] = 0 /\ b \notin bitmap /\ bitmap' = bitmap \cup {b}
      /\ bytes' = [bytes EXCEPT ![b] = NoBytes]
      /\ logged' = [logged EXCEPT ![p] = logged[p] \cup {TheBitmap, b}]
      /\ UNCHANGED <<size, ilock, fip, off, io, got>>
  BY <1>1, <1>2 DEF MapIndirect, Writing, Balloc, FreeBlock, Zeroed, Log
<1>4. /\ i \in Disk /\ addrs' \in [Disk -> [0 .. NDIRECT -> Block \cup {0}]]
      /\ ents' \in [Block -> [0 .. NINDIRECT - 1 -> Block \cup {0}]]
      /\ OneOwner' /\ addrs'[i][NDIRECT] = b
      /\ \A j \in Disk : j # i => addrs'[j] = addrs[j]
      /\ \A j \in Disk, k \in 0 .. MAXFILE - 1 : Mapped(j, k)' = Mapped(j, k)
  <2>1. Zeroed(b) /\ addrs' = [addrs EXCEPT ![i][NDIRECT] = b] /\ bitmap' = bitmap \cup {b}
    BY <1>2, <1>3
  <2> QED BY <1>1, <1>2, <1>3, <2>1, MapIndirectMaps
<1>5. FDTypeOK'
  <2>1. NoBytes \in [0 .. BSIZE - 1 -> Writers \cup {Zero}]
    BY DEF NoBytes
  <2>2. bytes' \in [Block -> [0 .. BSIZE - 1 -> Writers \cup {Zero}]]
    BY <1>3, <2>1 DEF DataCore, FDTypeOK
  <2>3. logged' \in [Writers -> SUBSET (Block \cup {TheBitmap})]
    BY <1>3 DEF DataCore, FDTypeOK
  <2>4. bitmap' \subseteq Block
    BY <1>3 DEF DataCore, FDTypeOK
  <2> QED BY <1>3, <1>4, <2>2, <2>3, <2>4 DEF DataCore, FDTypeOK
<1>6. NoHoles'
  BY <1>3, <1>4, HolesStay DEF DataCore, Truncs
<1>7. OffsetsIn' /\ OneInode'
  BY <1>3 DEF DataCore, OffsetsIn, OneInode
<1>8. logged'[p] = logged[p] \cup {TheBitmap, b} /\ \A q \in Writers : q # p => logged'[q] = logged[q]
  BY <1>3 DEF DataCore, FDTypeOK
<1>9. InCall(p)'
  <2>0. InCall(p) /\ io' = io /\ io[p].do = "write"
    BY <1>3 DEF DataCore
  <2>1. OutOfTransaction(p)' /\ TruncHolds(p)'
    BY <2>0 DEF OutOfTransaction, TruncHolds, Truncs
  <2>2. /\ FirstBn(p) .. LastBn(p) \subseteq 0 .. MAXFILE - 1
        /\ io[p].at < io[p].end => Bn(p) \in 0 .. MAXFILE - 1
    BY <2>0, InTheFile DEF DataCore, InCall
  <2>3. Bn(p)' = Bn(p) /\ FirstBn(p)' = FirstBn(p) /\ LastBn(p)' = LastBn(p)
    BY <1>3 DEF Bn, FirstBn, LastBn
  <2>4. WriterHolds(p)'
    <3>1. \A k \in 0 .. MAXFILE - 1 : Mapped(io[p].ip, k)' = Mapped(io[p].ip, k)
      BY <1>1, <1>3, <1>4
    <3>2. io[p].map = 0
      BY DEF MapIndirect
    <3> QED BY <1>3, <2>0, <3>1, <3>2 DEF InCall, WriterHolds
  <2>5. ASSUME NEW e \in logged'[p]
        PROVE  \/ e \in {TheBitmap, addrs'[i][NDIRECT]}
               \/ \E k \in FirstBn(p) .. LastBn(p) : e = Mapped(i, k)'
    <3>1. CASE e \in {TheBitmap, b}
      BY <1>4, <3>1
    <3>2. CASE e \in logged[p]
      <4>1. \/ e \in {TheBitmap, addrs[i][NDIRECT]}
            \/ \E k \in FirstBn(p) .. LastBn(p) : e = Mapped(i, k)
        BY <1>1, <2>0, <3>2 DEF InCall, LogsItsBlocks
      <4> QED BY <1>3, <1>4, <2>2, <4>1 DEF TheBitmap
    <3> QED BY <1>8, <2>5, <3>1, <3>2
  <2>6. LogsItsBlocks(p)'
    BY <1>1, <2>0, <2>3, <2>5 DEF LogsItsBlocks
  <2> QED BY <2>1, <2>4, <2>6 DEF InCall
<1>10. ASSUME NEW q \in Writers, q # p PROVE InCall(q)'
  <2>0. InCall(q)
    BY DEF DataCore
  <2>1. io[q].do \in {"write", "trunc"} => io[q].ip \in Disk /\ io[q].ip # i
    BY <1>1, <1>3, <1>10, HasLocked
  <2>2. Truncs(q) => \A g \in Opens : io[q].ip \notin fip'[g]
    BY <1>3, <2>0 DEF InCall, TruncHolds
  <2> QED BY <1>3, <1>4, <1>8, <1>10, <2>1, <2>2, Undisturbed
<1> QED BY <1>4, <1>5, <1>6, <1>7, <1>9, <1>10 DEF DataCore

LEMMA MapOldKeeps ==
    ASSUME DataCore, NEW p \in Writers, MapOld(p)
    PROVE  DataCore'
<1> DEFINE b == Mapped(io[p].ip, Bn(p))
           r == [io[p] EXCEPT !.map = b]
<1>1. /\ io[p].do = "write" /\ io[p].at < io[p].end /\ b # 0
      /\ io' = [io EXCEPT ![p] = r]
      /\ UNCHANGED <<bitmap, bytes, ents, addrs, size, ilock, fip, off, logged, got>>
  BY DEF MapOld, Writing, DataCore, FDTypeOK
<1>2. /\ InCall(p) /\ io[p] \in Doings /\ io[p].ip \in Disk /\ Bn(p) \in 0 .. MAXFILE - 1
      /\ FirstBn(p) .. LastBn(p) \subseteq 0 .. MAXFILE - 1
  BY <1>1, InTheFile DEF DataCore, InCall
<1>3. b \in Block
  BY <1>1, <1>2, BlockType DEF DataCore
<1>4. /\ r \in Doings /\ r.do = "write" /\ r.file = io[p].file /\ r.ip = io[p].ip /\ r.map = b
      /\ r.at = io[p].at /\ r.end = io[p].end
  BY <1>1, <1>2, <1>3 DEF Doings
<1>5. PICK bb : bb = b
  OBVIOUS
<1> HIDE DEF r, b
<1>6. /\ io' \in [Writers -> Doings] /\ io'[p] = r
      /\ \A q \in Writers : q # p => io'[q] = io[q]
  BY <1>1, <1>4, CallSteps DEF DataCore
<1>7. FDTypeOK'
  BY <1>1, <1>6 DEF DataCore, FDTypeOK
<1>8. /\ OneOwner' /\ NoHoles'
      /\ \A j \in Disk, k \in 0 .. MAXFILE - 1 : Mapped(j, k)' = Mapped(j, k)
  <2>1. ~Truncs(p) /\ ~Truncs(p)'
    BY <1>1, <1>4, <1>6 DEF Truncs
  <2> QED BY <1>1, <1>6, <2>1, DiskStays
<1>9. OffsetsIn' /\ OneInode'
  BY <1>1 DEF DataCore, OffsetsIn, OneInode
<1>10. InCall(p)'
  <2>1. OutOfTransaction(p)' /\ TruncHolds(p)'
    BY <1>4, <1>6 DEF OutOfTransaction, TruncHolds, Truncs
  <2>2. Bn(p)' = Bn(p) /\ FirstBn(p)' = FirstBn(p) /\ LastBn(p)' = LastBn(p)
    BY <1>1, <1>4, <1>6 DEF Bn, FirstBn, LastBn
  <2>3. PICK i : i = io[p].ip
    OBVIOUS
  <2>4. i = io'[p].ip /\ i \in Disk
    BY <1>2, <1>4, <1>6, <2>3
  <2>5. WriterHolds(p)'
    <3>1. io'[p].map = Mapped(i, Bn(p))'
      BY <1>2, <1>4, <1>6, <1>8, <2>2, <2>3, <2>4 DEF b
    <3>2. \A k \in 0 .. MAXFILE - 1 : k * BSIZE < io'[p].at => Mapped(i, k)' # 0
      BY <1>1, <1>2, <1>4, <1>6, <1>8, <2>3, <2>4 DEF InCall, WriterHolds
    <3>3. /\ io'[p].file \in Opens /\ i \in fip'[io'[p].file] /\ ilock'[i] = p
          /\ off'[io'[p].file] <= io'[p].at /\ io'[p].at <= io'[p].end
          /\ off'[io'[p].file] < io'[p].end /\ io'[p].at < io'[p].end
          /\ io'[p].end <= off'[io'[p].file] + Chunk /\ io'[p].end <= MAXFILE * BSIZE
      BY <1>1, <1>2, <1>4, <1>6, <2>3 DEF InCall, WriterHolds
    <3> QED BY <2>4, <3>1, <3>2, <3>3 DEF WriterHolds
  <2>6. LogsItsBlocks(p)'
    <3>1. ASSUME NEW e \in logged'[p]
          PROVE  \/ e \in {TheBitmap, addrs'[i][NDIRECT]}
                 \/ \E k \in FirstBn(p) .. LastBn(p) : e = Mapped(i, k)'
      <4>1. \/ e \in {TheBitmap, addrs[i][NDIRECT]}
            \/ \E k \in FirstBn(p) .. LastBn(p) : e = Mapped(i, k)
        BY <1>1, <1>2, <2>3, <3>1 DEF InCall, LogsItsBlocks
      <4> QED BY <1>1, <1>2, <1>8, <2>4, <4>1
    <3> QED BY <2>2, <2>4, <3>1 DEF LogsItsBlocks
  <2> QED BY <2>1, <2>5, <2>6 DEF InCall
<1>11. ASSUME NEW q \in Writers, q # p PROVE InCall(q)'
  <2>0. InCall(q)
    BY DEF DataCore
  <2>1. io[q].do \in {"write", "trunc"} => io[q].ip \in Disk
    BY HasLocked
  <2>2. Truncs(q) => \A g \in Opens : io[q].ip \notin fip'[g]
    BY <1>1, <2>0 DEF InCall, TruncHolds
  <2> QED BY <1>1, <1>6, <1>8, <1>11, <2>1, <2>2, Undisturbed
<1> QED BY <1>7, <1>8, <1>9, <1>10, <1>11 DEF DataCore

\* How far one turn of the loop of writei() gets.
LEMMA CopyEnds ==
    ASSUME DataCore, NEW p \in Writers, io[p].do = "write", io[p].at < io[p].end,
           NEW a, a = io[p].at, NEW m, m = SmallerOf(io[p].end - a, BSIZE - (a % BSIZE))
    PROVE  /\ a \in Nat /\ m \in Nat /\ m > 0 /\ a + m <= io[p].end
           /\ a % BSIZE \in Nat /\ (a % BSIZE) + m <= BSIZE
           /\ Bn(p) \in Nat /\ a = Bn(p) * BSIZE + (a % BSIZE)
           /\ \A k \in Nat : k * BSIZE < a + m => k = Bn(p) \/ k * BSIZE < a
<1>1. a \in Nat /\ io[p].end \in Nat
  BY InTheFile DEF DataCore, InCall
<1> DEFINE d == a \div BSIZE
           c == a % BSIZE
<1>2. /\ d \in Nat /\ d * BSIZE \in Nat /\ d * BSIZE <= a
      /\ c = a - d * BSIZE /\ c \in 0 .. BSIZE - 1 /\ BSIZE \in Nat
  BY <1>1, InBlocks, Limits
<1>3. m = SmallerOf(io[p].end - a, BSIZE - c)
  OBVIOUS
<1>4. Bn(p) = d
  BY DEF Bn
<1> HIDE DEF d, c
<1>5. m \in Nat /\ m > 0 /\ a + m <= io[p].end /\ c + m <= BSIZE
  <2>1. PICK e \in Nat : e = io[p].end /\ a < e
    BY <1>1
  <2>2. m = IF e - a < BSIZE - c THEN e - a ELSE BSIZE - c
    BY <1>3, <2>1 DEF SmallerOf
  <2>3. c \in Nat /\ c < BSIZE /\ BSIZE \in Nat /\ a \in Nat
    BY <1>1, <1>2
  <2>4. m \in Nat /\ m > 0 /\ a + m <= e /\ c + m <= BSIZE
    BY ONLY <2>2, <2>3, <2>1, SMT
  <2> QED BY <2>1, <2>4
<1>6. ASSUME NEW k \in Nat, k * BSIZE < a + m PROVE k = d \/ k * BSIZE < a
  <2>1. (d + 1) * BSIZE = d * BSIZE + BSIZE /\ d + 1 \in Nat /\ k * BSIZE \in Nat
    BY <1>2, InBlocks
  <2>2. k * BSIZE < (d + 1) * BSIZE
    BY <1>1, <1>2, <1>5, <1>6, <2>1
  <2>3. k < d + 1
    BY <2>1, <2>2, InBlocks
  <2>4. CASE k = d
    BY <2>4
  <2>5. CASE k < d
    <3>1. k * BSIZE < d * BSIZE
      BY <1>2, <2>5, InBlocks
    <3> QED BY <1>1, <1>2, <2>1, <3>1
  <2> QED BY <1>2, <2>3, <2>4, <2>5
<1>7. a % BSIZE = c
  BY DEF c
<1>8. a = d * BSIZE + c
  BY <1>1, <1>2
<1> QED BY <1>1, <1>2, <1>4, <1>5, <1>6, <1>7, <1>8

LEMMA CopyKeeps ==
    ASSUME DataCore, NEW p \in Writers, Copy(p)
    PROVE  DataCore'
<1>1. PICK a : a = io[p].at
  OBVIOUS
<1>2. PICK m : m = SmallerOf(io[p].end - a, BSIZE - (a % BSIZE))
  OBVIOUS
<1>3. PICK b : b = io[p].map
  OBVIOUS
<1>4. PICK i : i = io[p].ip
  OBVIOUS
<1> DEFINE r == [io[p] EXCEPT !.at = a + m, !.map = 0]
<1>5. /\ io[p].do = "write" /\ io[p].at < io[p].end /\ b # 0
      /\ bytes' = [bytes EXCEPT ![b] =
                    [k \in 0 .. BSIZE - 1 |->
                        IF k >= a % BSIZE /\ k < (a % BSIZE) + m THEN p ELSE bytes[b][k]]]
      /\ logged' = [logged EXCEPT ![p] = logged[p] \cup {b}]
      /\ UNCHANGED <<bitmap, ents, addrs, size, ilock, fip, off, got>>
  BY <1>1, <1>2, <1>3 DEF Copy, Writing, Log
<1>6. io' = [io EXCEPT ![p] = r]
  BY <1>1, <1>2 DEF Copy, DataCore, FDTypeOK, Doings
<1>7. /\ InCall(p) /\ io[p] \in Doings /\ i \in Disk /\ Bn(p) \in 0 .. MAXFILE - 1
      /\ FirstBn(p) .. LastBn(p) \subseteq 0 .. MAXFILE - 1 /\ Bn(p) \in FirstBn(p) .. LastBn(p)
      /\ off[io[p].file] \in Nat
  BY <1>4, <1>5, InTheFile DEF DataCore, InCall
<1>8. /\ a \in Nat /\ m \in Nat /\ m > 0 /\ a + m <= io[p].end
      /\ \A k \in Nat : k * BSIZE < a + m => k = Bn(p) \/ k * BSIZE < a
  BY <1>1, <1>2, <1>5, CopyEnds
<1>9. b = Mapped(i, Bn(p)) /\ b \in Block
  BY <1>3, <1>4, <1>5, <1>7, BlockType DEF InCall, WriterHolds, DataCore
<1>10. /\ r \in Doings /\ r.do = "write" /\ r.file = io[p].file /\ r.ip = i /\ r.map = 0
       /\ r.at = a + m /\ r.end = io[p].end
  <2>1. PICK z : z = a + m
    OBVIOUS
  <2>2. z \in Nat /\ r = [io[p] EXCEPT !.at = z, !.map = 0]
    BY <1>8, <2>1
  <2> HIDE DEF r
  <2>3. /\ r \in Doings /\ r.do = "write" /\ r.file = io[p].file /\ r.ip = io[p].ip
        /\ r.map = 0 /\ r.at = z /\ r.end = io[p].end
    BY <1>5, <1>7, <2>2 DEF Doings
  <2> QED BY <1>4, <2>1, <2>3
<1> HIDE DEF r
<1>11. /\ io' \in [Writers -> Doings] /\ io'[p] = r
       /\ \A q \in Writers : q # p => io'[q] = io[q]
  BY <1>6, <1>10, CallSteps DEF DataCore
<1>12. logged'[p] = logged[p] \cup {b} /\ \A q \in Writers : q # p => logged'[q] = logged[q]
  BY <1>5 DEF DataCore, FDTypeOK
<1>13. FDTypeOK'
  <2>1. bytes[b] \in [0 .. BSIZE - 1 -> Writers \cup {Zero}]
    BY <1>9 DEF DataCore, FDTypeOK
  <2> DEFINE c == [k \in 0 .. BSIZE - 1 |->
                        IF k >= a % BSIZE /\ k < (a % BSIZE) + m THEN p ELSE bytes[b][k]]
  <2>2. c \in [0 .. BSIZE - 1 -> Writers \cup {Zero}]
    BY <2>1
  <2>3. bytes' = [bytes EXCEPT ![b] = c]
    BY <1>5
  <2> HIDE DEF c
  <2>4. bytes' \in [Block -> [0 .. BSIZE - 1 -> Writers \cup {Zero}]]
    BY <2>2, <2>3 DEF DataCore, FDTypeOK
  <2>5. logged' \in [Writers -> SUBSET (Block \cup {TheBitmap})]
    BY <1>5, <1>9 DEF DataCore, FDTypeOK
  <2> QED BY <1>5, <1>11, <2>4, <2>5 DEF DataCore, FDTypeOK
<1>14. /\ OneOwner' /\ NoHoles'
       /\ \A j \in Disk, k \in 0 .. MAXFILE - 1 : Mapped(j, k)' = Mapped(j, k)
  <2>1. ~Truncs(p) /\ ~Truncs(p)'
    BY <1>5, <1>10, <1>11 DEF Truncs
  <2> QED BY <1>5, <1>11, <2>1, DiskStays
<1>15. OffsetsIn' /\ OneInode'
  BY <1>5 DEF DataCore, OffsetsIn, OneInode
<1>16. InCall(p)'
  <2>1. OutOfTransaction(p)' /\ TruncHolds(p)'
    BY <1>10, <1>11 DEF OutOfTransaction, TruncHolds, Truncs
  <2>2. FirstBn(p)' = FirstBn(p) /\ LastBn(p)' = LastBn(p)
    BY <1>5, <1>10, <1>11 DEF FirstBn, LastBn
  <2>3. i = io'[p].ip
    BY <1>10, <1>11
  <2>4. WriterHolds(p)'
    <3>1. ASSUME NEW k \in 0 .. MAXFILE - 1, k * BSIZE < a + m PROVE Mapped(i, k)' # 0
      <4>1. k = Bn(p) \/ k * BSIZE < a
        BY <1>8, <3>1, Limits
      <4>2. k * BSIZE < a => Mapped(i, k) # 0
        BY <1>1, <1>4, <1>5, <1>7, <3>1 DEF InCall, WriterHolds
      <4> QED BY <1>5, <1>7, <1>9, <1>14, <4>1, <4>2
    <3>2. \A k \in 0 .. MAXFILE - 1 : k * BSIZE < io'[p].at => Mapped(i, k)' # 0
      BY <1>10, <1>11, <3>1
    <3>3. /\ io'[p].file \in Opens /\ i \in fip'[io'[p].file] /\ ilock'[i] = p
          /\ off'[io'[p].file] <= io'[p].at /\ io'[p].at <= io'[p].end
          /\ off'[io'[p].file] < io'[p].end /\ io'[p].map = 0
          /\ io'[p].end <= off'[io'[p].file] + Chunk /\ io'[p].end <= MAXFILE * BSIZE
      <4>1. off[io[p].file] <= a + m
        BY <1>1, <1>5, <1>7, <1>8 DEF InCall, WriterHolds
      <4> QED BY <1>4, <1>5, <1>7, <1>8, <1>10, <1>11, <4>1 DEF InCall, WriterHolds
    <3> QED BY <2>3, <3>2, <3>3 DEF WriterHolds
  <2>5. LogsItsBlocks(p)'
    <3>1. ASSUME NEW e \in logged'[p]
          PROVE  \/ e \in {TheBitmap, addrs'[i][NDIRECT]}
                 \/ \E k \in FirstBn(p) .. LastBn(p) : e = Mapped(i, k)'
      <4>1. CASE e = b
        BY <1>7, <1>9, <1>14, <4>1
      <4>2. CASE e \in logged[p]
        <5>1. \/ e \in {TheBitmap, addrs[i][NDIRECT]}
              \/ \E k \in FirstBn(p) .. LastBn(p) : e = Mapped(i, k)
          BY <1>4, <1>5, <1>7, <4>2 DEF InCall, LogsItsBlocks
        <5> QED BY <1>5, <1>7, <1>14, <5>1
      <4> QED BY <1>12, <3>1, <4>1, <4>2
    <3> QED BY <2>2, <2>3, <3>1 DEF LogsItsBlocks
  <2> QED BY <2>1, <2>4, <2>5 DEF InCall
<1>17. ASSUME NEW q \in Writers, q # p PROVE InCall(q)'
  <2>0. InCall(q)
    BY DEF DataCore
  <2>1. io[q].do \in {"write", "trunc"} => io[q].ip \in Disk
    BY HasLocked
  <2>2. Truncs(q) => \A g \in Opens : io[q].ip \notin fip'[g]
    BY <1>5, <2>0 DEF InCall, TruncHolds
  <2> QED BY <1>5, <1>11, <1>12, <1>14, <1>17, <2>1, <2>2, Undisturbed
<1> QED BY <1>13, <1>14, <1>15, <1>16, <1>17 DEF DataCore

LEMMA EndChunkKeeps ==
    ASSUME DataCore, NEW p \in Writers, EndChunk(p)
    PROVE  DataCore'
<1>1. PICK i : i = io[p].ip
  OBVIOUS
<1>2. PICK f : f = io[p].file
  OBVIOUS
<1>3. PICK e : e = io[p].end
  OBVIOUS
<1> DEFINE r == [None EXCEPT !.do = "chunk", !.file = f, !.left = io[p].left]
<1>4. /\ io[p].do = "write" /\ io[p].at = e
      /\ size' = [size EXCEPT ![i] = Grown(i, e)]
      /\ off' = [off EXCEPT ![f] = e] /\ ilock' = [ilock EXCEPT ![i] = NoWriter]
      /\ io' = [io EXCEPT ![p] = r] /\ logged' = [logged EXCEPT ![p] = {}]
      /\ UNCHANGED <<bitmap, bytes, ents, addrs, fip, got>>
  BY <1>1, <1>2, <1>3 DEF EndChunk
<1>5. /\ InCall(p) /\ io[p] \in Doings /\ i \in Disk /\ f \in Opens /\ e \in Nat
      /\ fip[f] = {i} /\ ilock[i] = p /\ e <= MAXFILE * BSIZE /\ off[f] < e
      /\ \A k \in 0 .. MAXFILE - 1 : k * BSIZE < e => Mapped(i, k) # 0
  BY <1>1, <1>2, <1>3, <1>4, InTheFile DEF DataCore, InCall, WriterHolds
<1>6. r \in Doings /\ r.do = "chunk" /\ r.file = f /\ r.map = 0
  BY <1>5 DEF None, Doings
<1> HIDE DEF r
<1>7. /\ io' \in [Writers -> Doings] /\ io'[p] = r
      /\ \A q \in Writers : q # p => io'[q] = io[q]
  BY <1>4, <1>6, CallSteps DEF DataCore
<1>8. /\ size'[i] \in 0 .. MAXFILE * BSIZE /\ e <= size'[i] /\ size[i] <= size'[i]
      /\ size'[i] = e \/ size'[i] = size[i]
      /\ \A j \in Disk : j # i => size'[j] = size[j]
      /\ size' \in [Disk -> 0 .. MAXFILE * BSIZE]
  <2>1. MAXFILE * BSIZE \in Nat
    BY Limits, InBlocks
  <2>2. size \in [Disk -> 0 .. MAXFILE * BSIZE]
    BY DEF DataCore, FDTypeOK
  <2>3. PICK g : g = Grown(i, e)
    OBVIOUS
  <2>4. g \in 0 .. MAXFILE * BSIZE /\ e <= g /\ size[i] <= g /\ (g = e \/ g = size[i])
    BY <1>5, <2>1, <2>2, <2>3 DEF Grown
  <2> QED BY <1>4, <1>5, <2>2, <2>3, <2>4
<1>9. /\ off'[f] = e /\ \A g \in Opens : g # f => off'[g] = off[g]
      /\ ilock'[i] = NoWriter /\ \A j \in Disk : j # i => ilock'[j] = ilock[j]
      /\ logged'[p] = {} /\ \A q \in Writers : q # p => logged'[q] = logged[q]
  BY <1>4, <1>5 DEF DataCore, FDTypeOK
<1>10. FDTypeOK'
  BY <1>4, <1>5, <1>7, <1>8 DEF DataCore, FDTypeOK
<1>11. /\ OneOwner'
       /\ \A j \in Disk, k \in 0 .. MAXFILE - 1 : Mapped(j, k)' = Mapped(j, k)
  <2>1. ~Truncs(p) /\ ~Truncs(p)'
    BY <1>4, <1>6, <1>7 DEF Truncs
  <2> QED BY <1>4, <1>7, <2>1, BlocksStay
<1>12. NoHoles'
  <2>1. \A q \in Writers : Truncs(q) => Truncs(q)' /\ io'[q].ip = io[q].ip
    BY <1>4, <1>7 DEF Truncs
  <2>2. ASSUME NEW j \in Disk, \A q \in Writers : ~(Truncs(q)' /\ io'[q].ip = j),
               NEW k \in 0 .. MAXFILE - 1, k * BSIZE < size'[j]
        PROVE  Mapped(j, k)' # 0
    <3>1. \A q \in Writers : ~(Truncs(q) /\ io[q].ip = j)
      BY <2>1, <2>2
    <3>2. k * BSIZE < size[j] => Mapped(j, k) # 0
      BY <2>2, <3>1 DEF DataCore, NoHoles
    <3>3. CASE j = i
      BY <1>5, <1>8, <1>11, <2>2, <3>2, <3>3
    <3>4. CASE j # i
      BY <1>8, <1>11, <2>2, <3>2, <3>4
    <3> QED BY <3>3, <3>4
  <2> QED BY <2>2 DEF NoHoles, Truncs
<1>13. OffsetsIn' /\ OneInode'
  <2>1. \A g \in Opens : \A j \in fip[g] : j \in Disk /\ off[g] \in Nat /\ off[g] <= size[j] /\ size[j] \in Nat
    <3>1. MAXFILE * BSIZE \in Nat
      BY Limits, InBlocks
    <3> QED BY <3>1 DEF DataCore, FDTypeOK, OffsetsIn
  <2>2. ASSUME NEW g \in Opens, NEW j \in fip[g] PROVE off'[g] <= size'[j]
    <3>1. CASE g = f
      BY <1>5, <1>8, <1>9, <2>2, <3>1
    <3>2. CASE g # f
      <4>1. off'[g] = off[g] /\ size[j] <= size'[j]
        BY <1>8, <1>9, <2>1, <2>2, <3>2
      <4>2. size'[j] \in Nat
        BY <1>8, <2>1, <2>2, Limits, InBlocks
      <4> QED BY <2>1, <2>2, <4>1, <4>2
    <3> QED BY <3>1, <3>2
  <2> QED BY <1>4, <2>2 DEF DataCore, OffsetsIn, OneInode
<1>14. InCall(p)'
  BY <1>4, <1>5, <1>6, <1>7, <1>9
     DEF InCall, OutOfTransaction, WriterHolds, LogsItsBlocks, TruncHolds, Truncs
<1>15. ASSUME NEW q \in Writers, q # p PROVE InCall(q)'
  <2>0. InCall(q)
    BY DEF DataCore
  <2>1. io[q].do \in {"write", "trunc"} => io[q].ip \in Disk /\ io[q].ip # i
    BY <1>5, <1>15, HasLocked
  <2>2. Truncs(q) => \A g \in Opens : io[q].ip \notin fip'[g]
    BY <1>4, <2>0 DEF InCall, TruncHolds
  <2>3. io[q].do = "write" => io[q].file \in Opens /\ io[q].file # f
    BY <1>5, <2>0, <2>1 DEF InCall, WriterHolds
  <2> QED BY <1>4, <1>7, <1>9, <1>11, <1>15, <2>1, <2>2, <2>3, Undisturbed
<1> QED BY <1>10, <1>11, <1>12, <1>13, <1>14, <1>15 DEF DataCore

LEMMA StartTruncKeeps ==
    ASSUME DataCore, NEW p \in Writers, NEW i \in Disk, StartTrunc(p, i)
    PROVE  DataCore'
<1> DEFINE r == [None EXCEPT !.do = "trunc", !.ip = i]
<1>1. /\ io[p].do = "none" /\ ilock[i] = NoWriter /\ \A f \in Opens : i \notin fip[f]
      /\ ilock' = [ilock EXCEPT ![i] = p] /\ io' = [io EXCEPT ![p] = r]
      /\ UNCHANGED <<bitmap, bytes, ents, addrs, size, fip, off, logged, got>>
  BY DEF StartTrunc, InUser
<1>2. r \in Doings /\ r.do = "trunc" /\ r.ip = i /\ r.next = 0
  BY DEF None, Doings
<1> HIDE DEF r
<1>3. /\ io' \in [Writers -> Doings] /\ io'[p] = r
      /\ \A q \in Writers : q # p => io'[q] = io[q]
  BY <1>1, <1>2, CallSteps DEF DataCore
<1>4. FDTypeOK'
  BY <1>1, <1>3 DEF DataCore, FDTypeOK
<1>5. /\ OneOwner' /\ NoHoles'
      /\ \A j \in Disk, k \in 0 .. MAXFILE - 1 : Mapped(j, k)' = Mapped(j, k)
  <2>1. ~Truncs(p) /\ io'[p].next <= NDIRECT
    BY <1>1, <1>2, <1>3, Limits DEF Truncs
  <2> QED BY <1>1, <1>3, <2>1, DiskStays
<1>6. OffsetsIn' /\ OneInode'
  BY <1>1 DEF DataCore, OffsetsIn, OneInode
<1>7. ilock'[i] = p /\ \A j \in Disk : j # i => ilock'[j] = ilock[j]
  BY <1>1 DEF DataCore, FDTypeOK
<1>8. InCall(p)'
  <2>1. logged[p] = {}
    BY <1>1 DEF DataCore, InCall, OutOfTransaction
  <2>2. TruncHolds(p)'
    BY <1>1, <1>2, <1>3, <1>7, <2>1, Limits DEF TruncHolds, Truncs
  <2> QED BY <1>1, <1>2, <1>3, <2>1, <2>2
          DEF InCall, OutOfTransaction, WriterHolds, LogsItsBlocks
<1>9. ASSUME NEW q \in Writers, q # p PROVE InCall(q)'
  <2>0. InCall(q)
    BY DEF DataCore
  <2>1. io[q].do \in {"write", "trunc"} => io[q].ip \in Disk /\ io[q].ip # i
    BY <1>1, HasLocked, Limits
  <2>2. Truncs(q) => \A g \in Opens : io[q].ip \notin fip'[g]
    BY <1>1, <2>0 DEF InCall, TruncHolds
  <2> QED BY <1>1, <1>3, <1>5, <1>7, <1>9, <2>1, <2>2, Undisturbed
<1> QED BY <1>4, <1>5, <1>6, <1>8, <1>9 DEF DataCore

\* A new block is written down at one place, in the inode or in the indirect block.
NowMapped(i, n, b) ==
    IF Direct(n)
    THEN addrs' = [addrs EXCEPT ![i][n] = b] /\ ents' = [ents EXCEPT ![b] = NoEnts]
    ELSE /\ ents' = [ents EXCEPT ![b] = NoEnts, ![addrs[i][NDIRECT]][n - NDIRECT] = b]
         /\ UNCHANGED addrs

LEMMA MapNewMaps ==
    ASSUME DataCore, NEW p \in Writers, io[p].do = "write", NEW i, i = io[p].ip,
           NEW n \in 0 .. MAXFILE - 1, Mapped(i, n) = 0, Direct(n) \/ addrs[i][NDIRECT] # 0,
           NEW b \in Block, b \notin bitmap, bitmap' = bitmap \cup {b},
           \A j, k : Truncated(j, k)' <=> Truncated(j, k),
           NowMapped(i, n, b)
    PROVE  /\ i \in Disk /\ addrs' \in [Disk -> [0 .. NDIRECT -> Block \cup {0}]]
           /\ ents' \in [Block -> [0 .. NINDIRECT - 1 -> Block \cup {0}]]
           /\ OneOwner' /\ addrs'[i][NDIRECT] = addrs[i][NDIRECT]
           /\ \A j \in Disk : j # i => addrs'[j] = addrs[j]
           /\ Mapped(i, n)' = b
           /\ \A j \in Disk, k \in 0 .. MAXFILE - 1 :
                 ~(j = i /\ k = n) => Mapped(j, k)' = Mapped(j, k)
<1>1. i \in Disk
  BY HasLocked
<1>2. /\ addrs \in [Disk -> [0 .. NDIRECT -> Block \cup {0}]]
      /\ ents \in [Block -> [0 .. NINDIRECT - 1 -> Block \cup {0}]]
      /\ NDIRECT \in 0 .. NDIRECT
  BY Limits DEF DataCore, FDTypeOK
<1>3. NoEnts \in [0 .. NINDIRECT - 1 -> Block \cup {0}]
  BY DEF NoEnts
<1>4. PICK x : x = addrs[i][NDIRECT]
  OBVIOUS
<1>5. x # 0 => /\ x \in Block /\ x \in bitmap /\ x # b
              /\ \A j \in Disk : addrs[j][NDIRECT] = x => j = i
  BY <1>1, <1>4, IndirectOwned
<1>6. 0 \notin bitmap /\ b # 0 /\ b \in Block \cup {0} /\ OneOwner /\ bitmap \subseteq Block
  BY DEF DataCore, FDTypeOK, Block
<1>7. \A k : ~Truncated(i, k) /\ ~Truncated(i, k)'
  BY NotTruncated
<1>8. CASE Direct(n)
  <2>1. n \in 0 .. NDIRECT /\ n < NDIRECT /\ n \in BlockPlaces /\ n # NDIRECT
    BY <1>8, Limits DEF Direct, BlockPlaces
  <2>2. addrs' = [addrs EXCEPT ![i][n] = b] /\ ents' = [ents EXCEPT ![b] = NoEnts]
    BY <1>8 DEF NowMapped
  <2>3. /\ addrs' \in [Disk -> [0 .. NDIRECT -> Block \cup {0}]]
        /\ \A j \in Disk : j # i => addrs'[j] = addrs[j]
        /\ addrs'[i] = [addrs[i] EXCEPT ![n] = b] /\ addrs'[i][n] = b
        /\ \A k \in 0 .. NDIRECT : k # n => addrs'[i][k] = addrs[i][k]
    BY <1>1, <1>2, <2>1, <2>2
  <2>4. addrs'[i][NDIRECT] = x
    BY <1>2, <1>4, <2>1, <2>3
  <2>5. /\ ents' \in [Block -> [0 .. NINDIRECT - 1 -> Block \cup {0}]]
        /\ \A e \in Block : e # b => ents'[e] = ents[e]
    BY <1>2, <1>3, <2>2
  <2>6. x # 0 => ents'[x] = ents[x]
    BY <1>5, <2>5
  <2>7. ASSUME NEW j \in Disk, j # i
        PROVE  /\ \A k \in BlockPlaces : BlockAt(j, k)' = BlockAt(j, k)
               /\ \A k \in 0 .. MAXFILE - 1 : Mapped(j, k)' = Mapped(j, k)
    <3>1. addrs[j][NDIRECT] # 0 => ents'[addrs[j][NDIRECT]] = ents[addrs[j][NDIRECT]]
      BY <2>5, IndirectOwned
    <3> QED BY <2>3, <2>7, <3>1, PlacesStay
  <2>8. ASSUME NEW k \in BlockPlaces, k # n PROVE BlockAt(i, k)' = BlockAt(i, k)
    <3>1. CASE k <= NDIRECT
      <4>1. k \in 0 .. NDIRECT
        BY <3>1, Limits DEF BlockPlaces
      <4> QED BY <2>3, <2>8, <3>1, <4>1 DEF BlockAt
    <3>2. CASE ~(k <= NDIRECT)
      BY <1>4, <1>7, <2>4, <2>6, <3>2 DEF BlockAt
    <3> QED BY <3>1, <3>2
  <2>9. BlockAt(i, n)' = b /\ BlockAt(i, n) = 0
    BY <1>8, <2>1, <2>3 DEF BlockAt, Mapped
  <2>10. ASSUME NEW k \in 0 .. MAXFILE - 1, k # n PROVE Mapped(i, k)' = Mapped(i, k)
    <3>1. CASE k < NDIRECT
      <4>1. k \in 0 .. NDIRECT
        BY <3>1, Limits
      <4> QED BY <2>3, <2>10, <3>1, <4>1 DEF Mapped, Direct
    <3>2. CASE ~(k < NDIRECT)
      BY <1>4, <2>4, <2>6, <3>2 DEF Mapped, Direct
    <3> QED BY <3>1, <3>2
  <2>11. Mapped(i, n)' = b
    BY <1>8, <2>3 DEF Mapped, Direct
  <2>12. OneOwner'
    <3>1. bitmap' = (bitmap \ {BlockAt(i, n)}) \cup ({b} \ {0})
      BY <1>6, <2>9
    <3>2. \A j \in Disk, k \in BlockPlaces : ~(j = i /\ k = n) => BlockAt(j, k)' = BlockAt(j, k)
      BY <2>7, <2>8
    <3> QED BY <1>1, <1>6, <2>1, <2>9, <3>1, <3>2, OwnerMoves
  <2> QED BY <1>1, <1>4, <2>3, <2>4, <2>5, <2>7, <2>10, <2>11, <2>12
<1>9. CASE ~Direct(n)
  <2>1. /\ n - NDIRECT \in 0 .. NINDIRECT - 1 /\ n + 1 \in BlockPlaces /\ ~(n + 1 <= NDIRECT)
        /\ x # 0 /\ n + 1 - 1 - NDIRECT = n - NDIRECT
    BY <1>4, <1>9, Limits DEF Direct, BlockPlaces
  <2>2. ents' = [ents EXCEPT ![b] = NoEnts, ![x][n - NDIRECT] = b] /\ addrs' = addrs
    BY <1>4, <1>9 DEF NowMapped
  <2>3. /\ x \in Block /\ x \in bitmap /\ x # b /\ \A j \in Disk : addrs[j][NDIRECT] = x => j = i
    BY <1>5, <2>1
  <2>4. /\ ents' \in [Block -> [0 .. NINDIRECT - 1 -> Block \cup {0}]]
        /\ \A e \in Block : e # b /\ e # x => ents'[e] = ents[e]
        /\ ents'[x][n - NDIRECT] = b
        /\ \A k \in 0 .. NINDIRECT - 1 : k # n - NDIRECT => ents'[x][k] = ents[x][k]
    <3>1. PICK E : E = [ents EXCEPT ![b] = NoEnts]
      OBVIOUS
    <3>2. /\ E \in [Block -> [0 .. NINDIRECT - 1 -> Block \cup {0}]]
          /\ \A e \in Block : e # b => E[e] = ents[e]
      BY <1>2, <1>3, <3>1
    <3>3. PICK c : c = n - NDIRECT
      OBVIOUS
    <3>4. ents' = [E EXCEPT ![x] = [E[x] EXCEPT ![c] = b]]
      BY <2>2, <3>1, <3>3
    <3>5. /\ c \in 0 .. NINDIRECT - 1 /\ b \in Block \cup {0} /\ E[x] = ents[x]
          /\ E[x] \in [0 .. NINDIRECT - 1 -> Block \cup {0}]
      BY <1>6, <2>1, <2>3, <3>2, <3>3
    <3>6. PICK F : F = [E[x] EXCEPT ![c] = b]
      OBVIOUS
    <3>7. /\ F \in [0 .. NINDIRECT - 1 -> Block \cup {0}] /\ F[c] = b
          /\ \A k \in 0 .. NINDIRECT - 1 : k # c => F[k] = ents[x][k]
      BY <3>5, <3>6
    <3>8. ents' = [E EXCEPT ![x] = F]
      BY <3>4, <3>6
    <3>9. /\ ents' \in [Block -> [0 .. NINDIRECT - 1 -> Block \cup {0}]] /\ ents'[x] = F
          /\ \A e \in Block : e # x => ents'[e] = E[e]
      BY <2>3, <3>2, <3>7, <3>8
    <3> QED BY <3>2, <3>3, <3>7, <3>9
  <2>5. ASSUME NEW j \in Disk, j # i
        PROVE  /\ \A k \in BlockPlaces : BlockAt(j, k)' = BlockAt(j, k)
               /\ \A k \in 0 .. MAXFILE - 1 : Mapped(j, k)' = Mapped(j, k)
    <3>1. addrs[j][NDIRECT] # 0 => ents'[addrs[j][NDIRECT]] = ents[addrs[j][NDIRECT]]
      BY <2>3, <2>4, <2>5, IndirectOwned
    <3> QED BY <2>2, <2>5, <3>1, PlacesStay
  <2>6. ASSUME NEW k \in BlockPlaces, k # n + 1 PROVE BlockAt(i, k)' = BlockAt(i, k)
    <3>1. CASE k <= NDIRECT
      BY <2>2, <3>1 DEF BlockAt
    <3>2. CASE ~(k <= NDIRECT)
      <4>1. k - 1 - NDIRECT \in 0 .. NINDIRECT - 1 /\ k - 1 - NDIRECT # n - NDIRECT
        BY <2>6, <3>2, Limits DEF BlockPlaces
      <4>2. ents'[x][k - 1 - NDIRECT] = ents[x][k - 1 - NDIRECT]
        BY <2>4, <4>1
      <4> QED BY <1>4, <1>7, <2>2, <3>2, <4>2 DEF BlockAt
    <3> QED BY <3>1, <3>2
  <2>7. BlockAt(i, n + 1) = ents[x][n - NDIRECT] /\ BlockAt(i, n + 1)' = ents'[x][n - NDIRECT]
    <3>1. PICK k : k = n + 1
      OBVIOUS
    <3>2. /\ ~(k <= NDIRECT) /\ addrs[i][NDIRECT] = x /\ addrs'[i][NDIRECT] = x /\ x # 0
          /\ k - 1 - NDIRECT = n - NDIRECT
      BY <1>4, <2>1, <2>2, <3>1
    <3>3. ~Truncated(i, k - 1) /\ ~Truncated(i, k - 1)'
      BY <1>7
    <3>4. BlockAt(i, k) = ents[x][k - 1 - NDIRECT]
      BY <3>2, <3>3 DEF BlockAt
    <3>5. BlockAt(i, k)' = ents'[x][k - 1 - NDIRECT]
      BY <3>2, <3>3 DEF BlockAt
    <3> QED BY <3>1, <3>2, <3>4, <3>5
  <2>8. ents[x][n - NDIRECT] = 0 /\ Mapped(i, n)' = b
    BY <1>4, <1>9, <2>1, <2>2, <2>4 DEF Mapped, Direct
  <2>9. ASSUME NEW k \in 0 .. MAXFILE - 1, k # n PROVE Mapped(i, k)' = Mapped(i, k)
    <3>1. CASE k < NDIRECT
      BY <2>2, <3>1 DEF Mapped, Direct
    <3>2. CASE ~(k < NDIRECT)
      <4>1. k - NDIRECT \in 0 .. NINDIRECT - 1 /\ k - NDIRECT # n - NDIRECT
        BY <2>9, <3>2, Limits
      <4>2. ents'[x][k - NDIRECT] = ents[x][k - NDIRECT]
        BY <2>4, <4>1
      <4> QED BY <1>4, <2>2, <3>2, <4>2 DEF Mapped, Direct
    <3> QED BY <3>1, <3>2
  <2>10. OneOwner'
    <3>1. bitmap' = (bitmap \ {BlockAt(i, n + 1)}) \cup ({b} \ {0}) /\ BlockAt(i, n + 1)' = b
      BY <1>6, <2>4, <2>7, <2>8
    <3>2. \A j \in Disk, k \in BlockPlaces : ~(j = i /\ k = n + 1) => BlockAt(j, k)' = BlockAt(j, k)
      BY <2>5, <2>6
    <3>3. PICK k : k = n + 1
      OBVIOUS
    <3>4. k \in BlockPlaces /\ BlockAt(i, k)' = b /\ bitmap' = (bitmap \ {BlockAt(i, k)}) \cup ({b} \ {0})
      BY <2>1, <3>1, <3>3
    <3>5. \A j \in Disk, y \in BlockPlaces : ~(j = i /\ y = k) => BlockAt(j, y)' = BlockAt(j, y)
      BY <3>2, <3>3
    <3> QED BY <1>1, <1>6, <3>4, <3>5, OwnerMoves
  <2> QED BY <1>1, <1>2, <2>2, <2>4, <2>5, <2>8, <2>9, <2>10
<1> QED BY <1>8, <1>9

LEMMA MapNewKeeps ==
    ASSUME DataCore, NEW p \in Writers, MapNew(p)
    PROVE  DataCore'
<1>1. PICK i : i = io[p].ip
  OBVIOUS
<1>2. PICK n : n = Bn(p)
  OBVIOUS
<1>3. /\ io[p].do = "write" /\ io[p].at < io[p].end /\ io[p].map = 0
      /\ Mapped(i, n) = 0
      /\ Direct(n) \/ addrs[i][NDIRECT] # 0
      /\ UNCHANGED <<size, ilock, fip, off, got>>
  BY <1>1, <1>2 DEF MapNew, Writing
<1>4. PICK b \in Block :
          /\ Balloc(b)
          /\ bytes' = [bytes EXCEPT ![b] = NoBytes]
          /\ IF Direct(n)
             THEN /\ addrs' = [addrs EXCEPT ![i][n] = b]
                  /\ ents'  = [ents EXCEPT ![b] = NoEnts]
                  /\ Log(p, {TheBitmap, b})
             ELSE /\ ents' = [ents EXCEPT ![b] = NoEnts,
                                          ![addrs[i][NDIRECT]][n - NDIRECT] = b]
                  /\ Log(p, {TheBitmap, b, addrs[i][NDIRECT]})
                  /\ UNCHANGED addrs
          /\ io' = [io EXCEPT ![p].map = b]
  BY <1>1, <1>2 DEF MapNew
<1>5. b \in Block /\ b \notin bitmap /\ bitmap' = bitmap \cup {b}
  BY <1>4 DEF Balloc, FreeBlock
<1>6. /\ InCall(p) /\ io[p] \in Doings /\ i \in Disk /\ n \in 0 .. MAXFILE - 1
      /\ FirstBn(p) .. LastBn(p) \subseteq 0 .. MAXFILE - 1 /\ n \in FirstBn(p) .. LastBn(p)
      /\ off[io[p].file] \in Nat
  BY <1>1, <1>2, <1>3, InTheFile DEF DataCore, InCall
<1>7. PICK x : x = addrs[i][NDIRECT]
  OBVIOUS
<1>8. x # 0 => x \in Block
  BY <1>6, <1>7, IndirectOwned
<1>9. PICK S \in SUBSET (Block \cup {TheBitmap}) :
          S \subseteq {TheBitmap, b, x} /\ logged' = [logged EXCEPT ![p] = logged[p] \cup S]
  <2>1. CASE Direct(n)
    <3>1. logged' = [logged EXCEPT ![p] = logged[p] \cup {TheBitmap, b}]
      BY <1>4, <2>1 DEF Log
    <3> QED BY <1>5, <3>1
  <2>2. CASE ~Direct(n)
    <3>1. logged' = [logged EXCEPT ![p] = logged[p] \cup {TheBitmap, b, x}] /\ x # 0
      BY <1>3, <1>4, <1>7, <2>2 DEF Log
    <3> QED BY <1>5, <1>8, <3>1
  <2> QED BY <2>1, <2>2
<1> DEFINE r == [io[p] EXCEPT !.map = b]
<1>10. /\ r \in Doings /\ r.do = "write" /\ r.file = io[p].file /\ r.ip = i /\ r.map = b
       /\ r.at = io[p].at /\ r.end = io[p].end
  <2>1. /\ r \in Doings /\ r.do = "write" /\ r.file = io[p].file /\ r.ip = io[p].ip
        /\ r.map = b /\ r.at = io[p].at /\ r.end = io[p].end
    BY <1>3, <1>5, <1>6 DEF Doings
  <2> QED BY <1>1, <2>1
<1>11. io' = [io EXCEPT ![p] = r]
  BY <1>4 DEF DataCore, FDTypeOK, Doings
<1> HIDE DEF r
<1>12. /\ io' \in [Writers -> Doings] /\ io'[p] = r
       /\ \A q \in Writers : q # p => io'[q] = io[q]
  BY <1>10, <1>11, CallSteps DEF DataCore
<1>13. \A j, k : Truncated(j, k)' <=> Truncated(j, k)
  <2>1. io[p].do # "trunc" /\ io'[p].do # "trunc"
    BY <1>3, <1>10, <1>12
  <2>2. ASSUME NEW q \in Writers, NEW j, NEW k
        PROVE  io'[q].do = "trunc" /\ io'[q].ip = j /\ io'[q].next > k
                  <=> io[q].do = "trunc" /\ io[q].ip = j /\ io[q].next > k
    BY <1>12, <2>1
  <2> QED BY <2>2 DEF Truncated, Truncs
<1>14. /\ addrs' \in [Disk -> [0 .. NDIRECT -> Block \cup {0}]]
       /\ ents' \in [Block -> [0 .. NINDIRECT - 1 -> Block \cup {0}]]
       /\ OneOwner' /\ addrs'[i][NDIRECT] = x
       /\ \A j \in Disk : j # i => addrs'[j] = addrs[j]
       /\ Mapped(i, n)' = b
       /\ \A j \in Disk, k \in 0 .. MAXFILE - 1 :
             ~(j = i /\ k = n) => Mapped(j, k)' = Mapped(j, k)
  <2>1. NowMapped(i, n, b)
    BY <1>4 DEF NowMapped
  <2>2. /\ addrs' \in [Disk -> [0 .. NDIRECT -> Block \cup {0}]]
        /\ ents' \in [Block -> [0 .. NINDIRECT - 1 -> Block \cup {0}]]
        /\ OneOwner' /\ addrs'[i][NDIRECT] = addrs[i][NDIRECT]
        /\ \A j \in Disk : j # i => addrs'[j] = addrs[j]
        /\ Mapped(i, n)' = b
        /\ \A j \in Disk, k \in 0 .. MAXFILE - 1 :
              ~(j = i /\ k = n) => Mapped(j, k)' = Mapped(j, k)
    BY <1>1, <1>3, <1>5, <1>6, <1>7, <1>13, <2>1, MapNewMaps
  <2> QED BY <1>7, <2>2
<1>15. b # 0
  BY <1>5 DEF Block
<1>16. FDTypeOK'
  <2>1. NoBytes \in [0 .. BSIZE - 1 -> Writers \cup {Zero}]
    BY DEF NoBytes
  <2>2. bytes' \in [Block -> [0 .. BSIZE - 1 -> Writers \cup {Zero}]]
    BY <1>4, <2>1 DEF DataCore, FDTypeOK
  <2>3. logged' \in [Writers -> SUBSET (Block \cup {TheBitmap})]
    BY <1>9 DEF DataCore, FDTypeOK
  <2>4. bitmap' \subseteq Block
    BY <1>5 DEF DataCore, FDTypeOK
  <2> QED BY <1>3, <1>12, <1>14, <2>2, <2>3, <2>4 DEF DataCore, FDTypeOK
<1>17. NoHoles'
  <2>1. \A q \in Writers : Truncs(q) => Truncs(q)' /\ io'[q].ip = io[q].ip
    BY <1>3, <1>12 DEF Truncs
  <2>2. \A j \in Disk, k \in 0 .. MAXFILE - 1 : Mapped(j, k) # 0 => Mapped(j, k)' # 0
    BY <1>3, <1>14
  <2> QED BY <1>3, <2>1, <2>2, HolesStay DEF DataCore
<1>18. OffsetsIn' /\ OneInode'
  BY <1>3 DEF DataCore, OffsetsIn, OneInode
<1>19. logged'[p] = logged[p] \cup S /\ \A q \in Writers : q # p => logged'[q] = logged[q]
  BY <1>9 DEF DataCore, FDTypeOK
<1>20. InCall(p)'
  <2>1. OutOfTransaction(p)' /\ TruncHolds(p)'
    BY <1>10, <1>12 DEF OutOfTransaction, TruncHolds, Truncs
  <2>2. Bn(p)' = n /\ FirstBn(p)' = FirstBn(p) /\ LastBn(p)' = LastBn(p)
    BY <1>2, <1>3, <1>10, <1>12 DEF Bn, FirstBn, LastBn
  <2>3. i = io'[p].ip
    BY <1>10, <1>12
  <2>4. WriterHolds(p)'
    <3>1. io'[p].map = Mapped(i, Bn(p))'
      BY <1>10, <1>12, <1>14, <2>2
    <3>2. \A k \in 0 .. MAXFILE - 1 : k * BSIZE < io'[p].at => Mapped(i, k)' # 0
      <4>1. \A k \in 0 .. MAXFILE - 1 : k * BSIZE < io[p].at => Mapped(i, k) # 0
        BY <1>1, <1>3, <1>6 DEF InCall, WriterHolds
      <4> QED BY <1>6, <1>10, <1>12, <1>14, <1>15, <4>1
    <3>3. /\ io'[p].file \in Opens /\ i \in fip'[io'[p].file] /\ ilock'[i] = p
          /\ off'[io'[p].file] <= io'[p].at /\ io'[p].at < io'[p].end
          /\ off'[io'[p].file] < io'[p].end /\ io'[p].at <= io'[p].end
          /\ io'[p].end <= off'[io'[p].file] + Chunk /\ io'[p].end <= MAXFILE * BSIZE
      BY <1>1, <1>3, <1>6, <1>10, <1>12 DEF InCall, WriterHolds
    <3> QED BY <2>3, <3>1, <3>2, <3>3 DEF WriterHolds
  <2>5. LogsItsBlocks(p)'
    <3>1. ASSUME NEW e \in logged'[p]
          PROVE  \/ e \in {TheBitmap, addrs'[i][NDIRECT]}
                 \/ \E k \in FirstBn(p) .. LastBn(p) : e = Mapped(i, k)'
      <4>1. CASE e \in S
        BY <1>6, <1>9, <1>14, <4>1
      <4>2. CASE e \in logged[p]
        <5>1. \/ e \in {TheBitmap, x}
              \/ \E k \in FirstBn(p) .. LastBn(p) : e = Mapped(i, k)
          BY <1>1, <1>3, <1>6, <1>7, <4>2 DEF InCall, LogsItsBlocks
        <5>2. CASE e \in {TheBitmap, x}
          BY <1>14, <5>2
        <5>3. CASE \E k \in FirstBn(p) .. LastBn(p) : e = Mapped(i, k)
          <6>1. PICK k \in FirstBn(p) .. LastBn(p) : e = Mapped(i, k)
            BY <5>3
          <6>2. k = n => e = TheBitmap
            BY <1>3, <6>1 DEF TheBitmap
          <6>3. k # n => e = Mapped(i, k)'
            BY <1>6, <1>14, <6>1
          <6> QED BY <6>1, <6>2, <6>3
        <5> QED BY <5>1, <5>2, <5>3
      <4> QED BY <1>19, <3>1, <4>1, <4>2
    <3> QED BY <2>2, <2>3, <3>1 DEF LogsItsBlocks
  <2> QED BY <2>1, <2>4, <2>5 DEF InCall
<1>21. ASSUME NEW q \in Writers, q # p PROVE InCall(q)'
  <2>0. InCall(q)
    BY DEF DataCore
  <2>1. io[q].do \in {"write", "trunc"} => io[q].ip \in Disk /\ io[q].ip # i
    BY <1>1, <1>3, <1>21, HasLocked
  <2>2. Truncs(q) => \A g \in Opens : io[q].ip \notin fip'[g]
    BY <1>3, <2>0 DEF InCall, TruncHolds
  <2>3. PICK j : j = io[q].ip
    OBVIOUS
  <2>4. io[q].do \in {"write", "trunc"} => \A k \in 0 .. MAXFILE - 1 : Mapped(j, k)' = Mapped(j, k)
    BY <1>14, <2>1, <2>3
  <2>5. io'[q].ip = j
    BY <1>12, <1>21, <2>3
  <2> QED BY <1>3, <1>12, <1>14, <1>19, <1>21, <2>1, <2>2, <2>3, <2>4, <2>5, Undisturbed
<1> QED BY <1>14, <1>16, <1>17, <1>18, <1>20, <1>21 DEF DataCore

\* itrunc(): one place of the file after another.
LEMMA FreeDirectKeeps ==
    ASSUME DataCore, NEW p \in Writers, FreeDirect(p)
    PROVE  DataCore'
<1>1. PICK i : i = io[p].ip
  OBVIOUS
<1>2. PICK k : k = io[p].next
  OBVIOUS
<1> DEFINE r == [io[p] EXCEPT !.next = k + 1]
<1>3. /\ io[p].do = "trunc" /\ k < NDIRECT
      /\ IF addrs[i][k] # 0
         THEN Bfree(p, addrs[i][k]) /\ addrs' = [addrs EXCEPT ![i][k] = 0]
         ELSE UNCHANGED <<bitmap, addrs, logged>>
      /\ UNCHANGED <<bytes, ents, size, ilock, fip, off, got>>
  BY <1>1, <1>2 DEF FreeDirect, Truncs
<1>4. io' = [io EXCEPT ![p] = r]
  BY <1>1, <1>2 DEF FreeDirect, DataCore, FDTypeOK, Doings
<1>5. /\ InCall(p) /\ io[p] \in Doings /\ i \in Disk /\ k \in Nat /\ k \in 0 .. NDIRECT /\ k \in BlockPlaces
      /\ k # NDIRECT /\ k \in 0 .. NDIRECT - 1
  <2>1. io[p] \in Doings /\ InCall(p) /\ i \in Disk
    BY <1>1, <1>3, HasLocked DEF DataCore, FDTypeOK
  <2>2. k \in Nat
    BY <1>2, <2>1 DEF Doings
  <2> QED BY <1>3, <2>1, <2>2, Limits DEF BlockPlaces
<1>6. /\ r \in Doings /\ r.do = "trunc" /\ r.ip = i /\ r.next = k + 1
  <2>1. r \in Doings /\ r.do = "trunc" /\ r.ip = io[p].ip /\ r.next = k + 1
    BY <1>3, <1>5 DEF Doings
  <2> QED BY <1>1, <2>1
<1> HIDE DEF r
<1>7. /\ io' \in [Writers -> Doings] /\ io'[p] = r
      /\ \A q \in Writers : q # p => io'[q] = io[q]
  BY <1>4, <1>6, CallSteps DEF DataCore
<1>8. PICK b : b = addrs[i][k]
  OBVIOUS
<1>9. /\ addrs \in [Disk -> [0 .. NDIRECT -> Block \cup {0}]] /\ 0 \notin bitmap
      /\ bitmap \subseteq Block /\ logged \in [Writers -> SUBSET (Block \cup {TheBitmap})]
  BY DEF DataCore, FDTypeOK, Block
<1>10. /\ bitmap' = bitmap \ {b}
       /\ addrs' = [addrs EXCEPT ![i][k] = 0]
       /\ logged'[p] \subseteq logged[p] \cup {TheBitmap}
       /\ logged' \in [Writers -> SUBSET (Block \cup {TheBitmap})]
       /\ \A q \in Writers : q # p => logged'[q] = logged[q]
  <2>1. CASE b # 0
    <3>1. Bfree(p, b) /\ addrs' = [addrs EXCEPT ![i][k] = 0]
      BY <1>3, <1>8, <2>1
    <3>2. logged' = [logged EXCEPT ![p] = logged[p] \cup {TheBitmap}] /\ bitmap' = bitmap \ {b}
      BY <3>1 DEF Bfree, Log
    <3> QED BY <1>9, <3>1, <3>2
  <2>2. CASE b = 0
    <3>1. bitmap' = bitmap /\ addrs' = addrs /\ logged' = logged
      BY <1>3, <1>8, <2>2
    <3>2. addrs = [addrs EXCEPT ![i][k] = 0]
      BY <1>5, <1>8, <1>9, <2>2
    <3> QED BY <1>9, <2>2, <3>1, <3>2
  <2> QED BY <2>1, <2>2
<1>11. /\ addrs' \in [Disk -> [0 .. NDIRECT -> Block \cup {0}]]
       /\ \A j \in Disk : j # i => addrs'[j] = addrs[j]
       /\ addrs'[i][k] = 0 /\ \A n \in 0 .. NDIRECT : n # k => addrs'[i][n] = addrs[i][n]
  BY <1>5, <1>9, <1>10
<1>12. \A j, n : n \in Nat /\ n >= NDIRECT => (Truncated(j, n)' <=> Truncated(j, n))
  <2>1. io[p].next <= NDIRECT /\ io'[p].next <= NDIRECT
    BY <1>2, <1>3, <1>5, <1>6, <1>7, Limits
  <2> QED BY <1>7, <2>1, TruncatedStays DEF DataCore, FDTypeOK
<1>13. ASSUME NEW j \in Disk, j # i
       PROVE  /\ \A n \in BlockPlaces : BlockAt(j, n)' = BlockAt(j, n)
              /\ \A n \in 0 .. MAXFILE - 1 : Mapped(j, n)' = Mapped(j, n)
  BY <1>3, <1>11, <1>12, <1>13, PlacesStay
<1>14. ASSUME NEW n \in BlockPlaces, n # k PROVE BlockAt(i, n)' = BlockAt(i, n)
  <2>1. CASE n <= NDIRECT
    <3>1. n \in 0 .. NDIRECT
      BY <2>1, Limits DEF BlockPlaces
    <3> QED BY <1>11, <1>14, <2>1, <3>1 DEF BlockAt
  <2>2. CASE ~(n <= NDIRECT)
    <3>1. n - 1 \in Nat /\ n - 1 >= NDIRECT
      BY <2>2, Limits DEF BlockPlaces
    <3>2. Truncated(i, n - 1)' <=> Truncated(i, n - 1)
      BY <1>12, <3>1
    <3>3. addrs'[i][NDIRECT] = addrs[i][NDIRECT] /\ ents' = ents
      BY <1>3, <1>5, <1>11, Limits
    <3> QED BY <2>2, <3>2, <3>3 DEF BlockAt
  <2> QED BY <2>1, <2>2
<1>15. OneOwner'
  <2>1. BlockAt(i, k) = b /\ BlockAt(i, k)' = 0
    BY <1>5, <1>8, <1>11, Limits DEF BlockAt
  <2>2. \A j \in Disk, n \in BlockPlaces : ~(j = i /\ n = k) => BlockAt(j, n)' = BlockAt(j, n)
    BY <1>13, <1>14
  <2>3. bitmap' = (bitmap \ {BlockAt(i, k)}) \cup ({0} \ {0})
    BY <1>10, <2>1
  <2>4. OneOwner /\ 0 \in Block \cup {0}
    BY DEF DataCore
  <2> QED BY <1>5, <1>9, <2>1, <2>2, <2>3, <2>4, OwnerMoves
<1>16. FDTypeOK'
  <2>1. bitmap' \subseteq Block
    BY <1>9, <1>10
  <2> QED BY <1>3, <1>7, <1>10, <1>11, <2>1 DEF DataCore, FDTypeOK
<1>17. NoHoles'
  <2>1. ASSUME NEW j \in Disk, \A q \in Writers : ~(Truncs(q)' /\ io'[q].ip = j),
               NEW n \in 0 .. MAXFILE - 1, n * BSIZE < size'[j]
        PROVE  Mapped(j, n)' # 0
    <3>1. j # i
      BY <1>6, <1>7, <2>1 DEF Truncs
    <3>2. \A q \in Writers : ~(Truncs(q) /\ io[q].ip = j)
      BY <1>1, <1>7, <2>1, <3>1 DEF Truncs
    <3> QED BY <1>3, <1>13, <2>1, <3>1, <3>2 DEF DataCore, NoHoles
  <2> QED BY <2>1 DEF NoHoles, Truncs
<1>18. OffsetsIn' /\ OneInode'
  BY <1>3 DEF DataCore, OffsetsIn, OneInode
<1>19. InCall(p)'
  <2>1. OutOfTransaction(p)' /\ WriterHolds(p)' /\ LogsItsBlocks(p)'
    BY <1>6, <1>7 DEF OutOfTransaction, WriterHolds, LogsItsBlocks
  <2>2. i = io'[p].ip /\ io'[p].next = k + 1
    BY <1>6, <1>7
  <2>3. TruncHolds(p)
    BY <1>5 DEF InCall
  <2>4. \A n \in 0 .. NDIRECT - 1 : n < k + 1 => addrs'[i][n] = 0
    <3>1. ASSUME NEW n \in 0 .. NDIRECT - 1, n < k + 1 PROVE addrs'[i][n] = 0
      <4>1. CASE n = k
        BY <1>11, <4>1
      <4>2. CASE n # k
        <5>1. n < k /\ n \in 0 .. NDIRECT
          BY <1>5, <3>1, <4>2, Limits
        <5>2. addrs[i][n] = 0
          BY <1>1, <1>2, <1>3, <2>3, <3>1, <5>1 DEF TruncHolds, Truncs
        <5> QED BY <1>11, <4>2, <5>1, <5>2
      <4> QED BY <4>1, <4>2
    <3> QED BY <3>1
  <2>5. k + 1 <= MAXFILE /\ ~(k + 1 > NDIRECT)
    BY <1>5, Limits
  <2>6. /\ i \in Disk /\ ilock'[i] = p /\ \A f \in Opens : i \notin fip'[f]
        /\ logged'[p] \subseteq {TheBitmap}
    BY <1>1, <1>3, <1>5, <1>10, <2>3 DEF TruncHolds, Truncs
  <2>7. TruncHolds(p)'
    BY <2>2, <2>4, <2>5, <2>6 DEF TruncHolds
  <2> QED BY <2>1, <2>7 DEF InCall
<1>20. ASSUME NEW q \in Writers, q # p PROVE InCall(q)'
  <2>0. InCall(q)
    BY DEF DataCore
  <2>1. io[q].do \in {"write", "trunc"} => io[q].ip \in Disk /\ io[q].ip # i
    BY <1>1, <1>3, <1>20, HasLocked
  <2>2. Truncs(q) => \A g \in Opens : io[q].ip \notin fip'[g]
    BY <1>3, <2>0 DEF InCall, TruncHolds
  <2>3. PICK j : j = io[q].ip
    OBVIOUS
  <2>4. io[q].do \in {"write", "trunc"} => \A n \in 0 .. MAXFILE - 1 : Mapped(j, n)' = Mapped(j, n)
    BY <1>13, <2>1, <2>3
  <2>5. io'[q].ip = j
    BY <1>7, <1>20, <2>3
  <2> QED BY <1>3, <1>7, <1>10, <1>11, <1>20, <2>1, <2>2, <2>3, <2>4, <2>5, Undisturbed
<1> QED BY <1>15, <1>16, <1>17, <1>18, <1>19, <1>20 DEF DataCore

LEMMA FreeEntryKeeps ==
    ASSUME DataCore, NEW p \in Writers, FreeEntry(p)
    PROVE  DataCore'
<1>1. PICK i : i = io[p].ip
  OBVIOUS
<1>2. PICK k : k = io[p].next
  OBVIOUS
<1>3. PICK x : x = addrs[i][NDIRECT]
  OBVIOUS
<1>4. PICK b : b = ents[x][k - NDIRECT]
  OBVIOUS
<1> DEFINE r == [io[p] EXCEPT !.next = k + 1]
<1>5. /\ io[p].do = "trunc" /\ k - NDIRECT >= 0 /\ k - NDIRECT < NINDIRECT /\ x # 0
      /\ IF b # 0 THEN Bfree(p, b) ELSE UNCHANGED <<bitmap, logged>>
      /\ UNCHANGED <<bytes, ents, addrs, size, ilock, fip, off, got>>
  BY <1>1, <1>2, <1>3, <1>4 DEF FreeEntry, Truncs, PastLast
<1>6. io' = [io EXCEPT ![p] = r]
  BY <1>1, <1>2 DEF FreeEntry, DataCore, FDTypeOK, Doings
<1>7. /\ InCall(p) /\ io[p] \in Doings /\ i \in Disk /\ k \in Nat /\ k + 1 \in BlockPlaces
      /\ k >= NDIRECT /\ k + 1 <= MAXFILE /\ k + 1 - 1 = k
  <2>1. io[p] \in Doings /\ InCall(p) /\ i \in Disk
    BY <1>1, <1>5, HasLocked DEF DataCore, FDTypeOK
  <2>2. k \in Nat
    BY <1>2, <2>1 DEF Doings
  <2> QED BY <1>5, <2>1, <2>2, Limits DEF BlockPlaces
<1>8. /\ r \in Doings /\ r.do = "trunc" /\ r.ip = i /\ r.next = k + 1
  <2>1. r \in Doings /\ r.do = "trunc" /\ r.ip = io[p].ip /\ r.next = k + 1
    BY <1>5, <1>7 DEF Doings
  <2> QED BY <1>1, <2>1
<1> HIDE DEF r
<1>9. /\ io' \in [Writers -> Doings] /\ io'[p] = r
      /\ \A q \in Writers : q # p => io'[q] = io[q]
  BY <1>6, <1>8, CallSteps DEF DataCore
<1>10. /\ 0 \notin bitmap /\ bitmap \subseteq Block
       /\ logged \in [Writers -> SUBSET (Block \cup {TheBitmap})]
  BY DEF DataCore, FDTypeOK, Block
<1>11. /\ bitmap' = bitmap \ {b}
       /\ logged'[p] \subseteq logged[p] \cup {TheBitmap}
       /\ logged' \in [Writers -> SUBSET (Block \cup {TheBitmap})]
       /\ \A q \in Writers : q # p => logged'[q] = logged[q]
  <2>1. CASE b # 0
    <3>1. Bfree(p, b)
      BY <1>5, <2>1
    <3>2. logged' = [logged EXCEPT ![p] = logged[p] \cup {TheBitmap}] /\ bitmap' = bitmap \ {b}
      BY <3>1 DEF Bfree, Log
    <3> QED BY <1>10, <3>2
  <2>2. CASE b = 0
    <3>1. bitmap' = bitmap /\ logged' = logged
      BY <1>5, <2>2
    <3> QED BY <1>10, <2>2, <3>1
  <2> QED BY <2>1, <2>2
<1>12. \A q \in Writers : io[q].do = "trunc" /\ io[q].ip = i => q = p
  BY <1>1, <1>5, HasLocked
<1>13. ASSUME NEW j \in Disk, NEW n \in Nat
       PROVE  Truncated(j, n)' <=> Truncated(j, n) \/ (j = i /\ n = k)
  <2>1. \A q \in Writers : io[q].next \in Nat /\ io'[q].next \in Nat
    BY <1>9 DEF DataCore, FDTypeOK, Doings
  <2>2. ASSUME Truncated(j, n)' PROVE Truncated(j, n) \/ (j = i /\ n = k)
    <3>1. PICK q \in Writers : io'[q].do = "trunc" /\ io'[q].ip = j /\ io'[q].next > n
      BY <2>2 DEF Truncated, Truncs
    <3>2. CASE q = p
      <4>1. j = i /\ k + 1 > n
        BY <1>8, <1>9, <3>1, <3>2
      <4>2. CASE k > n
        BY <1>1, <1>2, <1>5, <4>1, <4>2 DEF Truncated, Truncs
      <4>3. CASE ~(k > n)
        BY <1>7, <4>1, <4>3
      <4> QED BY <4>2, <4>3
    <3>3. CASE q # p
      BY <1>9, <3>1, <3>3 DEF Truncated, Truncs
    <3> QED BY <3>2, <3>3
  <2>3. ASSUME Truncated(j, n) \/ (j = i /\ n = k) PROVE Truncated(j, n)'
    <3>1. CASE j = i /\ n = k
      <4>1. io'[p].do = "trunc" /\ io'[p].ip = j /\ io'[p].next > n
        BY <1>7, <1>8, <1>9, <3>1
      <4> QED BY <4>1 DEF Truncated, Truncs
    <3>2. CASE Truncated(j, n)
      <4>1. PICK q \in Writers : io[q].do = "trunc" /\ io[q].ip = j /\ io[q].next > n
        BY <3>2 DEF Truncated, Truncs
      <4>2. io'[q].do = "trunc" /\ io'[q].ip = j /\ io'[q].next > n
        <5>1. CASE q = p
          BY <1>1, <1>2, <1>7, <1>8, <1>9, <4>1, <5>1
        <5>2. CASE q # p
          BY <1>9, <4>1, <5>2
        <5> QED BY <5>1, <5>2
      <4> QED BY <4>2 DEF Truncated, Truncs
    <3> QED BY <2>3, <3>1, <3>2
  <2> QED BY <2>2, <2>3
<1>14. ~Truncated(i, k)
  BY <1>2, <1>7, <1>12 DEF Truncated, Truncs
<1>15. \A j \in Disk, n \in 0 .. MAXFILE - 1 : Mapped(j, n)' = Mapped(j, n)
  BY <1>5 DEF Mapped
<1>16. ASSUME NEW j \in Disk, NEW n \in BlockPlaces, ~(j = i /\ n = k + 1)
       PROVE  BlockAt(j, n)' = BlockAt(j, n)
  <2>1. CASE n <= NDIRECT
    BY <1>5, <2>1 DEF BlockAt
  <2>2. CASE ~(n <= NDIRECT)
    <3>1. n - 1 \in Nat /\ ~(j = i /\ n - 1 = k)
      BY <1>7, <1>16, <2>2, Limits DEF BlockPlaces
    <3>2. Truncated(j, n - 1)' <=> Truncated(j, n - 1)
      BY <1>13, <3>1
    <3> QED BY <1>5, <2>2, <3>2 DEF BlockAt
  <2> QED BY <2>1, <2>2
<1>17. ASSUME NEW n, n = k + 1 PROVE BlockAt(i, n) = b /\ BlockAt(i, n)' = 0
  <2>1. ~(n <= NDIRECT) /\ n - 1 = k
    BY <1>7, <1>17, Limits
  <2>2. Truncated(i, k)'
    BY <1>7, <1>13
  <2>3. Truncated(i, n - 1)' /\ ~Truncated(i, n - 1)
    BY <1>14, <2>1, <2>2
  <2>4. ents[addrs[i][NDIRECT]][n - 1 - NDIRECT] = b /\ addrs[i][NDIRECT] # 0
    BY <1>3, <1>4, <1>5, <2>1
  <2>5. BlockAt(i, n) = b
    BY <2>1, <2>3, <2>4 DEF BlockAt
  <2>6. BlockAt(i, n)' = 0
    BY <2>1, <2>3 DEF BlockAt
  <2> QED BY <2>5, <2>6
<1>18. OneOwner'
  <2>1. PICK n : n = k + 1
    OBVIOUS
  <2>2. n \in BlockPlaces /\ BlockAt(i, n)' = 0 /\ BlockAt(i, n) = b
    BY <1>7, <1>17, <2>1
  <2>3. bitmap' = (bitmap \ {BlockAt(i, n)}) \cup ({0} \ {0})
    BY <1>11, <2>2
  <2>4. \A j \in Disk, y \in BlockPlaces : ~(j = i /\ y = n) => BlockAt(j, y)' = BlockAt(j, y)
    BY <1>16, <2>1
  <2>5. OneOwner /\ 0 \in Block \cup {0}
    BY DEF DataCore
  <2> QED BY <1>7, <1>10, <2>2, <2>3, <2>4, <2>5, OwnerMoves
<1>19. FDTypeOK'
  <2>1. bitmap' \subseteq Block
    BY <1>10, <1>11
  <2> QED BY <1>5, <1>9, <1>11, <2>1 DEF DataCore, FDTypeOK
<1>20. NoHoles'
  <2>1. \A q \in Writers : Truncs(q) => Truncs(q)' /\ io'[q].ip = io[q].ip
    BY <1>1, <1>8, <1>9 DEF Truncs
  <2> QED BY <1>5, <1>15, <2>1, HolesStay DEF DataCore
<1>21. OffsetsIn' /\ OneInode'
  BY <1>5 DEF DataCore, OffsetsIn, OneInode
<1>22. InCall(p)'
  <2>1. OutOfTransaction(p)' /\ WriterHolds(p)' /\ LogsItsBlocks(p)'
    BY <1>8, <1>9 DEF OutOfTransaction, WriterHolds, LogsItsBlocks
  <2>2. i = io'[p].ip /\ io'[p].next = k + 1
    BY <1>8, <1>9
  <2>3. TruncHolds(p)
    BY <1>7 DEF InCall
  <2>4. \A n \in 0 .. NDIRECT - 1 : addrs'[i][n] = 0
    <3>1. \A n \in 0 .. NDIRECT - 1 : n < k
      BY <1>7, Limits
    <3> QED BY <1>1, <1>2, <1>5, <2>3, <3>1 DEF TruncHolds, Truncs
  <2>5. /\ i \in Disk /\ ilock'[i] = p /\ \A f \in Opens : i \notin fip'[f]
        /\ logged'[p] \subseteq {TheBitmap} /\ addrs'[i][NDIRECT] # 0
    BY <1>1, <1>3, <1>5, <1>7, <1>11, <2>3 DEF TruncHolds, Truncs
  <2>6. TruncHolds(p)'
    BY <1>7, <2>2, <2>4, <2>5 DEF TruncHolds
  <2> QED BY <2>1, <2>6 DEF InCall
<1>23. ASSUME NEW q \in Writers, q # p PROVE InCall(q)'
  <2>0. InCall(q)
    BY DEF DataCore
  <2>1. io[q].do \in {"write", "trunc"} => io[q].ip \in Disk
    BY HasLocked
  <2>2. Truncs(q) => \A g \in Opens : io[q].ip \notin fip'[g]
    BY <1>5, <2>0 DEF InCall, TruncHolds
  <2> QED BY <1>5, <1>9, <1>11, <1>15, <1>23, <2>1, <2>2, Undisturbed
<1> QED BY <1>18, <1>19, <1>20, <1>21, <1>22, <1>23 DEF DataCore

LEMMA EndTruncKeeps ==
    ASSUME DataCore, NEW p \in Writers, EndTrunc(p)
    PROVE  DataCore'
<1>1. PICK i : i = io[p].ip
  OBVIOUS
<1>2. PICK x : x = addrs[i][NDIRECT]
  OBVIOUS
<1>3. /\ io[p].do = "trunc" /\ io[p].next >= NDIRECT
      /\ x = 0 \/ io[p].next - NDIRECT = NINDIRECT
      /\ bitmap' = bitmap \ {x} /\ addrs' = [addrs EXCEPT ![i][NDIRECT] = 0]
      /\ size' = [size EXCEPT ![i] = 0] /\ ilock' = [ilock EXCEPT ![i] = NoWriter]
      /\ io' = [io EXCEPT ![p] = None] /\ logged' = [logged EXCEPT ![p] = {}]
      /\ UNCHANGED <<bytes, ents, fip, off, got>>
  BY <1>1, <1>2 DEF EndTrunc, Truncs, PastLast
<1>4. /\ InCall(p) /\ io[p] \in Doings /\ i \in Disk /\ \A f \in Opens : i \notin fip[f]
      /\ ilock[i] = p /\ NDIRECT \in 0 .. NDIRECT /\ NDIRECT \in BlockPlaces
  BY <1>1, <1>3, HasLocked, Limits DEF DataCore, FDTypeOK, InCall, TruncHolds, Truncs, BlockPlaces
<1>5. /\ io' \in [Writers -> Doings] /\ io'[p] = None
      /\ \A q \in Writers : q # p => io'[q] = io[q]
  BY <1>3, NoneIsACall, CallSteps DEF DataCore
<1>6. \A q \in Writers : io[q].do \in {"write", "trunc"} /\ io[q].ip = i => q = p
  BY <1>1, <1>3, HasLocked
<1>7. /\ addrs' \in [Disk -> [0 .. NDIRECT -> Block \cup {0}]]
      /\ \A j \in Disk : j # i => addrs'[j] = addrs[j]
      /\ addrs'[i][NDIRECT] = 0
      /\ \A n \in 0 .. NDIRECT : n # NDIRECT => addrs'[i][n] = addrs[i][n]
  <2>1. addrs \in [Disk -> [0 .. NDIRECT -> Block \cup {0}]]
    BY DEF DataCore, FDTypeOK
  <2> QED BY <1>3, <1>4, <2>1
<1>8. ASSUME NEW j \in Disk, j # i, NEW k PROVE Truncated(j, k)' <=> Truncated(j, k)
  <2>1. ASSUME NEW q \in Writers
        PROVE  io'[q].do = "trunc" /\ io'[q].ip = j /\ io'[q].next > k
                  <=> io[q].do = "trunc" /\ io[q].ip = j /\ io[q].next > k
    <3>1. CASE q = p
      BY <1>1, <1>5, <1>8, <3>1 DEF None
    <3>2. CASE q # p
      BY <1>5, <3>2
    <3> QED BY <3>1, <3>2
  <2> QED BY <2>1 DEF Truncated, Truncs
<1>9. ASSUME NEW j \in Disk, j # i
      PROVE  /\ \A n \in BlockPlaces : BlockAt(j, n)' = BlockAt(j, n)
             /\ \A n \in 0 .. MAXFILE - 1 : Mapped(j, n)' = Mapped(j, n)
  BY <1>3, <1>7, <1>8, <1>9, PlacesStay
<1>10. ASSUME NEW n \in BlockPlaces, n # NDIRECT PROVE BlockAt(i, n)' = BlockAt(i, n)
  <2>1. CASE n <= NDIRECT
    <3>1. n \in 0 .. NDIRECT
      BY <2>1, Limits DEF BlockPlaces
    <3> QED BY <1>7, <1>10, <2>1, <3>1 DEF BlockAt
  <2>2. CASE ~(n <= NDIRECT)
    <3>1. BlockAt(i, n)' = 0
      BY <1>7, <2>2 DEF BlockAt
    <3>2. BlockAt(i, n) = 0
      <4>1. CASE x = 0
        BY <1>2, <2>2, <4>1 DEF BlockAt
      <4>2. CASE x # 0
        <5>1. io[p].next > n - 1
          BY <1>3, <1>4, <4>2, Limits DEF BlockPlaces, Doings
        <5>2. Truncated(i, n - 1)
          BY <1>1, <1>3, <5>1 DEF Truncated, Truncs
        <5> QED BY <2>2, <5>2 DEF BlockAt
      <4> QED BY <4>1, <4>2
    <3> QED BY <3>1, <3>2
  <2> QED BY <2>1, <2>2
<1>11. OneOwner'
  <2>1. BlockAt(i, NDIRECT) = x /\ BlockAt(i, NDIRECT)' = 0
    BY <1>2, <1>7, Limits DEF BlockAt
  <2>2. \A j \in Disk, n \in BlockPlaces : ~(j = i /\ n = NDIRECT) => BlockAt(j, n)' = BlockAt(j, n)
    BY <1>9, <1>10
  <2>3. bitmap' = (bitmap \ {BlockAt(i, NDIRECT)}) \cup ({0} \ {0})
    BY <1>3, <2>1
  <2>4. OneOwner /\ 0 \in Block \cup {0} /\ 0 \notin bitmap /\ bitmap \subseteq Block
    BY DEF DataCore, FDTypeOK, Block
  <2> QED BY <1>4, <2>1, <2>2, <2>3, <2>4, OwnerMoves
<1>12. MAXFILE * BSIZE \in Nat
  BY Limits, InBlocks
<1>13. /\ size' \in [Disk -> 0 .. MAXFILE * BSIZE] /\ size'[i] = 0
       /\ \A j \in Disk : j # i => size'[j] = size[j]
       /\ ilock'[i] = NoWriter /\ \A j \in Disk : j # i => ilock'[j] = ilock[j]
       /\ ilock' \in [Disk -> Writers \cup {NoWriter}]
       /\ logged'[p] = {} /\ \A q \in Writers : q # p => logged'[q] = logged[q]
       /\ logged' \in [Writers -> SUBSET (Block \cup {TheBitmap})]
       /\ bitmap' \subseteq Block
  BY <1>3, <1>4, <1>12 DEF DataCore, FDTypeOK
<1>14. FDTypeOK'
  BY <1>3, <1>5, <1>7, <1>13 DEF DataCore, FDTypeOK
<1>15. NoHoles'
  <2>1. ASSUME NEW j \in Disk, \A q \in Writers : ~(Truncs(q)' /\ io'[q].ip = j),
               NEW n \in 0 .. MAXFILE - 1, n * BSIZE < size'[j]
        PROVE  Mapped(j, n)' # 0
    <3>1. CASE j = i
      <4>1. n * BSIZE \in Nat
        BY Limits, InBlocks
      <4> QED BY <1>13, <2>1, <3>1, <4>1
    <3>2. CASE j # i
      <4>1. \A q \in Writers : ~(Truncs(q) /\ io[q].ip = j)
        BY <1>1, <1>5, <2>1, <3>2 DEF Truncs
      <4> QED BY <1>9, <1>13, <2>1, <3>2, <4>1 DEF DataCore, NoHoles
    <3> QED BY <3>1, <3>2
  <2> QED BY <2>1 DEF NoHoles, Truncs
<1>16. OffsetsIn' /\ OneInode'
  <2>1. \A f \in Opens : \A j \in fip[f] : j \in Disk /\ j # i
    BY <1>4 DEF DataCore, FDTypeOK
  <2> QED BY <1>3, <1>13, <2>1 DEF DataCore, OffsetsIn, OneInode
<1>17. InCall(p)'
  BY <1>5, <1>13 DEF InCall, OutOfTransaction, WriterHolds, LogsItsBlocks, TruncHolds, Truncs, None
<1>18. ASSUME NEW q \in Writers, q # p PROVE InCall(q)'
  <2>0. InCall(q)
    BY DEF DataCore
  <2>1. io[q].do \in {"write", "trunc"} => io[q].ip \in Disk /\ io[q].ip # i
    BY <1>6, <1>18, HasLocked
  <2>2. Truncs(q) => \A g \in Opens : io[q].ip \notin fip'[g]
    BY <1>3, <2>0 DEF InCall, TruncHolds
  <2>3. PICK j : j = io[q].ip
    OBVIOUS
  <2>4. io[q].do \in {"write", "trunc"} => \A n \in 0 .. MAXFILE - 1 : Mapped(j, n)' = Mapped(j, n)
    BY <1>9, <2>1, <2>3
  <2>5. io'[q].ip = j
    BY <1>5, <1>18, <2>3
  <2> QED BY <1>3, <1>5, <1>7, <1>13, <1>18, <2>1, <2>2, <2>3, <2>4, <2>5, Undisturbed
<1> QED BY <1>11, <1>14, <1>15, <1>16, <1>17, <1>18 DEF DataCore

LEMMA DataInit == FDInit => DataCore
<1> SUFFICES ASSUME FDInit PROVE DataCore
  OBVIOUS
<1>1. MAXFILE * BSIZE \in Nat /\ NDIRECT \in 0 .. NDIRECT
  BY Limits, InBlocks
<1>2. FDTypeOK
  <2>1. NoBytes \in [0 .. BSIZE - 1 -> Writers \cup {Zero}]
    BY DEF NoBytes
  <2>2. NoEnts \in [0 .. NINDIRECT - 1 -> Block \cup {0}]
    BY DEF NoEnts
  <2>3. \A p \in Writers : got[p] \in Seq(Writers \cup {Zero})
    BY EmptySeq DEF FDInit
  <2>4. addrs \in [Disk -> [0 .. NDIRECT -> Block \cup {0}]] /\ size \in [Disk -> 0 .. MAXFILE * BSIZE]
    BY <1>1 DEF FDInit
  <2>5. io \in [Writers -> Doings] /\ got \in [Writers -> Seq(Writers \cup {Zero})]
    BY <2>3, NoneIsACall DEF FDInit
  <2>6. bytes \in [Block -> [0 .. BSIZE - 1 -> Writers \cup {Zero}]]
        /\ ents \in [Block -> [0 .. NINDIRECT - 1 -> Block \cup {0}]]
    BY <2>1, <2>2 DEF FDInit
  <2> QED BY <2>4, <2>5, <2>6 DEF FDInit, FDTypeOK
<1>3. \A i \in Disk, k \in BlockPlaces : BlockAt(i, k) = 0
  <2>1. ASSUME NEW i \in Disk, NEW k \in BlockPlaces PROVE BlockAt(i, k) = 0
    <3>1. addrs[i][NDIRECT] = 0 /\ (k <= NDIRECT => addrs[i][k] = 0)
      BY <1>1, Limits DEF FDInit, BlockPlaces
    <3> QED BY <3>1 DEF BlockAt
  <2> QED BY <2>1
<1>4. OneOwner
  BY <1>3 DEF OneOwner, FDInit
<1>5. NoHoles
  <2>1. \A k \in 0 .. MAXFILE - 1 : k * BSIZE \in Nat
    BY Limits, InBlocks
  <2> QED BY <2>1 DEF NoHoles, FDInit
<1>6. OffsetsIn /\ OneInode
  BY DEF OffsetsIn, OneInode, FDInit
<1>7. ASSUME NEW p \in Writers PROVE InCall(p)
  BY DEF FDInit, InCall, OutOfTransaction, WriterHolds, LogsItsBlocks, TruncHolds, Truncs, None
<1> QED BY <1>2, <1>4, <1>5, <1>6, <1>7 DEF DataCore

LEMMA DataStutters ==
    ASSUME DataCore, UNCHANGED fdvars
    PROVE  DataCore'
<1> USE DEF fdvars
<1>1. FDTypeOK' /\ OffsetsIn' /\ OneInode' /\ NoHoles'
  BY DEF DataCore, FDTypeOK, OffsetsIn, OneInode, NoHoles, Mapped, Truncs
<1>2. OneOwner'
  BY DEF DataCore, OneOwner, BlockAt, Truncated, Truncs
<1>3. ASSUME NEW q \in Writers PROVE InCall(q)'
  <2>1. OutOfTransaction(q)' <=> OutOfTransaction(q)
    BY DEF OutOfTransaction
  <2>2. (\A j, k : Mapped(j, k)' = Mapped(j, k)) /\ Bn(q)' = Bn(q)
    BY DEF Mapped, Bn
  <2>3. WriterHolds(q)' <=> WriterHolds(q)
    BY <2>2 DEF WriterHolds
  <2>4. FirstBn(q)' = FirstBn(q) /\ LastBn(q)' = LastBn(q)
    BY DEF FirstBn, LastBn
  <2>5. LogsItsBlocks(q)' <=> LogsItsBlocks(q)
    BY <2>2, <2>4 DEF LogsItsBlocks
  <2>6. TruncHolds(q)' <=> TruncHolds(q)
    BY DEF TruncHolds, Truncs
  <2>7. InCall(q)
    BY DEF DataCore
  <2> QED BY <2>1, <2>3, <2>5, <2>6, <2>7 DEF InCall
<1> QED BY <1>1, <1>2, <1>3 DEF DataCore

LEMMA DataStep == DataCore /\ [FDNext]_fdvars => DataCore'
<1> SUFFICES ASSUME DataCore, [FDNext]_fdvars PROVE DataCore'
  OBVIOUS
<1>1. CASE \E f \in Opens : CloseFile(f) \/ \E i \in Disk : Open(f, i)
  BY <1>1, CloseFileKeeps, OpenKeeps
<1>2. ASSUME NEW p \in Writers, \E f \in Opens, n \in Lengths : Read(p, f, n) \/ StartWrite(p, f, n)
      PROVE  DataCore'
  BY <1>2, ReadKeeps, StartWriteKeeps
<1>3. ASSUME NEW p \in Writers, BackToUser(p) \/ StartChunk(p) \/ EndWrite(p) PROVE DataCore'
  BY <1>3, BackToUserKeeps, StartChunkKeeps, EndWriteKeeps
<1>4. ASSUME NEW p \in Writers, Writei(p) PROVE DataCore'
  BY <1>4, MapIndirectKeeps, MapNewKeeps, MapOldKeeps, CopyKeeps, EndChunkKeeps DEF Writei
<1>5. ASSUME NEW p \in Writers, (\E i \in Disk : StartTrunc(p, i)) \/ Itrunc(p) PROVE DataCore'
  BY <1>5, StartTruncKeeps, FreeDirectKeeps, FreeEntryKeeps, EndTruncKeeps DEF Itrunc
<1>6. CASE UNCHANGED fdvars
  BY <1>6, DataStutters
<1> QED BY <1>1, <1>2, <1>3, <1>4, <1>5, <1>6 DEF FDNext

(***************************************************************************)
(* What a transaction logs.                                                *)
(***************************************************************************)

LEMMA ImageSize ==
    ASSUME NEW a \in Int, NEW b \in Int, NEW f, NEW T, T = {f[k] : k \in a .. b}
    PROVE  IsFiniteSet(T) /\ Cardinality(T) \in Nat /\ (a <= b => Cardinality(T) <= b - a + 1)
<1>1. IsFiniteSet(a .. b) /\ Cardinality(a .. b) = IF a > b THEN 0 ELSE b - a + 1
  BY FS_Interval
<1> DEFINE g == [k \in a .. b |-> f[k]]
<1>2. g \in Surjection(a .. b, T)
  BY DEF Surjection
<1>3. IsFiniteSet(T) /\ Cardinality(T) <= Cardinality(a .. b)
  BY <1>1, <1>2, FS_Surjection
<1>4. Cardinality(T) \in Nat
  BY <1>3, FS_CardinalityType
<1> QED BY <1>1, <1>3, <1>4

\* One element more makes a set larger by one at most.
LEMMA OneMoreAtMost ==
    ASSUME NEW S, NEW x, NEW m \in Nat, IsFiniteSet(S), Cardinality(S) \in Nat, Cardinality(S) <= m
    PROVE  /\ IsFiniteSet(S \cup {x}) /\ Cardinality(S \cup {x}) \in Nat
           /\ Cardinality(S \cup {x}) <= m + 1
<1>1. PICK c \in Nat : c = Cardinality(S)
  OBVIOUS
<1>2. IsFiniteSet(S \cup {x}) /\ (Cardinality(S \cup {x}) = c \/ Cardinality(S \cup {x}) = c + 1)
  BY <1>1, FS_AddElement
<1>3. c \in Nat /\ c + 1 \in Nat /\ c <= m + 1 /\ c + 1 <= m + 1
  BY <1>1
<1> QED BY <1>2, <1>3

\* A chunk lies on one block more than it is long.
LEMMA ChunkBlocks ==
    ASSUME NEW o \in Nat, NEW e \in Nat, NEW m \in Nat, o < e, e <= o + m * BSIZE
    PROVE  (e - 1) \div BSIZE <= (o \div BSIZE) + m
<1> DEFINE x == o \div BSIZE
           y == (e - 1) \div BSIZE
<1>1. e - 1 \in Nat
  OBVIOUS
<1>2. /\ x \in Nat /\ o < x * BSIZE + BSIZE /\ x * BSIZE \in Nat
      /\ y \in Nat /\ y * BSIZE <= e - 1 /\ y * BSIZE \in Nat
      /\ m * BSIZE \in Nat /\ BSIZE \in Nat
  BY <1>1, InBlocks, Limits
<1> HIDE DEF x, y
<1>3. /\ x + m \in Nat /\ (x + m) * BSIZE = x * BSIZE + m * BSIZE
      /\ x + m + 1 \in Nat /\ (x + m + 1) * BSIZE = (x + m) * BSIZE + BSIZE
  BY <1>2, InBlocks
<1>4. y * BSIZE < (x + m + 1) * BSIZE
  BY <1>2, <1>3
<1>5. y < x + m + 1
  BY <1>2, <1>3, <1>4, InBlocks
<1>6. y <= x + m
  BY <1>2, <1>5
<1> QED BY <1>6 DEF x, y

LEMMA ChunkFits == DataCore => OpFits
<1> SUFFICES ASSUME DataCore, NEW p \in Writers
             PROVE  Cardinality(logged[p]) + 1 + 2 <= MAXOPBLOCKS
  BY DEF OpFits
<1>1. InCall(p) /\ io[p] \in Doings
  BY DEF DataCore, FDTypeOK
<1>2. IsFiniteSet({TheBitmap}) /\ Cardinality({TheBitmap}) = 1
  BY FS_Singleton
<1>3. CASE io[p].do # "write"
  <2>1. logged[p] \subseteq {TheBitmap}
    BY <1>1, <1>3 DEF InCall, OutOfTransaction, TruncHolds, Truncs, Doings
  <2>2. Cardinality(logged[p]) <= 1 /\ Cardinality(logged[p]) \in Nat
    BY <1>2, <2>1, FS_Subset, FS_CardinalityType
  <2> QED BY <2>2, Limits
<1>4. CASE io[p].do = "write"
  <2>1. PICK o : o = off[io[p].file]
    OBVIOUS
  <2>2. PICK e : e = io[p].end
    OBVIOUS
  <2>3. PICK x : x = addrs[io[p].ip][NDIRECT]
    OBVIOUS
  <2>4. PICK m \in Nat : Chunk = m * BSIZE /\ m + 6 <= MAXOPBLOCKS
    BY ChunkSize
  <2>5. o \in Nat /\ e \in Nat /\ o < e /\ e <= o + m * BSIZE
        /\ FirstBn(p) = o \div BSIZE /\ LastBn(p) = (e - 1) \div BSIZE
    BY <1>1, <1>4, <2>1, <2>2, <2>4, InTheFile DEF InCall, WriterHolds, DataCore, FirstBn, LastBn
  <2>6. FirstBn(p) \in Nat /\ LastBn(p) \in Nat
    BY <1>1, <1>4, InTheFile DEF InCall, DataCore
  <2>7. LastBn(p) <= FirstBn(p) + m
    BY <2>4, <2>5, ChunkBlocks
  <2>8. FirstBn(p) <= LastBn(p)
    <3>1. o <= e - 1 /\ e - 1 \in Nat
      BY <2>5
    <3> QED BY <2>5, <3>1, Ordered
  <2>9. PICK f : f = [k \in FirstBn(p) .. LastBn(p) |-> Mapped(io[p].ip, k)]
    OBVIOUS
  <2>10. PICK T : T = {f[k] : k \in FirstBn(p) .. LastBn(p)}
    OBVIOUS
  <2>11. IsFiniteSet(T) /\ Cardinality(T) \in Nat /\ Cardinality(T) <= m + 1
    <3>1. PICK a \in Int : a = FirstBn(p)
      BY <2>6
    <3>2. PICK b \in Int : b = LastBn(p)
      BY <2>6
    <3>3. T = {f[k] : k \in a .. b} /\ a <= b /\ b <= a + m /\ a \in Int /\ b \in Int
      BY <2>7, <2>8, <2>10, <3>1, <3>2
    <3>4. IsFiniteSet(T) /\ Cardinality(T) \in Nat /\ (a <= b => Cardinality(T) <= b - a + 1)
      BY <3>3, ImageSize
    <3>5. PICK c \in Nat : c = Cardinality(T)
      BY <3>4
    <3>6. c <= m + 1
      BY <2>4, <3>3, <3>4, <3>5
    <3> QED BY <3>4, <3>5, <3>6
  <2>12. /\ IsFiniteSet(T \cup {TheBitmap})
         /\ Cardinality(T \cup {TheBitmap}) \in Nat /\ Cardinality(T \cup {TheBitmap}) <= m + 2
    <3>1. m + 1 \in Nat /\ (m + 1) + 1 = m + 2
      BY <2>4
    <3>2. /\ IsFiniteSet(T \cup {TheBitmap}) /\ Cardinality(T \cup {TheBitmap}) \in Nat
          /\ Cardinality(T \cup {TheBitmap}) <= (m + 1) + 1
      BY <2>11, <3>1, OneMoreAtMost
    <3> QED BY <3>1, <3>2
  <2>13. PICK U : U = (T \cup {TheBitmap}) \cup {x}
    OBVIOUS
  <2>14. IsFiniteSet(U) /\ Cardinality(U) <= m + 3 /\ Cardinality(U) \in Nat
    <3>1. m + 2 \in Nat
      BY <2>4
    <3>2. IsFiniteSet(U) /\ Cardinality(U) \in Nat /\ Cardinality(U) <= (m + 2) + 1
      BY <2>12, <2>13, <3>1, OneMoreAtMost
    <3>3. (m + 2) + 1 = m + 3
      BY <2>4
    <3> QED BY <3>2, <3>3
  <2>15. logged[p] \subseteq U
    <3>1. ASSUME NEW b \in logged[p] PROVE b \in U
      <4>1. \/ b \in {TheBitmap, x}
            \/ \E k \in FirstBn(p) .. LastBn(p) : b = Mapped(io[p].ip, k)
        BY <1>1, <1>4, <2>3, <3>1 DEF InCall, LogsItsBlocks
      <4>2. (\E k \in FirstBn(p) .. LastBn(p) : b = Mapped(io[p].ip, k)) => b \in T
        BY <2>9, <2>10
      <4> QED BY <2>13, <4>1, <4>2
    <3> QED BY <3>1
  <2>16. Cardinality(logged[p]) <= Cardinality(U) /\ Cardinality(logged[p]) \in Nat
    BY <2>14, <2>15, FS_Subset, FS_CardinalityType
  <2> QED BY <2>4, <2>14, <2>16, Limits
<1> QED BY <1>3, <1>4

\* Whatever the processes that write, read, truncate and close files do at the same
\* time, a block in use belongs to one place of one file and the bitmap knows it, a file
\* has no holes, offsets stay inside, and a chunk never logs more than begin_op() has
\* reserved (fs.c balloc, bmap, itrunc, readi, writei; file.c filewrite).
THEOREM DataInvariant == FDSpec => []DataIInv
<1>1. FDInit => DataCore
  BY DataInit
<1>2. DataCore /\ [FDNext]_fdvars => DataCore'
  BY DataStep
<1>3. DataCore => DataIInv
  BY ChunkFits DEF DataIInv
<1> QED BY <1>1, <1>2, <1>3, PTL DEF FDSpec

(***************************************************************************)
(* The contents of files as their readers find them: FileBytes.            *)
(***************************************************************************)
UnderTruncation(j) == \E q \in Writers : Truncs(q) /\ io[q].ip = j
AtWork(q, j)       == io[q].do \in {"write", "trunc"} /\ io[q].ip = j
Writes(q, f)       == io[q].do = "write" /\ io[q].file = f

\* A file nobody has locked, and one that w is writing.
AtRest(j)    == [k \in 1 .. size[j] |-> Byte(j, k - 1)]
WrittenBy(w, j) ==
    [k \in 1 .. Grown(j, io[w].end) |->
        IF k > io[w].at /\ k <= io[w].end THEN w ELSE Byte(j, k - 1)]

\* The one who writes a file has it for itself.
LEMMA TheWriter ==
    ASSUME DataCore, NEW w \in Writers, io[w].do = "write", NEW j, j = io[w].ip
    PROVE  j \in Disk /\ WriterOf(j) = {w} /\ ~UnderTruncation(j) /\ EndOf(j) = Grown(j, io[w].end)
<1>1. j \in Disk /\ ilock[j] = w
  BY HasLocked
<1>2. ASSUME NEW q \in Writers, io[q].do \in {"write", "trunc"}, io[q].ip = j PROVE q = w
  BY <1>1, <1>2, HasLocked
<1>3. WriterOf(j) = {w}
  <2>1. w \in WriterOf(j)
    BY DEF WriterOf
  <2>2. \A q \in WriterOf(j) : q = w
    BY <1>2 DEF WriterOf
  <2> QED BY <2>1, <2>2
<1>4. ~UnderTruncation(j)
  BY <1>2 DEF UnderTruncation, Truncs
<1>5. (CHOOSE q \in WriterOf(j) : TRUE) = w
  BY <1>3
<1> QED BY <1>1, <1>3, <1>4, <1>5 DEF EndOf

LEMMA NobodyAtWork ==
    ASSUME DataCore, NEW j \in Disk, ilock[j] = NoWriter
    PROVE  WriterOf(j) = {} /\ ~UnderTruncation(j) /\ \A q \in Writers : ~AtWork(q, j)
<1>1. ASSUME NEW q \in Writers PROVE ~AtWork(q, j)
  BY HasLocked, Limits DEF AtWork
<1> QED BY <1>1 DEF AtWork, WriterOf, UnderTruncation, Truncs

\* Who has a file open and writes it, has locked it.
LEMMA NobodyWrites ==
    ASSUME DataCore, NEW f \in Opens, NEW i \in fip[f], ilock[i] = NoWriter
    PROVE  i \in Disk /\ fip[f] = {i} /\ \A q \in Writers : ~Writes(q, f)
<1>1. i \in Disk /\ fip[f] = {i}
  BY DEF DataCore, FDTypeOK, OneInode
<1>2. ASSUME NEW q \in Writers, Writes(q, f) PROVE FALSE
  <2>1. io[q].ip \in fip[f] /\ ilock[io[q].ip] = q
    BY <1>2 DEF Writes, DataCore, InCall, WriterHolds
  <2> QED BY <1>1, <2>1, Limits
<1> QED BY <1>1, <1>2

\* The bytes a reader finds, but for those being written, are on blocks of the file.
LEMMA Needed ==
    ASSUME DataCore, NEW j \in Disk, ~UnderTruncation(j), NEW k \in 1 .. EndOf(j), k \in Nat,
           ~(\E q \in WriterOf(j) : k > io[q].at /\ k <= io[q].end)
    PROVE  /\ k - 1 \in Nat /\ k - 1 < MAXFILE * BSIZE
           /\ (k - 1) \div BSIZE \in 0 .. MAXFILE - 1 /\ Mapped(j, (k - 1) \div BSIZE) # 0
<1>1. size[j] \in Nat /\ size[j] <= MAXFILE * BSIZE /\ MAXFILE * BSIZE \in Nat
  <2>1. MAXFILE * BSIZE \in Nat
    BY Limits, InBlocks
  <2> QED BY <2>1 DEF DataCore, FDTypeOK
<1>2. k - 1 \in Nat /\ (k - 1) + 1 = k /\ k >= 1
  OBVIOUS
<1>3. ((k - 1) \div BSIZE) * BSIZE <= k - 1 /\ ((k - 1) \div BSIZE) * BSIZE \in Nat
  BY <1>2, InBlocks
<1>4. CASE k <= size[j]
  <2>1. k - 1 < MAXFILE * BSIZE
    BY <1>1, <1>2, <1>4
  <2>2. (k - 1) \div BSIZE \in 0 .. MAXFILE - 1
    BY <1>2, <2>1, InFile
  <2>3. ((k - 1) \div BSIZE) * BSIZE < size[j]
    BY <1>1, <1>2, <1>3, <1>4
  <2>4. Mapped(j, (k - 1) \div BSIZE) # 0
    BY <2>2, <2>3 DEF DataCore, NoHoles, UnderTruncation
  <2> QED BY <1>2, <2>1, <2>2, <2>4
<1>5. CASE ~(k <= size[j])
  <2>1. PICK w \in Writers : io[w].do = "write" /\ j = io[w].ip
    BY <1>1, <1>5 DEF EndOf, WriterOf
  <2>2. WriterOf(j) = {w} /\ EndOf(j) = Grown(j, io[w].end)
    BY <2>1, TheWriter
  <2>3. WriterHolds(w)
    BY DEF DataCore, InCall
  <2>4. io[w].at \in Nat /\ io[w].end \in Nat
    BY <2>1, <2>3, InTheFile DEF DataCore
  <2>5. k <= io[w].end
    BY <1>1, <1>5, <2>2, <2>4 DEF Grown
  <2>6. k <= io[w].at
    BY <2>2, <2>4, <2>5
  <2>7. io[w].at <= io[w].end /\ io[w].end <= MAXFILE * BSIZE
        /\ \A n \in 0 .. MAXFILE - 1 : n * BSIZE < io[w].at => Mapped(j, n) # 0
    BY <2>1, <2>3 DEF WriterHolds
  <2>8. k - 1 < MAXFILE * BSIZE
    BY <1>1, <1>2, <2>4, <2>6, <2>7
  <2>9. (k - 1) \div BSIZE \in 0 .. MAXFILE - 1
    BY <1>2, <2>8, InFile
  <2>10. ((k - 1) \div BSIZE) * BSIZE < io[w].at
    BY <1>2, <1>3, <2>4, <2>6
  <2> QED BY <1>2, <2>7, <2>8, <2>9, <2>10
<1> QED BY <1>4, <1>5

\* What Content and Position are, by what the processes do.
Known ==
    /\ \A w \in Writers, j \in Disk :
          io[w].do = "write" /\ io[w].ip = j => Content(j) = WrittenBy(w, j)
    /\ \A j \in Disk : ilock[j] = NoWriter => Content(j) = AtRest(j)
    /\ \A w \in Writers, f \in Opens : Writes(w, f) => Position(f) = io[w].end
    /\ \A f \in Opens : (\A w \in Writers : ~Writes(w, f)) => Position(f) = off[f]

LEMMA ContentsKnown == DataCore => Known
<1> SUFFICES ASSUME DataCore PROVE Known
  OBVIOUS
<1>1. ASSUME NEW w \in Writers, NEW j \in Disk, io[w].do = "write", io[w].ip = j
      PROVE  Content(j) = WrittenBy(w, j)
  <2>2. WriterOf(j) = {w} /\ ~UnderTruncation(j) /\ EndOf(j) = Grown(j, io[w].end)
    BY <1>1, TheWriter
  <2>3. (CHOOSE q \in WriterOf(j) : TRUE) = w
    BY <2>2
  <2>4. \A k : (\E q \in WriterOf(j) : k > io[q].at /\ k <= io[q].end) <=>
                  k > io[w].at /\ k <= io[w].end
    BY <2>2
  <2>5. Content(j) = [k \in 1 .. Grown(j, io[w].end) |->
                        IF k > io[w].at /\ k <= io[w].end THEN w ELSE Byte(j, k - 1)]
    BY <2>2, <2>3, <2>4, Zenon DEF Content, UnderTruncation
  <2> QED BY <2>5 DEF WrittenBy
<1>2. ASSUME NEW j \in Disk, ilock[j] = NoWriter PROVE Content(j) = AtRest(j)
  <2>1. WriterOf(j) = {} /\ ~UnderTruncation(j)
    BY <1>2, NobodyAtWork
  <2>2. EndOf(j) = size[j]
    BY <2>1 DEF EndOf
  <2> QED BY <2>1, <2>2 DEF Content, AtRest, UnderTruncation
<1>3. ASSUME NEW w \in Writers, NEW f \in Opens, Writes(w, f) PROVE Position(f) = io[w].end
  <2>1. io[w].do = "write" /\ io[w].file = f
    BY <1>3 DEF Writes
  <2> DEFINE W == {q \in Writers : io[q].do = "write" /\ io[q].file = f}
  <2>2. \A q \in W : q = w
    <3>1. ASSUME NEW q \in W PROVE q = w
      <4>1. q \in Writers /\ io[q].do = "write" /\ io[q].file = f
        OBVIOUS
      <4>2. fip[f] = {io[q].ip} /\ fip[f] = {io[w].ip}
        BY <2>1, <4>1, InTheFile DEF DataCore, InCall
      <4>3. ilock[io[q].ip] = q /\ ilock[io[w].ip] = w
        BY <2>1, <4>1, HasLocked
      <4> QED BY <4>2, <4>3
    <3> QED BY <3>1
  <2>3. w \in W
    BY <2>1
  <2> HIDE DEF W
  <2>4. W # {} /\ (CHOOSE q \in W : TRUE) = w
    BY <2>2, <2>3
  <2> QED BY <2>4 DEF Position, W
<1>4. ASSUME NEW f \in Opens, \A w \in Writers : ~Writes(w, f) PROVE Position(f) = off[f]
  <2>1. {q \in Writers : io[q].do = "write" /\ io[q].file = f} = {}
    BY <1>4 DEF Writes
  <2> QED BY <2>1 DEF Position
<1> QED BY <1>1, <1>2, <1>3, <1>4 DEF Known

LEMMA ContentsKnownNext == DataCore' => Known'
BY ContentsKnown, PTL

\* A step leaves the content of a file alone when those at work on it stay where they are
\* and no byte in use changes; and a position, when nobody writes there anew.
LEMMA ContentStays ==
    ASSUME DataCore, NEW j \in Disk, size'[j] = size[j],
           \A q \in Writers :
              \/ /\ io'[q].do = io[q].do /\ io'[q].ip = io[q].ip
                 /\ io'[q].at = io[q].at /\ io'[q].end = io[q].end
              \/ ~AtWork(q, j) /\ ~AtWork(q, j)',
           \/ UnderTruncation(j)
           \/ \A n \in 0 .. MAXFILE - 1 : Mapped(j, n) # 0 =>
                 Mapped(j, n)' = Mapped(j, n) /\ bytes'[Mapped(j, n)] = bytes[Mapped(j, n)]
    PROVE  Content(j)' = Content(j)
<1>1. \A q \in Writers : /\ io'[q].do = "write" /\ io'[q].ip = j <=> io[q].do = "write" /\ io[q].ip = j
                         /\ io'[q].do = "trunc" /\ io'[q].ip = j <=> io[q].do = "trunc" /\ io[q].ip = j
                         /\ io[q].do = "write" /\ io[q].ip = j =>
                               io'[q].at = io[q].at /\ io'[q].end = io[q].end
  BY DEF AtWork
<1>2. PICK W : W = WriterOf(j)
  OBVIOUS
<1>3. WriterOf(j)' = W /\ WriterOf(j) = W
  BY <1>1, <1>2 DEF WriterOf
<1>4. UnderTruncation(j)' <=> UnderTruncation(j)
  BY <1>1 DEF UnderTruncation, Truncs
<1>5. \A q \in W : io'[q].at = io[q].at /\ io'[q].end = io[q].end
  BY <1>1, <1>2 DEF WriterOf
<1>6. PICK w : w = CHOOSE q \in W : TRUE
  OBVIOUS
<1>7. EndOf(j)' = EndOf(j)
  <2>1. CASE W = {}
    BY <1>3, <2>1 DEF EndOf
  <2>2. CASE W # {}
    <3>1. w \in W
      BY <1>6, <2>2
    <3>2. EndOf(j) = Grown(j, io[w].end) /\ EndOf(j)' = Grown(j, io[w].end)'
      BY <1>3, <1>6, <2>2 DEF EndOf
    <3>3. Grown(j, io[w].end)' = Grown(j, io[w].end)
      BY <1>5, <3>1 DEF Grown
    <3> QED BY <3>2, <3>3
  <2> QED BY <2>1, <2>2
<1>8. CASE UnderTruncation(j)
  BY <1>4, <1>8 DEF Content, UnderTruncation
<1>9. CASE ~UnderTruncation(j)
  <2>1. PICK e : e = EndOf(j)
    OBVIOUS
  <2> DEFINE being(k) == \E q \in W : k > io[q].at /\ k <= io[q].end
  <2>2. \A k : being(k)' <=> being(k)
    BY <1>5
  <2>3. Content(j) = [k \in 1 .. e |-> IF being(k) THEN w ELSE Byte(j, k - 1)]
    BY <1>3, <1>6, <1>9, <2>1 DEF Content, UnderTruncation
  <2>4. Content(j)' = [k \in 1 .. e |-> IF being(k)' THEN w ELSE Byte(j, k - 1)']
    BY <1>3, <1>4, <1>6, <1>7, <1>9, <2>1 DEF Content, UnderTruncation
  <2>5. ASSUME NEW k \in 1 .. e, ~being(k) PROVE Byte(j, k - 1)' = Byte(j, k - 1)
    <3>1. ~(\E q \in WriterOf(j) : k > io[q].at /\ k <= io[q].end)
      BY <1>3, <2>5
    <3>2. k \in 1 .. EndOf(j) /\ k \in Nat
      BY <2>1
    <3>3. (k - 1) \div BSIZE \in 0 .. MAXFILE - 1 /\ Mapped(j, (k - 1) \div BSIZE) # 0
      BY <1>9, <3>1, <3>2, Needed
    <3>4. PICK n \in 0 .. MAXFILE - 1 : n = (k - 1) \div BSIZE
      BY <3>3
    <3>5. Mapped(j, n)' = Mapped(j, n) /\ bytes'[Mapped(j, n)] = bytes[Mapped(j, n)]
      BY <1>9, <3>3, <3>4
    <3>6. Byte(j, k - 1) = bytes[Mapped(j, n)][(k - 1) % BSIZE]
      BY <3>4 DEF Byte
    <3>7. Byte(j, k - 1)' = bytes'[Mapped(j, n)'][(k - 1) % BSIZE]
      BY <3>4 DEF Byte
    <3> QED BY <3>5, <3>6, <3>7
  <2> HIDE DEF being
  <2>6. \A k \in 1 .. e : (IF being(k)' THEN w ELSE Byte(j, k - 1)') = IF being(k) THEN w ELSE Byte(j, k - 1)
    BY <2>2, <2>5
  <2> QED BY <2>3, <2>4, <2>6
<1> QED BY <1>8, <1>9

LEMMA PositionStays ==
    ASSUME NEW f \in Opens, off'[f] = off[f],
           \A q \in Writers :
              \/ io'[q].do = io[q].do /\ io'[q].file = io[q].file /\ io'[q].end = io[q].end
              \/ ~Writes(q, f) /\ ~Writes(q, f)'
    PROVE  Position(f)' = Position(f)
<1>1. \A q \in Writers : /\ io'[q].do = "write" /\ io'[q].file = f <=> io[q].do = "write" /\ io[q].file = f
                         /\ io[q].do = "write" /\ io[q].file = f => io'[q].end = io[q].end
  BY DEF Writes
<1>2. PICK W : W = {q \in Writers : io[q].do = "write" /\ io[q].file = f}
  OBVIOUS
<1>3. W = {q \in Writers : io'[q].do = "write" /\ io'[q].file = f}
  BY <1>1, <1>2
<1>4. PICK w : w = CHOOSE q \in W : TRUE
  OBVIOUS
<1>5. Position(f) = (IF W = {} THEN off[f] ELSE io[w].end)
      /\ Position(f)' = (IF W = {} THEN off'[f] ELSE io'[w].end)
  <2> DEFINE S == {q \in Writers : io[q].do = "write" /\ io[q].file = f}
  <2>1. Position(f) = IF S = {} THEN off[f] ELSE io[CHOOSE q \in S : TRUE].end
    BY DEF Position
  <2>2. Position(f)' = IF S' = {} THEN off'[f] ELSE io'[CHOOSE q \in S' : TRUE].end
    BY DEF Position
  <2>3. S = W /\ S' = W
    BY <1>2, <1>3
  <2> HIDE DEF S
  <2> QED BY <1>4, <2>1, <2>2, <2>3
<1>6. W # {} => io'[w].end = io[w].end
  <2>1. W # {} => w \in W
    BY <1>4
  <2> QED BY <1>1, <1>2, <2>1
<1> QED BY <1>5, <1>6

\* Steps that FileBytes does not see.
LEMMA Quiet ==
    ASSUME \A j \in Disk : Content(j)' = Content(j), \A f \in Opens : Position(f)' = Position(f),
           fip' = fip, got' = got
    PROVE  UNCHANGED Bytes!bvars
BY DEF Bytes!bvars

LEMMA DiskAlone ==
    ASSUME addrs' = addrs, ents' = ents, bytes' = bytes
    PROVE  \A j, n : Mapped(j, n)' = Mapped(j, n) /\ bytes'[Mapped(j, n)] = bytes[Mapped(j, n)]
BY DEF Mapped, Direct

\* Nothing on the disk changes, and who is at work stays where it is.
LEMMA ContentsStay ==
    ASSUME DataCore, size' = size, addrs' = addrs, ents' = ents, bytes' = bytes,
           \A q \in Writers :
              \/ /\ io'[q].do = io[q].do /\ io'[q].ip = io[q].ip
                 /\ io'[q].at = io[q].at /\ io'[q].end = io[q].end
              \/ io[q].do \notin {"write", "trunc"} /\ io'[q].do \notin {"write", "trunc"}
    PROVE  \A j \in Disk : Content(j)' = Content(j)
<1> SUFFICES ASSUME NEW j \in Disk PROVE Content(j)' = Content(j)
  OBVIOUS
<1>1. \A q \in Writers :
         \/ /\ io'[q].do = io[q].do /\ io'[q].ip = io[q].ip
            /\ io'[q].at = io[q].at /\ io'[q].end = io[q].end
         \/ ~AtWork(q, j) /\ ~AtWork(q, j)'
  BY DEF AtWork
<1> QED BY <1>1, DiskAlone, ContentStays

LEMMA PositionsStay ==
    ASSUME off' = off,
           \A q \in Writers :
              \/ io'[q].do = io[q].do /\ io'[q].file = io[q].file /\ io'[q].end = io[q].end
              \/ io[q].do # "write" /\ io'[q].do # "write"
    PROVE  \A f \in Opens : Position(f)' = Position(f)
<1> SUFFICES ASSUME NEW f \in Opens PROVE Position(f)' = Position(f)
  OBVIOUS
<1>1. \A q \in Writers :
         \/ io'[q].do = io[q].do /\ io'[q].file = io[q].file /\ io'[q].end = io[q].end
         \/ ~Writes(q, f) /\ ~Writes(q, f)'
  BY DEF Writes
<1> QED BY <1>1, PositionStays

\* sys_open() and close().
LEMMA OpenBytes ==
    ASSUME DataCore, DataCore', NEW f \in Opens, NEW i \in Disk, Open(f, i)
    PROVE  Bytes!BOpen(f, i)
<1>1. /\ fip[f] = {} /\ fip' = [fip EXCEPT ![f] = {i}] /\ off' = [off EXCEPT ![f] = 0]
      /\ UNCHANGED <<bitmap, bytes, ents, addrs, size, ilock, io, logged, got>>
  BY DEF Open
<1>2. \A j \in Disk : Content(j)' = Content(j)
  BY <1>1, ContentsStay
<1>3. \A q \in Writers : ~Writes(q, f) /\ ~Writes(q, f)'
  BY <1>1 DEF Writes, DataCore, InCall, WriterHolds
<1>4. off'[f] = 0 /\ \A g \in Opens : g # f => off'[g] = off[g]
  BY <1>1 DEF DataCore, FDTypeOK
<1>5. Position(f)' = 0
  BY <1>3, <1>4, ContentsKnownNext DEF Known
<1>6. \A g \in Opens : g # f => Position(g)' = Position(g)
  BY <1>1, <1>4, PositionStays
<1> QED BY <1>1, <1>2, <1>5, <1>6 DEF Bytes!BOpen

LEMMA CloseBytes ==
    ASSUME DataCore, DataCore', NEW f \in Opens, CloseFile(f)
    PROVE  Bytes!BClose(f)
<1>1. /\ \A p \in Writers : io[p].file # f
      /\ fip' = [fip EXCEPT ![f] = {}] /\ off' = [off EXCEPT ![f] = 0]
      /\ UNCHANGED <<bitmap, bytes, ents, addrs, size, ilock, io, logged, got>>
  BY DEF CloseFile
<1>2. \A j \in Disk : Content(j)' = Content(j)
  BY <1>1, ContentsStay
<1>3. \A q \in Writers : ~Writes(q, f) /\ ~Writes(q, f)'
  BY <1>1 DEF Writes
<1>4. off'[f] = 0 /\ \A g \in Opens : g # f => off'[g] = off[g]
  BY <1>1 DEF DataCore, FDTypeOK
<1>5. Position(f)' = 0
  BY <1>3, <1>4, ContentsKnownNext DEF Known
<1>6. \A g \in Opens : g # f => Position(g)' = Position(g)
  BY <1>1, <1>4, PositionStays
<1> QED BY <1>1, <1>2, <1>5, <1>6 DEF Bytes!BClose

LEMMA BackToUserBytes ==
    ASSUME DataCore, NEW p \in Writers, BackToUser(p)
    PROVE  Bytes!BReturn(p)
<1>1. /\ got' = [got EXCEPT ![p] = <<>>]
      /\ UNCHANGED <<bitmap, bytes, ents, addrs, size, ilock, fip, off, io, logged>>
  BY DEF BackToUser
<1>2. \A j \in Disk : Content(j)' = Content(j)
  BY <1>1, ContentsStay
<1>3. \A f \in Opens : Position(f)' = Position(f)
  BY <1>1, PositionsStay
<1> QED BY <1>1, <1>2, <1>3 DEF Bytes!BReturn

\* Between two chunks, and bmap() of a block that is there.
LEMMA CallsQuiet ==
    ASSUME DataCore, NEW p \in Writers, UNCHANGED <<bytes, ents, addrs, size, fip, off, got>>,
           NEW r \in Doings, io' = [io EXCEPT ![p] = r],
           \/ /\ r.do = io[p].do /\ r.ip = io[p].ip /\ r.file = io[p].file
              /\ r.at = io[p].at /\ r.end = io[p].end
           \/ io[p].do \notin {"write", "trunc"} /\ r.do \notin {"write", "trunc"}
    PROVE  UNCHANGED Bytes!bvars
<1>1. io'[p] = r /\ \A q \in Writers : q # p => io'[q] = io[q]
  BY CallSteps DEF DataCore
<1>2. \A j \in Disk : Content(j)' = Content(j)
  BY <1>1, ContentsStay
<1>3. \A f \in Opens : Position(f)' = Position(f)
  BY <1>1, PositionsStay
<1> QED BY <1>2, <1>3, Quiet

LEMMA StartWriteBytes ==
    ASSUME DataCore, NEW p \in Writers, NEW f \in Opens, NEW n \in Lengths, StartWrite(p, f, n)
    PROVE  UNCHANGED Bytes!bvars
<1> DEFINE r == [None EXCEPT !.do = "chunk", !.file = f, !.left = n]
<1>1. /\ io[p].do = "none" /\ io' = [io EXCEPT ![p] = r]
      /\ UNCHANGED <<bytes, ents, addrs, size, fip, off, got>>
  BY DEF StartWrite, InUser
<1>2. r \in Doings /\ r.do = "chunk"
  BY Limits DEF None, Doings
<1> HIDE DEF r
<1> QED BY <1>1, <1>2, CallsQuiet

LEMMA EndWriteBytes ==
    ASSUME DataCore, NEW p \in Writers, EndWrite(p)
    PROVE  UNCHANGED Bytes!bvars
<1>1. /\ io[p].do = "chunk" /\ io' = [io EXCEPT ![p] = None]
      /\ UNCHANGED <<bytes, ents, addrs, size, fip, off, got>>
  BY DEF EndWrite
<1>2. None.do = "none"
  BY DEF None
<1> QED BY <1>1, <1>2, NoneIsACall, CallsQuiet

LEMMA MapOldBytes ==
    ASSUME DataCore, NEW p \in Writers, MapOld(p)
    PROVE  UNCHANGED Bytes!bvars
<1>1. PICK b : b = Mapped(io[p].ip, Bn(p))
  OBVIOUS
<1> DEFINE r == [io[p] EXCEPT !.map = b]
<1>2. /\ io[p].do = "write" /\ io[p].at < io[p].end /\ io[p] \in Doings
      /\ UNCHANGED <<bytes, ents, addrs, size, fip, off, got>>
  BY DEF MapOld, Writing, DataCore, FDTypeOK
<1>3. io' = [io EXCEPT ![p] = r]
  BY <1>1 DEF MapOld, DataCore, FDTypeOK, Doings
<1>4. b \in Block \cup {0}
  <2>1. io[p].ip \in Disk /\ Bn(p) \in 0 .. MAXFILE - 1
    BY <1>2, InTheFile DEF DataCore, InCall
  <2> QED BY <1>1, <2>1, BlockType DEF DataCore
<1>5. /\ r \in Doings /\ r.do = io[p].do /\ r.ip = io[p].ip /\ r.file = io[p].file
      /\ r.at = io[p].at /\ r.end = io[p].end
  BY <1>2, <1>4 DEF Doings
<1> HIDE DEF r
<1> QED BY <1>2, <1>3, <1>5, CallsQuiet

\* itrunc(): the file is empty for its next reader from the start.
LEMMA TruncQuiet ==
    ASSUME DataCore, NEW p \in Writers, Truncs(p), NEW i, i = io[p].ip,
           NEW r \in Doings, io' = [io EXCEPT ![p] = r], r.do = "trunc", r.ip = i,
           UNCHANGED <<bytes, ents, size, fip, off, got>>,
           \A j \in Disk : j # i => addrs'[j] = addrs[j]
    PROVE  UNCHANGED Bytes!bvars
<1>1. io'[p] = r /\ \A q \in Writers : q # p => io'[q] = io[q]
  BY CallSteps DEF DataCore
<1>2. io[p].do = "trunc" /\ Truncs(p)'
  BY <1>1 DEF Truncs
<1>3. ASSUME NEW j \in Disk, j # i PROVE Content(j)' = Content(j)
  <2>1. \A n : Mapped(j, n)' = Mapped(j, n) /\ bytes'[Mapped(j, n)] = bytes[Mapped(j, n)]
    BY <1>3 DEF Mapped, Direct
  <2>2. ~AtWork(p, j) /\ ~AtWork(p, j)'
    BY <1>1, <1>3 DEF AtWork
  <2> QED BY <1>1, <2>1, <2>2, ContentStays
<1>4. Content(i) = <<>> /\ Content(i)' = <<>>
  BY <1>1, <1>2 DEF Content, Truncs
<1>5. \A f \in Opens : Position(f)' = Position(f)
  BY <1>1, <1>2, PositionsStay
<1> QED BY <1>3, <1>4, <1>5, Quiet

LEMMA FreeDirectBytes ==
    ASSUME DataCore, NEW p \in Writers, FreeDirect(p)
    PROVE  UNCHANGED Bytes!bvars
<1>1. PICK i : i = io[p].ip
  OBVIOUS
<1>2. PICK k : k = io[p].next
  OBVIOUS
<1> DEFINE r == [io[p] EXCEPT !.next = k + 1]
<1>3. /\ Truncs(p) /\ k < NDIRECT
      /\ addrs' = [addrs EXCEPT ![i][k] = 0] \/ addrs' = addrs
      /\ UNCHANGED <<bytes, ents, size, fip, off, got>>
  BY <1>1, <1>2 DEF FreeDirect
<1>4. io' = [io EXCEPT ![p] = r] /\ io[p] \in Doings
  BY <1>1, <1>2 DEF FreeDirect, DataCore, FDTypeOK, Doings
<1>5. r \in Doings /\ r.do = "trunc" /\ r.ip = i
  <2>1. r \in Doings /\ r.do = io[p].do /\ r.ip = io[p].ip
    BY <1>2, <1>4 DEF Doings
  <2> QED BY <1>1, <1>3, <2>1 DEF Truncs
<1> HIDE DEF r
<1>6. \A j \in Disk : j # i => addrs'[j] = addrs[j]
  BY <1>3 DEF DataCore, FDTypeOK
<1> QED BY <1>1, <1>3, <1>4, <1>5, <1>6, TruncQuiet

LEMMA FreeEntryBytes ==
    ASSUME DataCore, NEW p \in Writers, FreeEntry(p)
    PROVE  UNCHANGED Bytes!bvars
<1>1. PICK i : i = io[p].ip
  OBVIOUS
<1>2. PICK k : k = io[p].next
  OBVIOUS
<1> DEFINE r == [io[p] EXCEPT !.next = k + 1]
<1>3. Truncs(p) /\ UNCHANGED <<bytes, ents, addrs, size, fip, off, got>>
  BY DEF FreeEntry
<1>4. io' = [io EXCEPT ![p] = r] /\ io[p] \in Doings
  BY <1>1, <1>2 DEF FreeEntry, DataCore, FDTypeOK, Doings
<1>5. r \in Doings /\ r.do = "trunc" /\ r.ip = i
  <2>1. r \in Doings /\ r.do = io[p].do /\ r.ip = io[p].ip
    BY <1>2, <1>4 DEF Doings
  <2> QED BY <1>1, <1>3, <2>1 DEF Truncs
<1> HIDE DEF r
<1> QED BY <1>1, <1>3, <1>4, <1>5, TruncQuiet

\* It becomes empty when itrunc() starts, and nobody can have it open then.
LEMMA StartTruncBytes ==
    ASSUME DataCore, NEW p \in Writers, NEW i \in Disk, StartTrunc(p, i)
    PROVE  Bytes!BDiscard(i)
<1> DEFINE r == [None EXCEPT !.do = "trunc", !.ip = i]
<1>1. /\ io[p].do = "none" /\ ilock[i] = NoWriter /\ \A f \in Opens : i \notin fip[f]
      /\ io' = [io EXCEPT ![p] = r]
      /\ UNCHANGED <<bytes, ents, addrs, size, fip, off, got>>
  BY DEF StartTrunc, InUser
<1>2. r \in Doings /\ r.do = "trunc" /\ r.ip = i
  BY DEF None, Doings
<1> HIDE DEF r
<1>3. io'[p] = r /\ \A q \in Writers : q # p => io'[q] = io[q]
  BY <1>1, <1>2, CallSteps DEF DataCore
<1>4. ASSUME NEW j \in Disk, j # i PROVE Content(j)' = Content(j)
  <2>1. ~AtWork(p, j) /\ ~AtWork(p, j)'
    BY <1>1, <1>2, <1>3, <1>4 DEF AtWork
  <2> QED BY <1>1, <1>3, <2>1, DiskAlone, ContentStays
<1>5. Content(i)' = <<>>
  BY <1>2, <1>3 DEF Content, Truncs
<1>6. \A f \in Opens : Position(f)' = Position(f)
  BY <1>1, <1>2, <1>3, PositionsStay
<1> QED BY <1>1, <1>4, <1>5, <1>6 DEF Bytes!BDiscard

LEMMA EndTruncBytes ==
    ASSUME DataCore, DataCore', NEW p \in Writers, EndTrunc(p)
    PROVE  UNCHANGED Bytes!bvars
<1>1. PICK i : i = io[p].ip
  OBVIOUS
<1>2. /\ Truncs(p) /\ io[p].do = "trunc"
      /\ addrs' = [addrs EXCEPT ![i][NDIRECT] = 0]
      /\ size' = [size EXCEPT ![i] = 0] /\ ilock' = [ilock EXCEPT ![i] = NoWriter]
      /\ io' = [io EXCEPT ![p] = None]
      /\ UNCHANGED <<bytes, ents, fip, off, got>>
  BY <1>1 DEF EndTrunc, Truncs
<1>3. i \in Disk
  BY <1>1, <1>2, HasLocked
<1>4. io'[p] = None /\ None.do = "none" /\ \A q \in Writers : q # p => io'[q] = io[q]
  BY <1>2, NoneIsACall, CallSteps DEF DataCore, None
<1>5. /\ size'[i] = 0 /\ ilock'[i] = NoWriter
      /\ \A j \in Disk : j # i => addrs'[j] = addrs[j] /\ size'[j] = size[j]
  BY <1>2, <1>3 DEF DataCore, FDTypeOK
<1>6. ASSUME NEW j \in Disk, j # i PROVE Content(j)' = Content(j)
  <2>1. \A n : Mapped(j, n)' = Mapped(j, n) /\ bytes'[Mapped(j, n)] = bytes[Mapped(j, n)]
    BY <1>2, <1>5, <1>6 DEF Mapped, Direct
  <2>2. ~AtWork(p, j) /\ ~AtWork(p, j)'
    BY <1>1, <1>4, <1>6 DEF AtWork
  <2>3. size'[j] = size[j]
    BY <1>5, <1>6
  <2> QED BY <1>4, <2>1, <2>2, <2>3, ContentStays
<1>7. Content(i) = <<>>
  BY <1>1, <1>2 DEF Content
<1>8. Content(i)' = <<>>
  <2>1. Content(i)' = AtRest(i)'
    BY <1>3, <1>5, ContentsKnownNext DEF Known
  <2>2. AtRest(i)' = [k \in 1 .. 0 |-> Byte(i, k - 1)']
    BY <1>5 DEF AtRest
  <2>3. 1 .. 0 = {}
    OBVIOUS
  <2> QED BY <2>1, <2>2, <2>3
<1>9. \A f \in Opens : Position(f)' = Position(f)
  BY <1>2, <1>4, PositionsStay
<1> QED BY <1>2, <1>6, <1>7, <1>8, <1>9, Quiet

\* A block of a file is in use, and it is the block of one place of one file.
LEMMA MappedInUse ==
    ASSUME DataCore, NEW j \in Disk, ~UnderTruncation(j),
           NEW n \in 0 .. MAXFILE - 1, Mapped(j, n) # 0
    PROVE  /\ Mapped(j, n) \in bitmap /\ Mapped(j, n) \in Block
           /\ \A i \in Disk, k \in 0 .. MAXFILE - 1 :
                 ~UnderTruncation(i) /\ Mapped(i, k) = Mapped(j, n) => i = j /\ k = n
<1> DEFINE place(k) == IF k < NDIRECT THEN k ELSE k + 1
<1>1. ASSUME NEW k \in 0 .. MAXFILE - 1
      PROVE  place(k) \in BlockPlaces /\ place(k) \in Nat /\ (k < NDIRECT <=> place(k) <= NDIRECT)
             /\ (~(k < NDIRECT) => place(k) - 1 = k)
  BY Limits DEF BlockPlaces
<1>2. ASSUME NEW i \in Disk, ~UnderTruncation(i), NEW k \in 0 .. MAXFILE - 1
      PROVE  BlockAt(i, place(k)) = Mapped(i, k)
  <2>1. \A m : ~Truncated(i, m)
    BY <1>2 DEF Truncated, UnderTruncation
  <2>2. CASE k < NDIRECT
    BY <2>2, <1>1 DEF BlockAt, Mapped, Direct
  <2>3. CASE ~(k < NDIRECT)
    <3>1. ~(place(k) <= NDIRECT) /\ place(k) - 1 = k
      BY <1>1, <2>3
    <3> HIDE DEF place
    <3> QED BY <2>1, <2>3, <3>1 DEF BlockAt, Mapped, Direct
  <2> QED BY <2>2, <2>3
<1>3. ASSUME NEW k \in 0 .. MAXFILE - 1, place(k) = place(n) PROVE k = n
  BY <1>3, Limits
<1> HIDE DEF place
<1>4. BlockAt(j, place(n)) = Mapped(j, n) /\ place(n) \in BlockPlaces
  BY <1>1, <1>2
<1>5. Mapped(j, n) \in bitmap
  BY <1>4 DEF DataCore, OneOwner
<1>6. Mapped(j, n) \in Block
  BY BlockType DEF DataCore
<1>7. ASSUME NEW i \in Disk, NEW k \in 0 .. MAXFILE - 1, ~UnderTruncation(i),
             Mapped(i, k) = Mapped(j, n)
      PROVE  i = j /\ k = n
  <2>1. BlockAt(i, place(k)) = Mapped(i, k) /\ place(k) \in BlockPlaces
    BY <1>1, <1>2, <1>7
  <2>2. i = j /\ place(k) = place(n)
    BY <1>4, <1>7, <2>1 DEF DataCore, OneOwner
  <2> QED BY <1>3, <2>2
<1> QED BY <1>5, <1>6, <1>7

\* bmap() of a block that is missing: what a reader finds is on other blocks.
LEMMA MapBytes ==
    ASSUME DataCore, NEW b \in Block, b \notin bitmap, bytes' = [bytes EXCEPT ![b] = NoBytes],
           \A j \in Disk, n \in 0 .. MAXFILE - 1 : Mapped(j, n) # 0 => Mapped(j, n)' = Mapped(j, n),
           UNCHANGED <<size, fip, off, got>>,
           \A q \in Writers : /\ io'[q].do = io[q].do /\ io'[q].ip = io[q].ip
                              /\ io'[q].file = io[q].file
                              /\ io'[q].at = io[q].at /\ io'[q].end = io[q].end
    PROVE  UNCHANGED Bytes!bvars
<1>1. ASSUME NEW j \in Disk PROVE Content(j)' = Content(j)
  <2>1. ASSUME ~UnderTruncation(j), NEW n \in 0 .. MAXFILE - 1, Mapped(j, n) # 0
        PROVE  Mapped(j, n)' = Mapped(j, n) /\ bytes'[Mapped(j, n)] = bytes[Mapped(j, n)]
    <3>1. Mapped(j, n) \in bitmap /\ Mapped(j, n) \in Block
      BY <2>1, MappedInUse
    <3>2. PICK x \in Block : x = Mapped(j, n) /\ x # b
      BY <3>1
    <3>3. bytes'[x] = bytes[x]
      BY <3>2 DEF DataCore, FDTypeOK
    <3> QED BY <2>1, <3>2, <3>3
  <2> QED BY <2>1, ContentStays
<1>2. \A f \in Opens : Position(f)' = Position(f)
  BY PositionsStay
<1> QED BY <1>1, <1>2, Quiet

LEMMA MapIndirectBytes ==
    ASSUME DataCore, NEW p \in Writers, MapIndirect(p)
    PROVE  UNCHANGED Bytes!bvars
<1>1. PICK i : i = io[p].ip
  OBVIOUS
<1>2. PICK b \in Block :
          Balloc(b) /\ Zeroed(b) /\ addrs' = [addrs EXCEPT ![i][NDIRECT] = b]
  BY <1>1 DEF MapIndirect
<1>3. b \notin bitmap /\ bitmap' = bitmap \cup {b} /\ bytes' = [bytes EXCEPT ![b] = NoBytes]
      /\ UNCHANGED <<size, fip, off, io, got>>
  BY <1>2 DEF MapIndirect, Balloc, FreeBlock, Zeroed
<1>4. \A j \in Disk, n \in 0 .. MAXFILE - 1 : Mapped(j, n)' = Mapped(j, n)
  BY <1>1, <1>2, <1>3, MapIndirectMaps
<1> QED BY <1>3, <1>4, MapBytes

LEMMA MapNewBytes ==
    ASSUME DataCore, NEW p \in Writers, MapNew(p)
    PROVE  UNCHANGED Bytes!bvars
<1>1. PICK i : i = io[p].ip
  OBVIOUS
<1>2. PICK n : n = Bn(p)
  OBVIOUS
<1>3. /\ io[p].do = "write" /\ io[p].at < io[p].end
      /\ Mapped(i, n) = 0 /\ (Direct(n) \/ addrs[i][NDIRECT] # 0)
      /\ UNCHANGED <<size, fip, off, got>>
  BY <1>1, <1>2 DEF MapNew, Writing
<1>4. PICK b \in Block :
          /\ Balloc(b)
          /\ bytes' = [bytes EXCEPT ![b] = NoBytes]
          /\ NowMapped(i, n, b)
          /\ io' = [io EXCEPT ![p].map = b]
  BY <1>1, <1>2 DEF MapNew, NowMapped
<1>5. b \notin bitmap /\ bitmap' = bitmap \cup {b}
  BY <1>4 DEF Balloc, FreeBlock
<1>6. n \in 0 .. MAXFILE - 1 /\ i \in Disk
  BY <1>1, <1>2, <1>3, InTheFile DEF DataCore, InCall
<1>7. \A q \in Writers : /\ io'[q].do = io[q].do /\ io'[q].ip = io[q].ip
                         /\ io'[q].file = io[q].file /\ io'[q].next = io[q].next
                         /\ io'[q].at = io[q].at /\ io'[q].end = io[q].end
  BY <1>4 DEF DataCore, FDTypeOK, Doings
<1>8. \A j, k : Truncated(j, k)' <=> Truncated(j, k)
  BY <1>7 DEF Truncated, Truncs
<1>9. \A j \in Disk, k \in 0 .. MAXFILE - 1 : ~(j = i /\ k = n) => Mapped(j, k)' = Mapped(j, k)
  BY <1>1, <1>3, <1>4, <1>5, <1>6, <1>8, MapNewMaps
<1>10. \A j \in Disk, k \in 0 .. MAXFILE - 1 : Mapped(j, k) # 0 => Mapped(j, k)' = Mapped(j, k)
  BY <1>3, <1>9
<1> QED BY <1>3, <1>4, <1>5, <1>7, <1>10, MapBytes

\* What is there of a file from a position on.
LEMMA PartOf ==
    ASSUME NEW S, NEW z \in Nat, NEW B, \A k \in 1 .. z : B[k] \in S,
           NEW o \in Nat, NEW m \in Nat, o + m <= z, NEW s, s = [k \in 1 .. z |-> B[k]]
    PROVE  Len(s) = z /\ SubSeq(s, o + 1, o + m) = [k \in 1 .. m |-> B[o + k]]
<1>1. s \in Seq(S) /\ Len(s) = z /\ \A k \in 1 .. z : s[k] = B[k] /\ s[k] \in S
  OBVIOUS
<1> DEFINE have == [k \in 1 .. m |-> B[o + k]]
           part == SubSeq(s, o + 1, o + m)
<1>2. \A k \in 1 .. m : o + k \in 1 .. z
  OBVIOUS
<1>3. have \in Seq(S) /\ Len(have) = m /\ \A k \in 1 .. m : have[k] = B[o + k]
  BY <1>2
<1>4. o + 1 \in Int /\ o + m \in Int /\ \A k \in o + 1 .. o + m : s[k] \in S
  BY <1>1
<1>5. /\ part \in Seq(S)
      /\ Len(part) = IF o + 1 <= o + m THEN (o + m) - (o + 1) + 1 ELSE 0
      /\ \A k \in 1 .. (o + m) - (o + 1) + 1 : part[k] = s[(o + 1) + k - 1]
  BY <1>4, SubSeqProperties
<1> HIDE DEF have, part
<1>6. Len(part) = m
  BY <1>5
<1>7. ASSUME NEW k \in 1 .. m PROVE part[k] = have[k]
  <2>1. k \in 1 .. (o + m) - (o + 1) + 1 /\ (o + 1) + k - 1 = o + k
    OBVIOUS
  <2>2. part[k] = s[o + k]
    BY <1>5, <2>1
  <2> QED BY <1>1, <1>2, <1>3, <2>2
<1>8. part = have
  BY <1>3, <1>5, <1>6, <1>7, SeqEqual
<1> QED BY <1>1, <1>8 DEF have, part

LEMMA ReadBytes ==
    ASSUME DataCore, DataCore', NEW p \in Writers, NEW f \in Opens, NEW n \in Lengths, Read(p, f, n)
    PROVE  \E m \in 0 .. MAXFILE * BSIZE : Bytes!BRead(p, f, m)
<1>1. PICK i \in fip[f] :
          /\ ilock[i] = NoWriter /\ off[f] <= size[i]
          /\ LET m == SmallerOf(n, size[i] - off[f]) IN
                /\ got' = [got EXCEPT ![p] = [k \in 1 .. m |-> Byte(i, off[f] + k - 1)]]
                /\ off' = [off EXCEPT ![f] = @ + m]
  BY DEF Read
<1>2. UNCHANGED <<bytes, ents, addrs, size, ilock, fip, io>>
  BY DEF Read
<1>3. /\ i \in Disk /\ off[f] \in Nat /\ size[i] \in Nat /\ size[i] <= MAXFILE * BSIZE
      /\ MAXFILE * BSIZE \in Nat /\ n \in Nat
  <2>1. MAXFILE * BSIZE \in Nat
    BY Limits, InBlocks
  <2> QED BY <1>1, <2>1, Limits DEF DataCore, FDTypeOK
<1>4. PICK m \in Nat : m = SmallerOf(n, size[i] - off[f])
  BY <1>1, <1>3 DEF SmallerOf
<1>5. off[f] + m <= size[i] /\ m \in 0 .. MAXFILE * BSIZE
  BY <1>1, <1>3, <1>4 DEF SmallerOf
<1>6. /\ off' = [off EXCEPT ![f] = off[f] + m] /\ off'[f] = off[f] + m
      /\ got' = [got EXCEPT ![p] = [k \in 1 .. m |-> Byte(i, off[f] + k - 1)]]
      /\ \A g \in Opens : g # f => off'[g] = off[g]
  BY <1>1, <1>4 DEF DataCore, FDTypeOK
<1>7. \A q \in Writers : ~Writes(q, f) /\ ~Writes(q, f)'
  BY <1>1, <1>2, NobodyWrites DEF Writes
<1>8. Position(f) = off[f] /\ Position(f)' = off[f] + m
  BY <1>6, <1>7, ContentsKnown, ContentsKnownNext DEF Known
<1>9. \A g \in Opens : g # f => Position(g)' = Position(g)
  BY <1>2, <1>6, PositionStays
<1>10. \A j \in Disk : Content(j)' = Content(j)
  BY <1>2, ContentsStay
<1> DEFINE B == [k \in 1 .. size[i] |-> Byte(i, k - 1)]
<1>11. Content(i) = B /\ B = [k \in 1 .. size[i] |-> B[k]]
  BY <1>1, <1>3, ContentsKnown DEF Known, AtRest
<1>12. ASSUME NEW k \in 1 .. m PROVE B[off[f] + k] = Byte(i, off[f] + k - 1)
  <2>1. PICK z \in 1 .. size[i] : z = off[f] + k
    BY <1>3, <1>4, <1>5, <1>12
  <2>2. B[z] = Byte(i, z - 1)
    OBVIOUS
  <2>3. z - 1 = off[f] + k - 1
    BY <1>3, <1>4, <1>12, <2>1
  <2> HIDE DEF B
  <2> QED BY <2>1, <2>2, <2>3
<1> HIDE DEF B
<1>13. /\ Len(B) = size[i]
       /\ SubSeq(B, off[f] + 1, off[f] + m) = [k \in 1 .. m |-> B[off[f] + k]]
  <2>1. PICK S : \A k \in 1 .. size[i] : B[k] \in S
    <3> WITNESS {B[k] : k \in 1 .. size[i]}
    <3> QED OBVIOUS
  <2>2. PICK o \in Nat : o = off[f]
    BY <1>3
  <2>3. PICK z \in Nat : z = size[i]
    BY <1>3
  <2>4. PICK s : s = B
    OBVIOUS
  <2>5. (\A k \in 1 .. z : s[k] \in S) /\ o + m <= z /\ s = [k \in 1 .. z |-> s[k]]
    BY <1>5, <1>11, <2>1, <2>2, <2>3, <2>4
  <2>6. Len(s) = z /\ SubSeq(s, o + 1, o + m) = [k \in 1 .. m |-> s[o + k]]
    BY <2>5, PartOf
  <2> QED BY <2>2, <2>3, <2>4, <2>6
<1>14. [k \in 1 .. m |-> B[off[f] + k]] = [k \in 1 .. m |-> Byte(i, off[f] + k - 1)]
  BY <1>12
<1>15. /\ Position(f) + m <= Len(Content(i))
       /\ got' = [got EXCEPT ![p] = SubSeq(Content(i), Position(f) + 1, Position(f) + m)]
  BY <1>5, <1>6, <1>8, <1>11, <1>13, <1>14
<1>16. Bytes!BRead(p, f, m)
  BY <1>1, <1>2, <1>3, <1>8, <1>9, <1>10, <1>15 DEF Bytes!BRead
<1> QED BY <1>5, <1>16

\* A chunk appears as a whole when writei() begins, with the inode locked.
LEMMA StartChunkBytes ==
    ASSUME DataCore, DataCore', NEW p \in Writers, StartChunk(p)
    PROVE  \/ UNCHANGED Bytes!bvars
           \/ \E f \in Opens, n \in 0 .. MAXFILE * BSIZE : Bytes!BWrite(p, f, n)
<1>1. /\ io[p].do = "chunk" /\ io[p].left > 0
      /\ UNCHANGED <<bitmap, bytes, ents, addrs, size, fip, off, logged, got>>
  BY DEF StartChunk
<1>2. PICK f : f = io[p].file
  OBVIOUS
<1>3. PICK n : n = Chunked(io[p].left)
  OBVIOUS
<1>4. PICK i \in fip[f] :
          /\ ilock[i] = NoWriter
          /\ IF off[f] > size[i] \/ TooLong(f, n)
             THEN io' = [io EXCEPT ![p] = None] /\ UNCHANGED ilock
             ELSE /\ ilock' = [ilock EXCEPT ![i] = p]
                  /\ io' = [io EXCEPT ![p].do = "write", ![p].ip = i, ![p].at = off[f],
                                      ![p].end = off[f] + n, ![p].left = @ - n]
  BY <1>2, <1>3 DEF StartChunk
<1>5. /\ f \in Opens /\ io[p] \in Doings /\ io[p].left \in Nat
  BY <1>1, <1>2 DEF DataCore, InCall, OutOfTransaction, FDTypeOK, Doings
<1>6. /\ i \in Disk /\ off[f] \in Nat /\ size[i] \in Nat /\ off[f] <= size[i]
      /\ MAXFILE * BSIZE \in Nat
  <2>1. MAXFILE * BSIZE \in Nat
    BY Limits, InBlocks
  <2> QED BY <1>4, <1>5, <2>1 DEF DataCore, FDTypeOK, OffsetsIn
<1>7. n \in Nat /\ n > 0 /\ n <= io[p].left
  BY <1>1, <1>3, <1>5, ChunkSize DEF Chunked, SmallerOf
<1>8. CASE TooLong(f, n)
  <2>1. io' = [io EXCEPT ![p] = None] /\ None.do = "none"
    BY <1>4, <1>8 DEF None
  <2> QED BY <1>1, <2>1, NoneIsACall, CallsQuiet
<1>9. CASE ~TooLong(f, n)
  <2>0. PICK a \in Nat : a = off[f]
    BY <1>6
  <2> DEFINE r == [io[p] EXCEPT !.do = "write", !.ip = i, !.at = a, !.end = a + n,
                                !.left = @ - n]
  <2>1. io' = [io EXCEPT ![p] = r]
    <3>1. ~(off[f] > size[i] \/ TooLong(f, n))
      BY <1>6, <1>9
    <3>2. io' = [io EXCEPT ![p].do = "write", ![p].ip = i, ![p].at = a, ![p].end = a + n,
                           ![p].left = @ - n]
      BY <1>4, <2>0, <3>1
    <3> QED BY <3>2 DEF DataCore, FDTypeOK, Doings
  <2>2. r \in Doings /\ r.do = "write" /\ r.ip = i /\ r.file = f /\ r.at = a /\ r.end = a + n
    <3>1. a + n \in Nat /\ io[p].left - n \in Nat
      BY <1>5, <1>7, <2>0
    <3> QED BY <1>2, <1>5, <1>6, <2>0, <3>1 DEF Doings
  <2> HIDE DEF r
  <2>3. io'[p] = r /\ \A q \in Writers : q # p => io'[q] = io[q]
    BY <2>1, <2>2, CallSteps DEF DataCore
  <2>4. /\ fip[f] = {i} /\ \A q \in Writers : ~Writes(q, f)
    BY <1>4, <1>5, NobodyWrites
  <2>5. Position(f) = a /\ Position(f)' = a + n
    <3>1. Position(f) = a
      BY <1>5, <2>0, <2>4, ContentsKnown DEF Known
    <3>2. Writes(p, f)'
      BY <2>2, <2>3 DEF Writes
    <3>3. Position(f)' = io'[p].end
      BY <1>5, <3>2, ContentsKnownNext DEF Known
    <3> QED BY <2>2, <2>3, <3>1, <3>3
  <2>6. ASSUME NEW g \in Opens, g # f PROVE Position(g)' = Position(g)
    <3>1. ~Writes(p, g) /\ ~Writes(p, g)'
      BY <1>1, <2>2, <2>3, <2>6 DEF Writes
    <3> QED BY <1>1, <2>3, <3>1, PositionStays
  <2>7. ASSUME NEW j \in Disk, j # i PROVE Content(j)' = Content(j)
    <3>1. ~AtWork(p, j) /\ ~AtWork(p, j)'
      BY <1>1, <2>2, <2>3, <2>7 DEF AtWork
    <3> QED BY <1>1, <2>3, <3>1, DiskAlone, ContentStays
  <2>8. PICK B : B = [k \in Nat |-> Byte(i, k - 1)]
    OBVIOUS
  <2>9. Content(i) = [k \in 1 .. size[i] |-> B[k]]
    <3>1. Content(i) = [k \in 1 .. size[i] |-> Byte(i, k - 1)]
      BY <1>4, <1>6, ContentsKnown DEF Known, AtRest
    <3>2. \A k \in 1 .. size[i] : B[k] = Byte(i, k - 1)
      BY <1>6, <2>8
    <3> QED BY <3>1, <3>2
  <2>10. PICK e \in Nat : e = IF a + n > size[i] THEN a + n ELSE size[i]
    BY <1>6, <1>7
  <2>11. Content(i)' = [k \in 1 .. e |-> IF k > a /\ k <= a + n THEN p ELSE B[k]]
    <3>1. io'[p].do = "write" /\ io'[p].ip = i /\ io'[p].at = a /\ io'[p].end = a + n
      BY <2>2, <2>3
    <3>2. Content(i)' = WrittenBy(p, i)'
      BY <1>6, <3>1, ContentsKnownNext DEF Known
    <3>3. Grown(i, io[p].end)' = e
      BY <1>1, <2>10, <3>1 DEF Grown
    <3>4. WrittenBy(p, i)' = [k \in 1 .. e |->
             IF k > a /\ k <= a + n THEN p ELSE Byte(i, k - 1)']
      BY <3>1, <3>3 DEF WrittenBy
    <3>5. ASSUME NEW k \in 1 .. e PROVE Byte(i, k - 1)' = B[k]
      <4>1. B[k] = Byte(i, k - 1)
        BY <2>8, <2>10
      <4> QED BY <1>1, <4>1 DEF Byte, Mapped, Direct
    <3> QED BY <3>2, <3>4, <3>5
  <2>12. Content(i)' = Bytes!Patch(Content(i), Position(f), n, p)
    <3>1. Len(Content(i)) = size[i] /\ \A k \in 1 .. size[i] : Content(i)[k] = B[k]
      BY <1>6, <2>9
    <3>2. Bytes!Patch(Content(i), a, n, p) =
             [k \in 1 .. e |-> IF k > a /\ k <= a + n THEN p ELSE Content(i)[k]]
      BY <2>10, <3>1 DEF Bytes!Patch
    <3>3. ASSUME NEW k \in 1 .. e, ~(k > a /\ k <= a + n) PROVE Content(i)[k] = B[k]
      <4>1. k \in 1 .. size[i]
        BY <1>6, <1>7, <2>0, <2>10, <3>3
      <4> QED BY <3>1, <4>1
    <3> QED BY <2>5, <2>11, <3>2, <3>3
  <2>13. n \in 0 .. MAXFILE * BSIZE
    BY <1>6, <1>7, <1>9 DEF TooLong
  <2>14. Bytes!BWrite(p, f, n)
    <3>1. [j \in Disk |-> Content(j)]' = [[j \in Disk |-> Content(j)] EXCEPT
                                           ![i] = Bytes!Patch(@, Position(f), n, p)]
      BY <1>6, <2>7, <2>12
    <3>2. [g \in Opens |-> Position(g)]' = [[g \in Opens |-> Position(g)] EXCEPT ![f] = @ + n]
      BY <1>5, <2>5, <2>6
    <3>3. [g \in Opens |-> Position(g)][f] = Position(f)
      BY <1>5
    <3> QED BY <1>1, <1>4, <3>1, <3>2, <3>3 DEF Bytes!BWrite
  <2> QED BY <1>5, <2>13, <2>14
<1> QED BY <1>8, <1>9

\* writei() fills the chunk block by block, and a reader finds it filled all the time.
LEMMA CopyBytes ==
    ASSUME DataCore, DataCore', NEW p \in Writers, Copy(p)
    PROVE  UNCHANGED Bytes!bvars
<1>1. PICK a : a = io[p].at
  OBVIOUS
<1>2. PICK m : m = SmallerOf(io[p].end - a, BSIZE - (a % BSIZE))
  OBVIOUS
<1>3. PICK b : b = io[p].map
  OBVIOUS
<1>4. PICK i : i = io[p].ip
  OBVIOUS
<1>5. PICK e : e = io[p].end
  OBVIOUS
<1>6. PICK c : c = a % BSIZE
  OBVIOUS
<1>7. PICK d : d = Bn(p)
  OBVIOUS
<1>8. /\ io[p].do = "write" /\ io[p].at < io[p].end /\ b # 0
      /\ bytes' = [bytes EXCEPT ![b] =
                    [k \in 0 .. BSIZE - 1 |-> IF k >= c /\ k < c + m THEN p ELSE bytes[b][k]]]
      /\ UNCHANGED <<bitmap, ents, addrs, size, fip, off, got>>
  BY <1>1, <1>2, <1>3, <1>6 DEF Copy, Writing
<1>9. \A q \in Writers : /\ io'[q].do = io[q].do /\ io'[q].ip = io[q].ip
                         /\ io'[q].file = io[q].file /\ io'[q].end = io[q].end
                         /\ q # p => io'[q].at = io[q].at
  BY DEF Copy, DataCore, FDTypeOK, Doings
<1>10. io'[p].at = a + m
  <2>1. io' = [io EXCEPT ![p].at = a + m, ![p].map = 0]
    BY <1>1, <1>2 DEF Copy
  <2>2. io \in [Writers -> Doings]
    BY DEF DataCore, FDTypeOK
  <2>3. io'[p] = [io[p] EXCEPT !.at = a + m, !.map = 0]
    BY <2>1, <2>2
  <2>4. io[p] \in Doings
    BY <2>2
  <2> QED BY <2>3, <2>4 DEF Doings
<1>11. i \in Disk /\ d \in 0 .. MAXFILE - 1 /\ d \in Nat /\ e \in Nat
  BY <1>4, <1>5, <1>7, <1>8, InTheFile, Limits DEF DataCore, InCall
<1>12. /\ a \in Nat /\ m \in Nat /\ m > 0 /\ a + m <= e
       /\ c \in Nat /\ c + m <= BSIZE /\ a = d * BSIZE + c /\ d * BSIZE \in Nat
  <2>1. /\ a \in Nat /\ m \in Nat /\ m > 0 /\ a + m <= io[p].end
        /\ a % BSIZE \in Nat /\ (a % BSIZE) + m <= BSIZE
        /\ a = Bn(p) * BSIZE + (a % BSIZE)
    BY <1>1, <1>2, <1>8, CopyEnds
  <2>2. d * BSIZE \in Nat
    BY <1>11, InBlocks
  <2> QED BY <1>5, <1>6, <1>7, <2>1, <2>2
<1>13. b = Mapped(i, d) /\ b \in Block /\ ~UnderTruncation(i)
  <2>1. WriterHolds(p)
    BY DEF DataCore, InCall
  <2>2. b = Mapped(i, d)
    BY <1>3, <1>4, <1>7, <1>8, <2>1 DEF WriterHolds
  <2>3. ~UnderTruncation(i)
    BY <1>4, <1>8, TheWriter
  <2>4. Mapped(i, d) # 0
    BY <1>8, <2>2
  <2> QED BY <1>11, <2>2, <2>3, <2>4, MappedInUse
<1>14. \A j, n : Mapped(j, n)' = Mapped(j, n)
  BY <1>8 DEF Mapped, Direct
<1>15. /\ \A x \in Block : x # b => bytes'[x] = bytes[x]
       /\ \A k \in 0 .. BSIZE - 1 : bytes'[b][k] = IF k >= c /\ k < c + m THEN p ELSE bytes[b][k]
  BY <1>8, <1>13 DEF DataCore, FDTypeOK
<1>16. ASSUME NEW j \in Disk, j # i PROVE Content(j)' = Content(j)
  <2>1. ASSUME ~UnderTruncation(j), NEW n \in 0 .. MAXFILE - 1, Mapped(j, n) # 0
        PROVE  bytes'[Mapped(j, n)] = bytes[Mapped(j, n)]
    <3>1. Mapped(j, n) \in Block /\ Mapped(j, n) # b
      BY <1>11, <1>13, <1>16, <2>1, MappedInUse
    <3>2. PICK x \in Block : x = Mapped(j, n) /\ x # b
      BY <3>1
    <3> QED BY <1>15, <3>2
  <2>2. ~AtWork(p, j) /\ ~AtWork(p, j)'
    BY <1>4, <1>9, <1>16 DEF AtWork
  <2>3. \A q \in Writers :
           \/ /\ io'[q].do = io[q].do /\ io'[q].ip = io[q].ip
              /\ io'[q].at = io[q].at /\ io'[q].end = io[q].end
           \/ ~AtWork(q, j) /\ ~AtWork(q, j)'
    BY <1>9, <2>2
  <2> QED BY <1>8, <1>14, <2>1, <2>3, ContentStays
<1>17. \A f \in Opens : Position(f)' = Position(f)
  BY <1>8, <1>9, PositionsStay
<1>18. PICK g : g = Grown(i, e)
  OBVIOUS
<1>19. size[i] \in Nat /\ g \in Nat /\ EndOf(i) = g /\ WriterOf(i) = {p}
  <2>1. size[i] \in Nat
    <3>1. MAXFILE * BSIZE \in Nat
      BY Limits, InBlocks
    <3> QED BY <1>11, <3>1 DEF DataCore, FDTypeOK
  <2>2. EndOf(i) = g /\ WriterOf(i) = {p}
    BY <1>4, <1>5, <1>8, <1>18, TheWriter
  <2> QED BY <1>11, <1>18, <2>1, <2>2 DEF Grown
<1>20. Content(i) = [k \in 1 .. g |-> IF k > a /\ k <= e THEN p ELSE Byte(i, k - 1)]
  <2>1. Content(i) = WrittenBy(p, i)
    BY <1>4, <1>8, <1>11, ContentsKnown DEF Known
  <2> QED BY <1>1, <1>5, <1>18, <2>1 DEF WrittenBy
<1>21. Content(i)' = [k \in 1 .. g |-> IF k > a + m /\ k <= e THEN p ELSE Byte(i, k - 1)']
  <2>1. io'[p].do = "write" /\ io'[p].ip = i /\ io'[p].end = e
    BY <1>4, <1>5, <1>8, <1>9
  <2>2. Content(i)' = WrittenBy(p, i)'
    BY <1>11, <2>1, ContentsKnownNext DEF Known
  <2>3. Grown(i, io[p].end)' = g
    BY <1>8, <1>18, <2>1 DEF Grown
  <2> QED BY <1>10, <2>1, <2>2, <2>3 DEF WrittenBy
<1>22. ASSUME NEW k \in 1 .. g
       PROVE  (IF k > a + m /\ k <= e THEN p ELSE Byte(i, k - 1)') =
              IF k > a /\ k <= e THEN p ELSE Byte(i, k - 1)
  <2>1. PICK n : n = (k - 1) \div BSIZE
    OBVIOUS
  <2>2. PICK z : z = (k - 1) % BSIZE
    OBVIOUS
  <2>3. k - 1 \in Nat /\ k \in Nat /\ k = (k - 1) + 1
    BY <1>19
  <2>4. /\ n \in Nat /\ n * BSIZE \in Nat /\ z \in 0 .. BSIZE - 1
        /\ k - 1 = n * BSIZE + z
    BY <2>1, <2>2, <2>3, InBlocks
  <2>5. Byte(i, k - 1) = bytes[Mapped(i, n)][z] /\ Byte(i, k - 1)' = bytes'[Mapped(i, n)][z]
    BY <1>14, <2>1, <2>2 DEF Byte
  <2>6. CASE k > a /\ k <= a + m
    <3>1. n = d
      <4>1. d * BSIZE <= k - 1 /\ k - 1 < d * BSIZE + BSIZE
        BY <1>12, <2>3, <2>6, Limits
      <4> QED BY <1>11, <2>1, <2>3, <4>1, BlockOf
    <3>2. z >= c /\ z < c + m
      BY <1>12, <2>3, <2>4, <2>6, <3>1
    <3>3. Byte(i, k - 1)' = p
      BY <1>13, <1>15, <2>4, <2>5, <3>1, <3>2
    <3> QED BY <1>11, <1>12, <2>3, <2>6, <3>3
  <2>7. CASE k > a + m /\ k <= e
    BY <1>12, <2>3, <2>7
  <2>8. CASE k <= a \/ k > e
    <3>1. ~(\E q \in WriterOf(i) : k > io[q].at /\ k <= io[q].end)
      <4>1. ~(k > a /\ k <= e)
        BY <1>11, <1>12, <2>3, <2>8
      <4> QED BY <1>1, <1>5, <1>19, <4>1
    <3>2. n \in 0 .. MAXFILE - 1 /\ Mapped(i, n) # 0
      BY <1>11, <1>13, <1>19, <2>1, <2>3, <3>1, Needed
    <3>3. Mapped(i, n) \in Block /\ (Mapped(i, n) = Mapped(i, d) => n = d)
      BY <1>11, <1>13, <3>2, MappedInUse
    <3>4. CASE n = d
      <4>1. ~(z >= c /\ z < c + m)
        BY <1>11, <1>12, <2>3, <2>4, <2>8, <3>4
      <4>2. bytes'[b][z] = bytes[b][z]
        BY <1>15, <2>4, <4>1
      <4>3. Byte(i, k - 1)' = Byte(i, k - 1)
        BY <1>13, <2>5, <3>4, <4>2
      <4> QED BY <1>11, <1>12, <2>3, <2>8, <4>3
    <3>5. CASE n # d
      <4>1. PICK x \in Block : x = Mapped(i, n) /\ x # b
        BY <1>13, <3>3, <3>5
      <4>2. Byte(i, k - 1)' = Byte(i, k - 1)
        BY <1>15, <2>5, <4>1
      <4> QED BY <1>11, <1>12, <2>3, <2>8, <4>2
    <3> QED BY <3>4, <3>5
  <2> QED BY <1>11, <1>12, <2>3, <2>6, <2>7, <2>8
<1>23. Content(i)' = Content(i)
  BY <1>20, <1>21, <1>22
<1> QED BY <1>8, <1>16, <1>17, <1>23, Quiet

\* The chunk is written: the size and the offset say so now, too.
LEMMA EndChunkBytes ==
    ASSUME DataCore, DataCore', NEW p \in Writers, EndChunk(p)
    PROVE  UNCHANGED Bytes!bvars
<1>1. PICK i : i = io[p].ip
  OBVIOUS
<1>2. PICK f : f = io[p].file
  OBVIOUS
<1>3. PICK e : e = io[p].end
  OBVIOUS
<1> DEFINE r == [None EXCEPT !.do = "chunk", !.file = f, !.left = io[p].left]
<1>4. /\ io[p].do = "write" /\ io[p].at = e
      /\ size' = [size EXCEPT ![i] = Grown(i, e)]
      /\ off' = [off EXCEPT ![f] = e] /\ ilock' = [ilock EXCEPT ![i] = NoWriter]
      /\ io' = [io EXCEPT ![p] = r]
      /\ UNCHANGED <<bytes, ents, addrs, fip, got>>
  BY <1>1, <1>2, <1>3 DEF EndChunk
<1>5. io[p] \in Doings /\ i \in Disk /\ f \in Opens /\ e \in Nat
  BY <1>1, <1>2, <1>3, <1>4, InTheFile DEF DataCore, InCall
<1>6. r \in Doings /\ r.do = "chunk"
  BY <1>5 DEF None, Doings
<1> HIDE DEF r
<1>7. io'[p] = r /\ \A q \in Writers : q # p => io'[q] = io[q]
  BY <1>4, <1>6, CallSteps DEF DataCore
<1>8. /\ size'[i] = Grown(i, e) /\ ilock'[i] = NoWriter /\ off'[f] = e
      /\ \A j \in Disk : j # i => size'[j] = size[j]
      /\ \A g \in Opens : g # f => off'[g] = off[g]
  BY <1>4, <1>5 DEF DataCore, FDTypeOK
<1>9. ASSUME NEW j \in Disk, j # i PROVE Content(j)' = Content(j)
  <2>1. ~AtWork(p, j) /\ ~AtWork(p, j)'
    BY <1>1, <1>6, <1>7, <1>9 DEF AtWork
  <2>2. size'[j] = size[j]
    BY <1>8, <1>9
  <2> QED BY <1>4, <1>7, <2>1, <2>2, DiskAlone, ContentStays
<1>10. Content(i)' = Content(i)
  <2>1. PICK g : g = Grown(i, e)
    OBVIOUS
  <2>2. size[i] \in Nat /\ g \in Nat
    <3>1. MAXFILE * BSIZE \in Nat
      BY Limits, InBlocks
    <3>2. size[i] \in Nat
      BY <1>5, <3>1 DEF DataCore, FDTypeOK
    <3> QED BY <1>5, <2>1, <3>2 DEF Grown
  <2>3. Content(i) = WrittenBy(p, i)
    BY <1>1, <1>4, <1>5, ContentsKnown DEF Known
  <2>4. Content(i) = [k \in 1 .. g |-> IF k > e /\ k <= e THEN p ELSE Byte(i, k - 1)]
    BY <1>3, <1>4, <2>1, <2>3 DEF WrittenBy
  <2>5. \A k \in 1 .. g : ~(k > e /\ k <= e)
    BY <1>5, <2>2
  <2>6. Content(i)' = AtRest(i)'
    BY <1>5, <1>8, ContentsKnownNext DEF Known
  <2>7. \A k : Byte(i, k - 1)' = Byte(i, k - 1)
    BY <1>4 DEF Byte, Mapped, Direct
  <2>8. Content(i)' = [k \in 1 .. g |-> Byte(i, k - 1)]
    BY <1>8, <2>1, <2>6, <2>7 DEF AtRest
  <2> QED BY <2>4, <2>5, <2>8
<1>11. ASSUME NEW g \in Opens, g # f PROVE Position(g)' = Position(g)
  <2>1. ~Writes(p, g) /\ ~Writes(p, g)'
    BY <1>2, <1>6, <1>7, <1>11 DEF Writes
  <2>2. off'[g] = off[g]
    BY <1>8, <1>11
  <2> QED BY <1>7, <2>1, <2>2, PositionStays
<1>12. Position(f)' = Position(f)
  <2>1. Position(f) = e
    BY <1>2, <1>3, <1>4, <1>5, ContentsKnown DEF Known, Writes
  <2>2. i \in fip'[f] /\ i \in fip[f]
    BY <1>1, <1>2, <1>4, <1>5, InTheFile DEF DataCore, InCall
  <2>3. \A q \in Writers : ~Writes(q, f)'
    <3>1. ASSUME NEW q \in Writers, q # p, Writes(q, f) PROVE FALSE
      <4>1. io[q].do = "write" /\ io[q].file = f
        BY <3>1 DEF Writes
      <4>2. fip[f] = {io[q].ip} /\ fip[f] = {i}
        BY <1>1, <1>2, <1>4, <4>1, InTheFile DEF DataCore, InCall
      <4>3. ilock[io[q].ip] = q /\ ilock[i] = p
        BY <1>1, <1>4, <4>1, HasLocked
      <4> QED BY <3>1, <4>2, <4>3
    <3> QED BY <1>6, <1>7, <3>1 DEF Writes
  <2>4. Position(f)' = e
    BY <1>5, <1>8, <2>3, ContentsKnownNext DEF Known
  <2> QED BY <2>1, <2>4
<1> QED BY <1>4, <1>9, <1>10, <1>11, <1>12, Quiet

LEMMA InitBytes == FDInit => Bytes!BInit
<1> SUFFICES ASSUME FDInit PROVE Bytes!BInit
  OBVIOUS
<1>1. DataCore
  BY DataInit
<1>2. ASSUME NEW i \in Disk PROVE Content(i) = <<>>
  <2>1. size[i] = 0 /\ ilock[i] = NoWriter
    BY DEF FDInit
  <2>2. Content(i) = [k \in 1 .. 0 |-> Byte(i, k - 1)]
    BY <1>1, <2>1, ContentsKnown DEF Known, AtRest
  <2> QED BY <2>2
<1>3. ASSUME NEW f \in Opens PROVE Position(f) = 0
  <2>1. off[f] = 0 /\ \A q \in Writers : ~Writes(q, f)
    BY DEF FDInit, None, Writes
  <2> QED BY <1>1, <2>1, ContentsKnown DEF Known
<1> QED BY <1>2, <1>3 DEF FDInit, Bytes!BInit

LEMMA BytesStep == DataCore /\ DataCore' /\ [FDNext]_fdvars => [Bytes!BNext]_(Bytes!bvars)
<1> SUFFICES ASSUME DataCore, DataCore', [FDNext]_fdvars PROVE Bytes!BNext \/ UNCHANGED Bytes!bvars
  OBVIOUS
<1>1. ASSUME NEW f \in Opens, CloseFile(f) \/ \E i \in Disk : Open(f, i) PROVE Bytes!BNext
  BY <1>1, OpenBytes, CloseBytes DEF Bytes!BNext
<1>2. ASSUME NEW p \in Writers, NEW f \in Opens, NEW n \in Lengths, Read(p, f, n) PROVE Bytes!BNext
  <2>1. PICK m \in 0 .. MAXFILE * BSIZE : Bytes!BRead(p, f, m)
    BY <1>2, ReadBytes
  <2> QED BY <2>1 DEF Bytes!BNext
<1>3. ASSUME NEW p \in Writers, NEW f \in Opens, NEW n \in Lengths, StartWrite(p, f, n)
      PROVE  UNCHANGED Bytes!bvars
  BY <1>3, StartWriteBytes
<1>4. ASSUME NEW p \in Writers, BackToUser(p) PROVE Bytes!BNext
  <2>1. Bytes!BReturn(p)
    BY <1>4, BackToUserBytes
  <2> QED BY <2>1 DEF Bytes!BNext
<1>5. ASSUME NEW p \in Writers, StartChunk(p) PROVE Bytes!BNext \/ UNCHANGED Bytes!bvars
  <2>1. \/ UNCHANGED Bytes!bvars
        \/ \E f \in Opens, n \in 0 .. MAXFILE * BSIZE : Bytes!BWrite(p, f, n)
    BY <1>5, StartChunkBytes
  <2> QED BY <2>1 DEF Bytes!BNext
<1>6. ASSUME NEW p \in Writers, EndWrite(p) \/ Writei(p) \/ Itrunc(p) PROVE UNCHANGED Bytes!bvars
  BY <1>6, EndWriteBytes, MapIndirectBytes, MapNewBytes, MapOldBytes, CopyBytes, EndChunkBytes,
     FreeDirectBytes, FreeEntryBytes, EndTruncBytes DEF Writei, Itrunc
<1>7. ASSUME NEW p \in Writers, NEW i \in Disk, StartTrunc(p, i) PROVE Bytes!BNext
  <2>1. Bytes!BDiscard(i)
    BY <1>7, StartTruncBytes
  <2> QED BY <2>1 DEF Bytes!BNext
<1>8. CASE UNCHANGED fdvars
  BY <1>8, ContentsStay, PositionsStay, Quiet DEF fdvars
<1> QED BY <1>1, <1>2, <1>3, <1>4, <1>5, <1>6, <1>7, <1>8 DEF FDNext

\* read() and write() are those of a sequence of bytes with a position in it, and a chunk
\* appears all at once, whatever other processes do meanwhile (file.c fileread, filewrite;
\* fs.c readi, writei, itrunc).
THEOREM DataImplementsBytes == FDSpec => DataSpec
<1>1. FDSpec => []DataCore
  <2>1. FDInit => DataCore
    BY DataInit
  <2>2. DataCore /\ [FDNext]_fdvars => DataCore'
    BY DataStep
  <2> QED BY <2>1, <2>2, PTL DEF FDSpec
<1> QED BY <1>1, InitBytes, BytesStep, PTL DEF FDSpec, DataSpec, Bytes!BSpec
=============================================================================
