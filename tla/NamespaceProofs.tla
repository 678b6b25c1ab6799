--------------------------- MODULE NamespaceProofs ---------------------------
(***************************************************************************)
(* Proofs about inodes, link counts and names: NamesIInv holds whatever    *)
(* the processes do and wherever the machine stops, what a crash brings    *)
(* back has right link counts, and the calls implement NameTree.           *)
(***************************************************************************)
EXTENDS NamespaceProps, FiniteSetTheorems, SequenceTheorems, TLAPS

(***************************************************************************)
(* Counting.                                                               *)
(***************************************************************************)

\* One element more.
LEMMA OneMore ==
    ASSUME NEW S, IsFiniteSet(S), NEW x, x \notin S, NEW T, T = S \cup {x}
    PROVE  IsFiniteSet(T) /\ Cardinality(T) = Cardinality(S) + 1
BY FS_AddElement, SMT

\* One element less.
LEMMA OneLess ==
    ASSUME NEW S, IsFiniteSet(S), NEW x \in S, NEW T, T = S \ {x}
    PROVE  IsFiniteSet(T) /\ Cardinality(T) = Cardinality(S) - 1
BY FS_RemoveElement, SMT

\* The entries that name an inode, and the directories in it, are finitely many.
LEMMA NamedFinite ==
    ASSUME NEW v, NEW i
    PROVE  IsFiniteSet(Named(v, i)) /\ Cardinality(Named(v, i)) \in Nat
<1>1. IsFiniteSet(Inodes \X Names)
  BY NamespaceAssumption, FS_Product
<1>2. Named(v, i) \in SUBSET (Inodes \X Names)
  BY DEF Named
<1>3. IsFiniteSet(Named(v, i))
  BY <1>1, <1>2, FS_Subset
<1> QED BY <1>3, FS_CardinalityType

\* The directories with ".." in an inode are finitely many.
LEMMA SubdirsFinite ==
    ASSUME NEW v, NEW i
    PROVE  IsFiniteSet(Subdirs(v, i)) /\ Cardinality(Subdirs(v, i)) \in Nat
<1>1. IsFiniteSet(Inodes) /\ Subdirs(v, i) \in SUBSET Inodes
  BY NamespaceAssumption DEF Subdirs
<1>2. IsFiniteSet(Subdirs(v, i))
  BY <1>1, FS_Subset
<1> QED BY <1>2, FS_CardinalityType

\* The count of the names of an inode, and what is part of it.
LEMMA LinksNat ==
    ASSUME NEW v, NEW i
    PROVE  /\ Links(v, i) \in Nat
           /\ Cardinality(Named(v, i)) <= Links(v, i)
           /\ Cardinality(Subdirs(v, i)) <= Links(v, i)
           /\ i = Root => Links(v, i) >= 1
BY NamedFinite, SubdirsFinite DEF Links

\* The links that are not names.
Flights == [Inodes -> SUBSET Procs]

\* The links on their way can be counted.
LEMMA FlightsNat ==
    ASSUME NEW m \in Flights, NEW i \in Inodes
    PROVE  IsFiniteSet(m[i]) /\ Cardinality(m[i]) \in Nat
<1>1. IsFiniteSet(Procs) /\ m[i] \in SUBSET Procs
  BY NamespaceAssumption DEF Flights
<1>2. IsFiniteSet(m[i])
  BY <1>1, FS_Subset
<1> QED BY <1>2, FS_CardinalityType

-----------------------------------------------------------------------------
(***************************************************************************)
(* What right link counts mean for one inode.                              *)
(***************************************************************************)

\* An inode without entries has no directories in it.
LEMMA NoSubdirs ==
    ASSUME NEW v, NEW x \in Inodes, Sound(v), v.ents[x] = NoEnts
    PROVE  Subdirs(v, x) = {}
<1> SUFFICES ASSUME NEW d \in Subdirs(v, x) PROVE FALSE
  OBVIOUS
<1>1. d \in Inodes /\ v.up[d] = x /\ Named(v, d) # {}
  BY DEF Subdirs
<1>2. v.type[d] = "dir"
  BY <1>1, NamespaceAssumption DEF Sound
<1>3. PICK n \in Names : Named(v, d) = {<<x, n>>}
  BY <1>1, <1>2 DEF Sound
<1>4. <<x, n>> \in Named(v, d)
  BY <1>3
<1>5. v.ents[x][n] = d
  BY <1>4 DEF Named
<1> QED BY <1>1, <1>5, NamespaceAssumption DEF NoEnts

\* Nothing is left of an inode whose link count is zero: no name, no directory
\* in it, no link to be made.
LEMMA NoLinks ==
    ASSUME NEW v, NEW m \in Flights, NEW i \in Inodes, RightLinks(v, m),
           v.type[i] # "free", v.nlink[i] = 0
    PROVE  i # Root /\ Named(v, i) = {} /\ Subdirs(v, i) = {} /\ m[i] = {}
<1>1. Links(v, i) + Cardinality(m[i]) <= 0
  BY DEF RightLinks, Counted
<1>2. Cardinality(m[i]) = 0 /\ Links(v, i) = 0
  BY <1>1, FlightsNat, LinksNat
<1>3. i # Root /\ Cardinality(Named(v, i)) = 0 /\ Cardinality(Subdirs(v, i)) = 0
  BY <1>2, LinksNat, NamedFinite, SubdirsFinite
<1> QED BY <1>2, <1>3, FlightsNat, NamedFinite, SubdirsFinite, FS_EmptySet

\* A directory with links, none of them under way, has a name.
LEMMA HasName ==
    ASSUME NEW v, NEW m \in Flights, NEW d \in Inodes, RightLinks(v, m),
           ~v.stray, v.type[d] = "dir", v.nlink[d] # 0, m[d] = {}, d # Root
    PROVE  Named(v, d) # {}
<1> SUFFICES ASSUME Named(v, d) = {} PROVE FALSE
  OBVIOUS
<1>1. v.ents[d] = NoEnts
  BY DEF RightLinks, RemovedEmpty
<1>2. Subdirs(v, d) = {}
  BY <1>1, NoSubdirs DEF RightLinks
<1>3. Links(v, d) = 0
  BY <1>2, FS_EmptySet DEF Links
<1>4. v.nlink[d] = Links(v, d) + Cardinality(m[d])
  BY DEF RightLinks, Counted
<1> QED BY <1>3, <1>4, FS_EmptySet

-----------------------------------------------------------------------------
(***************************************************************************)
(* What the calls do to a volume keeps the link counts right.              *)
(***************************************************************************)

FieldsTyped(v) ==
    /\ v.type \in [Inodes -> Types] /\ v.nlink \in [Inodes -> Nat]
    /\ v.ents \in [Inodes -> [Names -> Some]] /\ v.up \in [Inodes -> Some]
    /\ v.stray \in BOOLEAN

\* create() makes inode i of type t and the entry <<d, n>> for it.
LEMMA CreateKeeps ==
    ASSUME NEW v, NEW m \in Flights, RightLinks(v, m), FieldsTyped(v),
           NEW d \in Inodes, NEW n \in Names, NEW i \in Inodes,
           NEW t \in {"file", "dir", "dev"},
           v.type[d] = "dir", v.type[i] = "free", v.ents[d][n] = NoInode,
           m[d] = {}, m[i] = {},
           NEW w,
           \A x \in Inodes : w.type[x] = IF x = i THEN t ELSE v.type[x],
           \A x \in Inodes : w.up[x] = IF x # i THEN v.up[x]
                                    ELSE IF t = "dir" THEN d ELSE NoInode,
           w.nlink[d] = v.nlink[d] + (IF t = "dir" THEN 1 ELSE 0), w.nlink[i] = 1,
           \A x \in Inodes \ {d, i} : w.nlink[x] = v.nlink[x],
           \A x \in Inodes, y \in Names :
               w.ents[x][y] = IF x = d /\ y = n THEN i ELSE v.ents[x][y],
           \A x \in Inodes \ {d} : w.ents[x] = v.ents[x],
           ~w.stray => ~v.stray /\ v.nlink[d] # 0
    PROVE  RightLinks(w, m)
<1>1. i # d /\ i # Root /\ Named(v, i) = {} /\ i # NoInode
  BY NamespaceAssumption DEF RightLinks, Sound
<1>3. ASSUME NEW x \in Inodes, x # i
      PROVE  Named(w, x) = Named(v, x)
  BY <1>3, NamespaceAssumption DEF Named
<1>4. Named(w, i) = {<<d, n>>}
  <2>1. <<d, n>> \in Named(w, i)
    BY DEF Named
  <2>2. ASSUME NEW e \in Named(w, i) PROVE e = <<d, n>>
    <3>1. PICK x \in Inodes, y \in Names : e = <<x, y>> /\ w.ents[x][y] = i
      BY <2>2 DEF Named
    <3>2. v.ents[x][y] # i
      BY <1>1, <3>1 DEF Named
    <3> QED BY <3>1, <3>2
  <2> QED BY <2>1, <2>2
<1>5. Subdirs(v, i) = {}
  BY <1>1, NoSubdirs DEF RightLinks, Sound
<1>6. ASSUME NEW x \in Inodes, x # d
      PROVE  Subdirs(w, x) = Subdirs(v, x)
  <2>1. \A e \in Inodes \ {Root, i} : w.up[e] = v.up[e]
    BY <1>1
  <2>2. \A e \in Inodes \ {Root} : e \in Subdirs(w, x) <=> e \in Subdirs(v, x)
    BY <1>1, <1>3, <1>4, <1>6, <2>1, NamespaceAssumption DEF Subdirs
  <2> QED BY <2>2 DEF Subdirs
<1>7. i \notin Subdirs(v, d)
  BY <1>1 DEF Subdirs
<1>8. Subdirs(w, d) = IF t = "dir" THEN Subdirs(v, d) \cup {i} ELSE Subdirs(v, d)
  <2>1. ASSUME NEW x \in Inodes \ {Root}, x # i
        PROVE  x \in Subdirs(w, d) <=> x \in Subdirs(v, d)
    BY <1>3, <2>1 DEF Subdirs
  <2>2. i \in Subdirs(w, d) <=> t = "dir"
    <3>1. i \in Inodes \ {Root} /\ Named(w, i) # {}
      BY <1>1, <1>4
    <3>2. w.up[i] = d <=> t = "dir"
      BY <1>1, NamespaceAssumption
    <3> QED BY <3>1, <3>2 DEF Subdirs
  <2>3. Subdirs(w, d) \subseteq Inodes \ {Root} /\ Subdirs(v, d) \subseteq Inodes \ {Root}
    BY DEF Subdirs
  <2>4. CASE t = "dir"
    BY <1>1, <2>1, <2>2, <2>3, <2>4
  <2>5. CASE t # "dir"
    <3>1. \A x : x \in Subdirs(w, d) <=> x \in Subdirs(v, d)
      BY <1>7, <2>1, <2>2, <2>3, <2>5
    <3> QED BY <2>5, <3>1
  <2> QED BY <2>4, <2>5
<1>9. Links(w, i) = 1
  <2>1. Cardinality(Named(w, i)) = 1
    <3>1. Cardinality({<<d, n>>}) = 1
      BY FS_Singleton
    <3> QED BY <1>4, <3>1
  <2>2. Cardinality(Subdirs(w, i)) = 0
    BY <1>1, <1>5, <1>6, FS_EmptySet
  <2> QED BY <1>1, <2>1, <2>2 DEF Links
<1>10. Links(w, d) = Links(v, d) + (IF t = "dir" THEN 1 ELSE 0)
  <2>1. Cardinality(Subdirs(w, d))
           = Cardinality(Subdirs(v, d)) + (IF t = "dir" THEN 1 ELSE 0)
    <3>1. CASE t = "dir"
      BY <1>7, <1>8, <3>1, OneMore, SubdirsFinite
    <3>2. CASE t # "dir"
      BY <1>8, <3>2, SubdirsFinite
    <3> QED BY <3>1, <3>2
  <2>2. Named(w, d) = Named(v, d)
    BY <1>1, <1>3
  <2> QED BY <2>1, <2>2, NamedFinite, SubdirsFinite DEF Links
<1>11. ASSUME NEW x \in Inodes, x # i, x # d
       PROVE  Links(w, x) = Links(v, x)
  BY <1>3, <1>6, <1>11 DEF Links
<1>12. Sound(w)
  <2>1. w.type[Root] = "dir" /\ Named(w, Root) = {}
    BY <1>1, <1>3, NamespaceAssumption DEF RightLinks, Sound
  <2>2. ASSUME NEW x \in Inodes
        PROVE  /\ w.type[x] = "dir" => w.up[x] \in Inodes
               /\ w.type[x] # "dir" => w.up[x] = NoInode /\ w.ents[x] = NoEnts
    <3>1. v.ents[i] = NoEnts
      BY DEF RightLinks, Sound
    <3>2. x # d => w.ents[x] = v.ents[x]
      OBVIOUS
    <3>3. CASE x = i
      BY <1>1, <3>1, <3>2, <3>3
    <3>4. CASE x # i
      BY <1>1, <3>2, <3>4 DEF RightLinks, Sound
    <3> QED BY <3>3, <3>4
  <2>3. ASSUME NEW x \in Inodes, Named(w, x) # {}
        PROVE  /\ w.type[x] # "free"
               /\ w.type[x] = "dir" => \E y \in Names : Named(w, x) = {<<w.up[x], y>>}
    <3>1. CASE x = i
      BY <1>4, <3>1
    <3>2. CASE x # i
      <4>1. w.type[x] = v.type[x] /\ w.up[x] = v.up[x] /\ Named(w, x) = Named(v, x)
        BY <1>3, <3>2
      <4>2. /\ v.type[x] # "free"
            /\ v.type[x] = "dir" => \E y \in Names : Named(v, x) = {<<v.up[x], y>>}
        BY <2>3, <4>1 DEF RightLinks, Sound
      <4> QED BY <4>1, <4>2
    <3> QED BY <3>1, <3>2
  <2> QED BY <2>1, <2>2, <2>3 DEF Sound
<1>13. ASSUME ~w.stray PROVE RemovedEmpty(w)
  <2> SUFFICES ASSUME NEW x \in Inodes \ {Root}, w.type[x] = "dir", Named(w, x) = {}
               PROVE  w.ents[x] = NoEnts
    BY DEF RemovedEmpty
  <2>1. x # i /\ ~v.stray /\ v.nlink[d] # 0
    BY <1>4, <1>13
  <2>2. v.type[x] = "dir" /\ Named(v, x) = {}
    BY <1>3, <2>1
  <2>3. x # d
    <3> SUFFICES ASSUME x = d PROVE FALSE
      OBVIOUS
    <3> QED BY <2>1, <2>2, HasName
  <2> QED BY <2>1, <2>2, <2>3 DEF RightLinks, RemovedEmpty
<1>14. Counted(w, m)
  <2> SUFFICES ASSUME NEW x \in Inodes, w.type[x] # "free"
               PROVE  /\ Links(w, x) + Cardinality(m[x]) <= w.nlink[x]
                      /\ ~w.stray => w.nlink[x] = Links(w, x) + Cardinality(m[x])
    BY DEF Counted
  <2>1. CASE x = i
    <3>1. w.nlink[i] = 1 /\ Cardinality(m[i]) = 0
      BY <1>1, FS_EmptySet
    <3>2. Links(w, i) + Cardinality(m[i]) = 1
      BY <1>9, <3>1
    <3>3. /\ Links(w, i) + Cardinality(m[i]) <= w.nlink[i]
          /\ ~w.stray => w.nlink[i] = Links(w, i) + Cardinality(m[i])
      BY <3>1, <3>2
    <3> QED BY <2>1, <3>3
  <2>2. CASE x = d
    <3>1. v.nlink[d] \in Nat
      BY DEF FieldsTyped
    <3>2. /\ Links(v, d) + Cardinality(m[d]) <= v.nlink[d]
          /\ ~v.stray => v.nlink[d] = Links(v, d) + Cardinality(m[d])
      BY DEF RightLinks, Counted
    <3>3. Links(v, d) \in Nat /\ Cardinality(m[d]) \in Nat
      BY LinksNat, FlightsNat
    <3>4. /\ Links(w, d) + Cardinality(m[d]) <= w.nlink[d]
          /\ ~w.stray => w.nlink[d] = Links(w, d) + Cardinality(m[d])
      <4>1. CASE t = "dir"
        <5>1. Links(w, d) = Links(v, d) + 1 /\ w.nlink[d] = v.nlink[d] + 1
          BY <1>10, <4>1
        <5> QED BY <3>1, <3>2, <3>3, <5>1
      <4>2. CASE t # "dir"
        <5>1. Links(w, d) = Links(v, d) /\ w.nlink[d] = v.nlink[d]
          BY <1>10, <3>1, <3>3, <4>2
        <5> QED BY <3>1, <3>2, <3>3, <5>1
      <4> QED BY <4>1, <4>2
    <3> QED BY <2>2, <3>4
  <2>3. CASE x # i /\ x # d
    BY <1>11, <2>3 DEF RightLinks, Counted
  <2> QED BY <2>1, <2>2, <2>3
<1> QED BY <1>12, <1>13, <1>14 DEF RightLinks

\* A link is counted before it is made, or after it is gone: link count and links
\* under way change alike.
LEMMA CountKeeps ==
    ASSUME NEW v, NEW m \in Flights, RightLinks(v, m), FieldsTyped(v),
           NEW i \in Inodes, NEW k \in Int,
           NEW w, w.type = v.type, w.ents = v.ents, w.up = v.up, w.stray = v.stray,
           w.nlink[i] = v.nlink[i] + k,
           \A x \in Inodes \ {i} : w.nlink[x] = v.nlink[x],
           NEW m2 \in Flights, Cardinality(m2[i]) = Cardinality(m[i]) + k,
           \A x \in Inodes \ {i} : m2[x] = m[x]
    PROVE  RightLinks(w, m2)
<1>1. /\ \A x : Named(w, x) = Named(v, x)
      /\ \A x : Subdirs(w, x) = Subdirs(v, x)
      /\ \A x : Links(w, x) = Links(v, x)
  BY DEF Named, Subdirs, Links
<1>2. Sound(w)
  BY <1>1 DEF RightLinks, Sound
<1>3. ~w.stray => RemovedEmpty(w)
  BY <1>1 DEF RightLinks, RemovedEmpty
<1>4. Counted(w, m2)
  <2> SUFFICES ASSUME NEW x \in Inodes, w.type[x] # "free"
               PROVE  /\ Links(w, x) + Cardinality(m2[x]) <= w.nlink[x]
                      /\ ~w.stray => w.nlink[x] = Links(w, x) + Cardinality(m2[x])
    BY DEF Counted
  <2>1. /\ Links(v, x) + Cardinality(m[x]) <= v.nlink[x]
        /\ ~v.stray => v.nlink[x] = Links(v, x) + Cardinality(m[x])
    BY DEF RightLinks, Counted
  <2>2. Links(v, x) \in Nat /\ Cardinality(m[x]) \in Nat /\ v.nlink[x] \in Nat
    BY LinksNat, FlightsNat DEF FieldsTyped
  <2>3. Links(w, x) = Links(v, x)
    BY <1>1
  <2>4. CASE x = i
    <3>1. Cardinality(m2[x]) = Cardinality(m[x]) + k /\ w.nlink[x] = v.nlink[x] + k
      BY <2>4
    <3> QED BY <2>1, <2>2, <2>3, <3>1
  <2>5. CASE x # i
    <3>1. m2[x] = m[x] /\ w.nlink[x] = v.nlink[x]
      BY <2>5
    <3> QED BY <2>1, <2>2, <2>3, <3>1
  <2> QED BY <2>4, <2>5
<1> QED BY <1>2, <1>3, <1>4 DEF RightLinks

\* dirlink() makes the entry <<d, n>> for a file that has been counted already.
LEMMA EnterKeeps ==
    ASSUME NEW v, NEW m \in Flights, RightLinks(v, m), FieldsTyped(v),
           NEW d \in Inodes, NEW n \in Names, NEW s \in Inodes,
           v.type[d] = "dir", v.type[s] \in {"file", "dev"}, v.ents[d][n] = NoInode,
           m[d] = {},
           NEW w, w.type = v.type, w.nlink = v.nlink, w.up = v.up,
           \A x \in Inodes, y \in Names :
               w.ents[x][y] = IF x = d /\ y = n THEN s ELSE v.ents[x][y],
           \A x \in Inodes \ {d} : w.ents[x] = v.ents[x],
           ~w.stray => ~v.stray /\ v.nlink[d] # 0,
           NEW m2 \in Flights, Cardinality(m2[s]) = Cardinality(m[s]) - 1,
           \A x \in Inodes \ {s} : m2[x] = m[x]
    PROVE  RightLinks(w, m2)
<1>1. s # d /\ s # Root /\ s # NoInode /\ v.up[s] = NoInode
  BY NamespaceAssumption DEF RightLinks, Sound
<1>2. ASSUME NEW x \in Inodes, x # s
      PROVE  Named(w, x) = Named(v, x)
  BY <1>2, NamespaceAssumption DEF Named
<1>3. Named(w, s) = Named(v, s) \cup {<<d, n>>} /\ <<d, n>> \notin Named(v, s)
  <2>1. <<d, n>> \in Named(w, s) /\ <<d, n>> \notin Named(v, s)
    BY <1>1 DEF Named
  <2>2. ASSUME NEW x \in Inodes, NEW y \in Names, <<x, y>> # <<d, n>>
        PROVE  <<x, y>> \in Named(w, s) <=> <<x, y>> \in Named(v, s)
    <3>1. w.ents[x][y] = v.ents[x][y]
      BY <2>2
    <3> QED BY <3>1 DEF Named
  <2>3. Named(w, s) \subseteq Inodes \X Names /\ Named(v, s) \subseteq Inodes \X Names
    BY DEF Named
  <2>4. ASSUME NEW e \in Named(w, s) PROVE e \in Named(v, s) \cup {<<d, n>>}
    <3>1. PICK x \in Inodes, y \in Names : e = <<x, y>>
      BY <2>3
    <3> QED BY <2>2, <3>1
  <2>5. ASSUME NEW e \in Named(v, s) PROVE e \in Named(w, s)
    <3>1. PICK x \in Inodes, y \in Names : e = <<x, y>>
      BY <2>3
    <3> QED BY <2>1, <2>2, <3>1
  <2> QED BY <2>1, <2>4, <2>5
<1>4. ASSUME NEW x \in Inodes PROVE Subdirs(w, x) = Subdirs(v, x)
  <2>1. ASSUME NEW y \in Inodes \ {Root}
        PROVE  y \in Subdirs(w, x) <=> y \in Subdirs(v, x)
    BY <1>1, <1>2, NamespaceAssumption DEF Subdirs
  <2>2. Subdirs(w, x) \subseteq Inodes \ {Root} /\ Subdirs(v, x) \subseteq Inodes \ {Root}
    BY DEF Subdirs
  <2> QED BY <2>1, <2>2
<1>5. ASSUME NEW x \in Inodes, x # s PROVE Links(w, x) = Links(v, x)
  BY <1>2, <1>4, <1>5 DEF Links
<1>6. Links(w, s) = Links(v, s) + 1
  <2>1. Cardinality(Named(w, s)) = Cardinality(Named(v, s)) + 1
    BY <1>3, OneMore, NamedFinite
  <2> QED BY <1>1, <1>4, <2>1, NamedFinite, SubdirsFinite DEF Links
<1>7. Sound(w)
  <2>1. w.type[Root] = "dir" /\ Named(w, Root) = {}
    BY <1>1, <1>2, NamespaceAssumption DEF RightLinks, Sound
  <2>2. ASSUME NEW x \in Inodes
        PROVE  /\ w.type[x] = "dir" => w.up[x] \in Inodes
               /\ w.type[x] # "dir" => w.up[x] = NoInode /\ w.ents[x] = NoEnts
    BY DEF RightLinks, Sound
  <2>3. ASSUME NEW x \in Inodes, Named(w, x) # {}
        PROVE  /\ w.type[x] # "free"
               /\ w.type[x] = "dir" => \E y \in Names : Named(w, x) = {<<w.up[x], y>>}
    <3>1. CASE x = s
      BY <3>1
    <3>2. CASE x # s
      <4>1. Named(w, x) = Named(v, x)
        BY <1>2, <3>2
      <4> QED BY <2>3, <4>1 DEF RightLinks, Sound
    <3> QED BY <3>1, <3>2
  <2> QED BY <2>1, <2>2, <2>3 DEF Sound
<1>8. ASSUME ~w.stray PROVE RemovedEmpty(w)
  <2> SUFFICES ASSUME NEW x \in Inodes \ {Root}, w.type[x] = "dir", Named(w, x) = {}
               PROVE  w.ents[x] = NoEnts
    BY DEF RemovedEmpty
  <2>1. x # s /\ ~v.stray /\ v.nlink[d] # 0
    BY <1>8
  <2>2. v.type[x] = "dir" /\ Named(v, x) = {}
    BY <1>2, <2>1
  <2>3. x # d
    <3> SUFFICES ASSUME x = d PROVE FALSE
      OBVIOUS
    <3> QED BY <2>1, <2>2, HasName
  <2> QED BY <2>1, <2>2, <2>3 DEF RightLinks, RemovedEmpty
<1>9. Counted(w, m2)
  <2> SUFFICES ASSUME NEW x \in Inodes, w.type[x] # "free"
               PROVE  /\ Links(w, x) + Cardinality(m2[x]) <= w.nlink[x]
                      /\ ~w.stray => w.nlink[x] = Links(w, x) + Cardinality(m2[x])
    BY DEF Counted
  <2>1. /\ Links(v, x) + Cardinality(m[x]) <= v.nlink[x]
        /\ ~v.stray => v.nlink[x] = Links(v, x) + Cardinality(m[x])
    BY DEF RightLinks, Counted
  <2>2. Links(v, x) \in Nat /\ Cardinality(m[x]) \in Nat /\ v.nlink[x] \in Nat
    BY LinksNat, FlightsNat DEF FieldsTyped
  <2>3. Links(w, x) + Cardinality(m2[x]) = Links(v, x) + Cardinality(m[x])
    <3>1. CASE x = s
      <4>1. Links(w, x) = Links(v, x) + 1 /\ Cardinality(m2[x]) = Cardinality(m[x]) - 1
        BY <1>6, <3>1
      <4> QED BY <2>2, <4>1
    <3>2. CASE x # s
      BY <1>5, <3>2
    <3> QED BY <3>1, <3>2
  <2> QED BY <2>1, <2>3
<1> QED BY <1>7, <1>8, <1>9 DEF RightLinks

\* unlink() erases the entry <<d, n>> of a file or of an empty directory, and
\* takes the ".." of the directory off d's links; the inode keeps its link for now.
LEMMA RemoveKeeps ==
    ASSUME NEW v, NEW m \in Flights, RightLinks(v, m), FieldsTyped(v),
           NEW d \in Inodes, NEW n \in Names, NEW i \in Inodes,
           v.ents[d][n] = i, i # d, v.type[i] = "dir" => v.ents[i] = NoEnts,
           NEW w, w.type = v.type, w.up = v.up, w.stray = v.stray,
           w.nlink[d] = v.nlink[d] - (IF v.type[i] = "dir" THEN 1 ELSE 0),
           \A x \in Inodes \ {d} : w.nlink[x] = v.nlink[x],
           \A x \in Inodes, y \in Names :
               w.ents[x][y] = IF x = d /\ y = n THEN NoInode ELSE v.ents[x][y],
           \A x \in Inodes \ {d} : w.ents[x] = v.ents[x],
           NEW m2 \in Flights, Cardinality(m2[i]) = Cardinality(m[i]) + 1,
           \A x \in Inodes \ {i} : m2[x] = m[x]
    PROVE  RightLinks(w, m2)
<1>1. /\ i # NoInode /\ i # Root /\ <<d, n>> \in Named(v, i)
      /\ v.type[i] # "free" /\ v.type[d] = "dir"
  <2>1. i # NoInode /\ <<d, n>> \in Named(v, i)
    BY NamespaceAssumption DEF Named
  <2>2. v.ents[d] # NoEnts
    BY <2>1 DEF NoEnts
  <2> QED BY <2>1, <2>2 DEF RightLinks, Sound
<1>2. ASSUME NEW x \in Inodes, x # i
      PROVE  Named(w, x) = Named(v, x)
  BY <1>2, NamespaceAssumption DEF Named
<1>3. Named(w, i) = Named(v, i) \ {<<d, n>>}
  <2>1. <<d, n>> \notin Named(w, i)
    BY <1>1 DEF Named
  <2>2. ASSUME NEW x \in Inodes, NEW y \in Names, <<x, y>> # <<d, n>>
        PROVE  <<x, y>> \in Named(w, i) <=> <<x, y>> \in Named(v, i)
    <3>1. w.ents[x][y] = v.ents[x][y]
      BY <2>2
    <3> QED BY <3>1 DEF Named
  <2>3. Named(w, i) \subseteq Inodes \X Names /\ Named(v, i) \subseteq Inodes \X Names
    BY DEF Named
  <2>4. ASSUME NEW e \in Named(w, i) PROVE e \in Named(v, i) \ {<<d, n>>}
    <3>1. PICK x \in Inodes, y \in Names : e = <<x, y>>
      BY <2>3
    <3> QED BY <2>1, <2>2, <3>1
  <2>5. ASSUME NEW e \in Named(v, i) \ {<<d, n>>} PROVE e \in Named(w, i)
    <3>1. PICK x \in Inodes, y \in Names : e = <<x, y>>
      BY <2>3
    <3> QED BY <2>2, <3>1
  <2> QED BY <2>4, <2>5
<1>4. v.type[i] = "dir" => v.up[i] = d /\ Named(w, i) = {}
  <2> SUFFICES ASSUME v.type[i] = "dir" PROVE v.up[i] = d /\ Named(w, i) = {}
    OBVIOUS
  <2>1. PICK y \in Names : Named(v, i) = {<<v.up[i], y>>}
    BY <1>1 DEF RightLinks, Sound
  <2>2. <<v.up[i], y>> = <<d, n>>
    BY <1>1, <2>1
  <2> QED BY <1>3, <2>1, <2>2
<1>5. v.type[i] # "dir" => v.up[i] = NoInode
  BY DEF RightLinks, Sound
<1>6. ASSUME NEW x \in Inodes, NEW y \in Inodes \ {Root}, y # i
      PROVE  y \in Subdirs(w, x) <=> y \in Subdirs(v, x)
  BY <1>2, <1>6 DEF Subdirs
<1>7. ASSUME NEW x \in Inodes
      PROVE  /\ Subdirs(w, x) \subseteq Inodes \ {Root}
             /\ Subdirs(v, x) \subseteq Inodes \ {Root}
  BY DEF Subdirs
<1>8. ASSUME NEW x \in Inodes, x # d \/ v.type[i] # "dir"
      PROVE  Subdirs(w, x) = Subdirs(v, x)
  <2>1. i \notin Subdirs(w, x) /\ i \notin Subdirs(v, x)
    BY <1>4, <1>5, <1>8, NamespaceAssumption DEF Subdirs
  <2>2. \A y : y \in Subdirs(w, x) <=> y \in Subdirs(v, x)
    BY <1>6, <1>7, <2>1
  <2> QED BY <2>2
<1>9. ASSUME v.type[i] = "dir"
      PROVE  Subdirs(w, d) = Subdirs(v, d) \ {i} /\ i \in Subdirs(v, d)
  <2>1. i \notin Subdirs(w, d) /\ i \in Subdirs(v, d)
    BY <1>1, <1>4, <1>9 DEF Subdirs
  <2> QED BY <1>6, <1>7, <2>1
<1>10. Links(w, i) = Links(v, i) - 1
  <2>1. Cardinality(Named(w, i)) = Cardinality(Named(v, i)) - 1
    BY <1>1, <1>3, OneLess, NamedFinite
  <2>2. Subdirs(w, i) = Subdirs(v, i)
    BY <1>8
  <2> QED BY <1>1, <2>1, <2>2, NamedFinite, SubdirsFinite DEF Links
<1>11. Links(w, d) = Links(v, d) - (IF v.type[i] = "dir" THEN 1 ELSE 0)
  <2>1. Cardinality(Subdirs(w, d))
           = Cardinality(Subdirs(v, d)) - (IF v.type[i] = "dir" THEN 1 ELSE 0)
    <3>1. CASE v.type[i] = "dir"
      <4>1. Cardinality(Subdirs(w, d)) = Cardinality(Subdirs(v, d)) - 1
        BY <1>9, <3>1, OneLess, SubdirsFinite
      <4> QED BY <3>1, <4>1
    <3>2. CASE v.type[i] # "dir"
      <4>1. Subdirs(w, d) = Subdirs(v, d)
        BY <1>8, <3>2
      <4> QED BY <3>2, <4>1, SubdirsFinite
    <3> QED BY <3>1, <3>2
  <2>2. Named(w, d) = Named(v, d)
    BY <1>2
  <2> QED BY <2>1, <2>2, NamedFinite, SubdirsFinite DEF Links
<1>12. ASSUME NEW x \in Inodes, x # i, x # d PROVE Links(w, x) = Links(v, x)
  BY <1>2, <1>8, <1>12 DEF Links
<1>13. Sound(w)
  <2>1. w.type[Root] = "dir" /\ Named(w, Root) = {}
    BY <1>1, <1>2, NamespaceAssumption DEF RightLinks, Sound
  <2>2. ASSUME NEW x \in Inodes
        PROVE  /\ w.type[x] = "dir" => w.up[x] \in Inodes
               /\ w.type[x] # "dir" => w.up[x] = NoInode /\ w.ents[x] = NoEnts
    BY <1>1 DEF RightLinks, Sound
  <2>3. ASSUME NEW x \in Inodes, Named(w, x) # {}
        PROVE  /\ w.type[x] # "free"
               /\ w.type[x] = "dir" => \E y \in Names : Named(w, x) = {<<w.up[x], y>>}
    <3>1. CASE x = i
      BY <1>1, <1>4, <2>3, <3>1
    <3>2. CASE x # i
      <4>1. Named(w, x) = Named(v, x)
        BY <1>2, <3>2
      <4> QED BY <2>3, <4>1 DEF RightLinks, Sound
    <3> QED BY <3>1, <3>2
  <2> QED BY <2>1, <2>2, <2>3 DEF Sound
<1>14. ASSUME ~w.stray PROVE RemovedEmpty(w)
  <2> SUFFICES ASSUME NEW x \in Inodes \ {Root}, w.type[x] = "dir", Named(w, x) = {}
               PROVE  w.ents[x] = NoEnts
    BY DEF RemovedEmpty
  <2>1. CASE x = i
    BY <2>1
  <2>2. CASE x # i
    <3>1. Named(v, x) = {} /\ v.type[x] = "dir"
      BY <1>2, <2>2
    <3>2. v.ents[x] = NoEnts
      BY <1>14, <3>1 DEF RightLinks, RemovedEmpty
    <3>3. x # d
      BY <1>1, <3>2 DEF NoEnts
    <3> QED BY <3>2, <3>3
  <2> QED BY <2>1, <2>2
<1>15. Counted(w, m2)
  <2> SUFFICES ASSUME NEW x \in Inodes, w.type[x] # "free"
               PROVE  /\ Links(w, x) + Cardinality(m2[x]) <= w.nlink[x]
                      /\ ~w.stray => w.nlink[x] = Links(w, x) + Cardinality(m2[x])
    BY DEF Counted
  <2>1. /\ Links(v, x) + Cardinality(m[x]) <= v.nlink[x]
        /\ ~v.stray => v.nlink[x] = Links(v, x) + Cardinality(m[x])
    BY DEF RightLinks, Counted
  <2>2. Links(v, x) \in Nat /\ Cardinality(m[x]) \in Nat /\ v.nlink[x] \in Nat
    BY LinksNat, FlightsNat DEF FieldsTyped
  <2>3. CASE x = i
    <3>1. /\ Links(w, x) = Links(v, x) - 1 /\ Cardinality(m2[x]) = Cardinality(m[x]) + 1
          /\ w.nlink[x] = v.nlink[x]
      BY <1>10, <2>3
    <3> QED BY <2>1, <2>2, <3>1
  <2>4. CASE x = d
    <3>1. m2[x] = m[x]
      BY <2>4
    <3>2. CASE v.type[i] = "dir"
      <4>1. Links(w, x) = Links(v, x) - 1 /\ w.nlink[x] = v.nlink[x] - 1
        BY <1>11, <2>4, <3>2
      <4> QED BY <2>1, <2>2, <3>1, <4>1
    <3>3. CASE v.type[i] # "dir"
      <4>1. Links(w, x) = Links(v, x) /\ w.nlink[x] = v.nlink[x]
        BY <1>11, <2>2, <2>4, <3>3
      <4> QED BY <2>1, <2>2, <3>1, <4>1
    <3> QED BY <3>2, <3>3
  <2>5. CASE x # i /\ x # d
    <3>1. Links(w, x) = Links(v, x) /\ m2[x] = m[x] /\ w.nlink[x] = v.nlink[x]
      BY <1>12, <2>5
    <3> QED BY <2>1, <3>1
  <2> QED BY <2>3, <2>4, <2>5
<1> QED BY <1>13, <1>14, <1>15 DEF RightLinks

\* iput() frees an inode without links.
LEMMA FreeKeeps ==
    ASSUME NEW v, NEW m \in Flights, RightLinks(v, m), FieldsTyped(v),
           NEW i \in Inodes, v.type[i] # "free", v.nlink[i] = 0,
           NEW w, w.nlink = v.nlink, w.stray = v.stray,
           w.type[i] = "free", w.ents[i] = NoEnts, w.up[i] = NoInode,
           \A x \in Inodes \ {i} : /\ w.type[x] = v.type[x] /\ w.ents[x] = v.ents[x]
                                   /\ w.up[x] = v.up[x]
    PROVE  RightLinks(w, m) /\ i # Root /\ Named(v, i) = {}
<1>1. i # Root /\ Named(v, i) = {} /\ Subdirs(v, i) = {} /\ m[i] = {} /\ i # NoInode
  BY NoLinks, NamespaceAssumption
<1>2. ASSUME NEW x \in Inodes PROVE Named(w, x) \subseteq Named(v, x)
  <2> SUFFICES ASSUME NEW y \in Inodes, NEW n \in Names, <<y, n>> \in Named(w, x)
               PROVE  <<y, n>> \in Named(v, x)
    BY DEF Named
  <2>1. w.ents[y][n] = x
    BY DEF Named
  <2>2. y # i
    BY <2>1, NamespaceAssumption DEF NoEnts
  <2> QED BY <2>1, <2>2 DEF Named
<1>3. ASSUME NEW x \in Inodes, v.type[x] = "dir" \/ ~v.stray
      PROVE  Named(w, x) = Named(v, x)
  <2> SUFFICES ASSUME NEW y \in Inodes, NEW n \in Names, <<y, n>> \in Named(v, x)
               PROVE  <<y, n>> \in Named(w, x)
    BY <1>2 DEF Named
  <2>1. v.ents[y][n] = x
    BY DEF Named
  <2>2. y # i
    <3> SUFFICES ASSUME y = i PROVE FALSE
      OBVIOUS
    <3>1. CASE v.type[x] = "dir"
      <4>1. PICK z \in Names : Named(v, x) = {<<v.up[x], z>>}
        BY <3>1 DEF RightLinks, Sound
      <4>2. v.up[x] = i /\ x # Root
        BY <4>1 DEF RightLinks, Sound
      <4>3. x \in Subdirs(v, i)
        BY <4>2 DEF Subdirs
      <4> QED BY <1>1, <4>3
    <3>2. CASE ~v.stray
      <4>1. v.ents[i] = NoEnts
        BY <1>1, <3>2 DEF RightLinks, Sound, RemovedEmpty
      <4> QED BY <2>1, <4>1, NamespaceAssumption DEF NoEnts
    <3> QED BY <1>3, <3>1, <3>2
  <2> QED BY <2>1, <2>2 DEF Named
<1>4. ASSUME NEW x \in Inodes PROVE Subdirs(w, x) = Subdirs(v, x)
  <2>1. ASSUME NEW y \in Inodes \ {Root}
        PROVE  y \in Subdirs(w, x) <=> y \in Subdirs(v, x)
    <3>1. CASE y = i
      BY <1>1, <3>1, NamespaceAssumption DEF Subdirs
    <3>2. CASE y # i /\ v.type[y] = "dir"
      BY <1>3, <3>2 DEF Subdirs
    <3>3. CASE y # i /\ v.type[y] # "dir"
      <4>1. v.up[y] = NoInode /\ w.up[y] = NoInode
        BY <3>3 DEF RightLinks, Sound
      <4> QED BY <4>1, NamespaceAssumption DEF Subdirs
    <3> QED BY <3>1, <3>2, <3>3
  <2>2. Subdirs(w, x) \subseteq Inodes \ {Root} /\ Subdirs(v, x) \subseteq Inodes \ {Root}
    BY DEF Subdirs
  <2> QED BY <2>1, <2>2
<1>5. ASSUME NEW x \in Inodes
      PROVE  Links(w, x) <= Links(v, x) /\ (~v.stray => Links(w, x) = Links(v, x))
  <2>1. Cardinality(Named(w, x)) <= Cardinality(Named(v, x))
    BY <1>2, NamedFinite, FS_Subset
  <2>2. Subdirs(w, x) = Subdirs(v, x)
    BY <1>4
  <2>3. ~v.stray => Named(w, x) = Named(v, x)
    BY <1>3
  <2>4. Links(w, x) <= Links(v, x)
    BY <2>1, <2>2, NamedFinite, SubdirsFinite DEF Links
  <2> QED BY <2>2, <2>3, <2>4 DEF Links
<1>6. Sound(w)
  <2>1. w.type[Root] = "dir" /\ Named(w, Root) = {}
    BY <1>1, <1>2, NamespaceAssumption DEF RightLinks, Sound
  <2>2. ASSUME NEW x \in Inodes
        PROVE  /\ w.type[x] = "dir" => w.up[x] \in Inodes
               /\ w.type[x] # "dir" => w.up[x] = NoInode /\ w.ents[x] = NoEnts
    BY DEF RightLinks, Sound
  <2>3. ASSUME NEW x \in Inodes, Named(w, x) # {}
        PROVE  /\ w.type[x] # "free"
               /\ w.type[x] = "dir" => \E y \in Names : Named(w, x) = {<<w.up[x], y>>}
    <3>1. Named(v, x) # {} /\ x # i
      BY <1>1, <1>2, <2>3
    <3>2. /\ v.type[x] # "free"
          /\ v.type[x] = "dir" => \E y \in Names : Named(v, x) = {<<v.up[x], y>>}
      BY <3>1 DEF RightLinks, Sound
    <3>3. v.type[x] = "dir" => Named(w, x) = Named(v, x)
      BY <1>3
    <3> QED BY <3>1, <3>2, <3>3
  <2> QED BY <2>1, <2>2, <2>3 DEF Sound
<1>7. ASSUME ~w.stray PROVE RemovedEmpty(w)
  <2> SUFFICES ASSUME NEW x \in Inodes \ {Root}, w.type[x] = "dir", Named(w, x) = {}
               PROVE  w.ents[x] = NoEnts
    BY DEF RemovedEmpty
  <2>1. x # i /\ v.type[x] = "dir" /\ Named(v, x) = {}
    BY <1>3, <1>7
  <2> QED BY <1>7, <2>1 DEF RightLinks, RemovedEmpty
<1>8. Counted(w, m)
  <2> SUFFICES ASSUME NEW x \in Inodes, w.type[x] # "free"
               PROVE  /\ Links(w, x) + Cardinality(m[x]) <= w.nlink[x]
                      /\ ~w.stray => w.nlink[x] = Links(w, x) + Cardinality(m[x])
    BY DEF Counted
  <2>1. /\ Links(v, x) + Cardinality(m[x]) <= v.nlink[x]
        /\ ~v.stray => v.nlink[x] = Links(v, x) + Cardinality(m[x])
    BY DEF RightLinks, Counted
  <2>2. /\ Links(v, x) \in Nat /\ Links(w, x) \in Nat /\ Cardinality(m[x]) \in Nat
        /\ v.nlink[x] \in Nat
    BY LinksNat, FlightsNat DEF FieldsTyped
  <2>3. Links(w, x) <= Links(v, x) /\ (~v.stray => Links(w, x) = Links(v, x))
    BY <1>5
  <2> QED BY <2>1, <2>2, <2>3
<1> QED BY <1>1, <1>6, <1>7, <1>8 DEF RightLinks

-----------------------------------------------------------------------------
(***************************************************************************)
(* Pointers.  f[p][r] is where the pointer r of process p leads to.        *)
(***************************************************************************)
UsersIn(f, i) == {x \in Procs \X Roles : f[x[1]][x[2]] = i}

Is(x, i) == IF x = i THEN 1 ELSE 0

\* How many of the pointers of a process, h, lead to i.
PointsTo(h, i) ==
    Is(h.cwd, i) + Is(h.open, i) + Is(h.ip, i) + Is(h.dp, i) + Is(h.src, i)
        + Is(h.put1, i) + Is(h.put2, i)

Leading(h, S, i) == {r \in S : h[r] = i}

\* One more role to count, at most one more pointer.
LEMMA OneRole ==
    ASSUME NEW h, NEW i, NEW S, IsFiniteSet(S), NEW x, x \notin S,
           NEW T, T = S \cup {x}
    PROVE  /\ IsFiniteSet(T)
           /\ Cardinality(Leading(h, T, i)) = Cardinality(Leading(h, S, i)) + Is(h[x], i)
<1>1. IsFiniteSet(T)
  BY OneMore
<1>2. IsFiniteSet(Leading(h, S, i)) /\ Cardinality(Leading(h, S, i)) \in Nat
  <2>1. IsFiniteSet(Leading(h, S, i))
    BY FS_Subset DEF Leading
  <2> QED BY <2>1, FS_CardinalityType
<1>3. CASE h[x] = i
  <2>1. Leading(h, T, i) = Leading(h, S, i) \cup {x} /\ x \notin Leading(h, S, i)
    BY <1>3 DEF Leading
  <2>2. Cardinality(Leading(h, T, i)) = Cardinality(Leading(h, S, i)) + 1
    BY <1>2, <2>1, OneMore
  <2>3. Is(h[x], i) = 1
    BY <1>3 DEF Is
  <2> QED BY <1>1, <2>2, <2>3
<1>4. CASE h[x] # i
  <2>1. Leading(h, T, i) = Leading(h, S, i)
    BY <1>4 DEF Leading
  <2>2. Is(h[x], i) = 0
    BY <1>4 DEF Is
  <2> QED BY <1>1, <1>2, <2>1, <2>2
<1> QED BY <1>3, <1>4

\* The pointers of one process, role by role.
LEMMA RolesCounted ==
    ASSUME NEW h, NEW i
    PROVE  /\ IsFiniteSet(Roles)
           /\ Cardinality(Leading(h, Roles, i)) = PointsTo(h, i)
<1> DEFINE C(S) == Cardinality(Leading(h, S, i))
           S1 == {"cwd"}
           S2 == {"cwd", "open"}
           S3 == {"cwd", "open", "ip"}
           S4 == {"cwd", "open", "ip", "dp"}
           S5 == {"cwd", "open", "ip", "dp", "src"}
           S6 == {"cwd", "open", "ip", "dp", "src", "put1"}
<1>0. IsFiniteSet({}) /\ C({}) = 0
  <2>1. Leading(h, {}, i) = {}
    BY DEF Leading
  <2> QED BY <2>1, FS_EmptySet
<1>1. IsFiniteSet(S1) /\ C(S1) = C({}) + Is(h["cwd"], i)
  <2>1. S1 = {} \cup {"cwd"} /\ "cwd" \notin {}
    OBVIOUS
  <2> HIDE DEF S1
  <2> QED BY ONLY <1>0, <2>1, OneRole
<1>2. IsFiniteSet(S2) /\ C(S2) = C(S1) + Is(h["open"], i)
  <2>1. S2 = S1 \cup {"open"} /\ "open" \notin S1
    OBVIOUS
  <2> HIDE DEF S1, S2, S3, S4, S5, S6
  <2> QED BY ONLY <1>1, <2>1, OneRole
<1>3. IsFiniteSet(S3) /\ C(S3) = C(S2) + Is(h["ip"], i)
  <2>1. S3 = S2 \cup {"ip"} /\ "ip" \notin S2
    OBVIOUS
  <2> HIDE DEF S1, S2, S3, S4, S5, S6
  <2> QED BY ONLY <1>2, <2>1, OneRole
<1>4. IsFiniteSet(S4) /\ C(S4) = C(S3) + Is(h["dp"], i)
  <2>1. S4 = S3 \cup {"dp"} /\ "dp" \notin S3
    OBVIOUS
  <2> HIDE DEF S1, S2, S3, S4, S5, S6
  <2> QED BY ONLY <1>3, <2>1, OneRole
<1>5. IsFiniteSet(S5) /\ C(S5) = C(S4) + Is(h["src"], i)
  <2>1. S5 = S4 \cup {"src"} /\ "src" \notin S4
    OBVIOUS
  <2> HIDE DEF S1, S2, S3, S4, S5, S6
  <2> QED BY ONLY <1>4, <2>1, OneRole
<1>6. IsFiniteSet(S6) /\ C(S6) = C(S5) + Is(h["put1"], i)
  <2>1. S6 = S5 \cup {"put1"} /\ "put1" \notin S5
    OBVIOUS
  <2> HIDE DEF S1, S2, S3, S4, S5, S6
  <2> QED BY ONLY <1>5, <2>1, OneRole
<1>7. IsFiniteSet(Roles) /\ C(Roles) = C(S6) + Is(h["put2"], i)
  <2>1. Roles = S6 \cup {"put2"} /\ "put2" \notin S6
    BY DEF Roles
  <2> HIDE DEF S1, S2, S3, S4, S5, S6
  <2> QED BY ONLY <1>6, <2>1, OneRole
<1> HIDE DEF C
<1>8. C(Roles) = PointsTo(h, i)
  BY <1>0, <1>1, <1>2, <1>3, <1>4, <1>5, <1>6, <1>7 DEF PointsTo, Is
<1> QED BY <1>7, <1>8 DEF C

\* What one process does changes the users of an inode by its own pointers.
LEMMA UsersChange ==
    ASSUME NEW f, NEW g, NEW p \in Procs, \A q \in Procs \ {p} : g[q] = f[q], NEW i
    PROVE  /\ IsFiniteSet(UsersIn(f, i)) /\ IsFiniteSet(UsersIn(g, i))
           /\ Cardinality(UsersIn(g, i)) + PointsTo(f[p], i)
                 = Cardinality(UsersIn(f, i)) + PointsTo(g[p], i)
<1> DEFINE Rest == {x \in (Procs \ {p}) \X Roles : f[x[1]][x[2]] = i}
           Mine(h) == {p} \X Leading(h, Roles, i)
<1>1. IsFiniteSet(Procs \X Roles)
  <2>1. IsFiniteSet(Roles)
    BY RolesCounted
  <2> QED BY <2>1, NamespaceAssumption, FS_Product
<1>2. /\ IsFiniteSet(UsersIn(f, i)) /\ IsFiniteSet(UsersIn(g, i)) /\ IsFiniteSet(Rest)
  <2>1. UsersIn(f, i) \subseteq Procs \X Roles /\ UsersIn(g, i) \subseteq Procs \X Roles
    BY DEF UsersIn
  <2>2. Rest \subseteq Procs \X Roles
    OBVIOUS
  <2> QED BY <1>1, <2>1, <2>2, FS_Subset
<1>3. ASSUME NEW h PROVE IsFiniteSet(Mine(h)) /\ Cardinality(Mine(h)) = PointsTo(h, i)
  <2>1. IsFiniteSet({p}) /\ Cardinality({p}) = 1
    BY FS_Singleton
  <2>2. /\ IsFiniteSet(Leading(h, Roles, i))
        /\ Cardinality(Leading(h, Roles, i)) = PointsTo(h, i)
    BY RolesCounted, FS_Subset DEF Leading
  <2>3. PointsTo(h, i) \in Nat
    BY DEF PointsTo, Is
  <2>4. IsFiniteSet(Mine(h))
        /\ Cardinality(Mine(h)) = Cardinality({p}) * Cardinality(Leading(h, Roles, i))
    BY <2>1, <2>2, FS_Product
  <2>5. Cardinality(Mine(h)) = 1 * PointsTo(h, i)
    BY <2>1, <2>2, <2>4
  <2> QED BY <2>3, <2>4, <2>5
<1>4. UsersIn(f, i) = Rest \cup Mine(f[p]) /\ Rest \cap Mine(f[p]) = {}
  BY DEF UsersIn, Leading
<1>5. UsersIn(g, i) = Rest \cup Mine(g[p]) /\ Rest \cap Mine(g[p]) = {}
  BY DEF UsersIn, Leading
<1>6. ASSUME NEW S, NEW h, S = Rest \cup Mine(h), Rest \cap Mine(h) = {}
      PROVE  Cardinality(S) = Cardinality(Rest) + PointsTo(h, i)
  <2> HIDE DEF Rest, Mine
  <2>1. Cardinality(S) = Cardinality(Rest) + Cardinality(Mine(h)) - Cardinality({})
    BY <1>2, <1>3, <1>6, FS_Union
  <2>2. Cardinality(Rest) \in Nat /\ Cardinality({}) = 0 /\ PointsTo(h, i) \in Nat
    BY <1>2, FS_CardinalityType, FS_EmptySet DEF PointsTo, Is
  <2> QED BY <1>3, <2>1, <2>2
<1>7. /\ Cardinality(UsersIn(f, i)) = Cardinality(Rest) + PointsTo(f[p], i)
      /\ Cardinality(UsersIn(g, i)) = Cardinality(Rest) + PointsTo(g[p], i)
  <2> HIDE DEF Rest, Mine
  <2> QED BY <1>4, <1>5, <1>6
<1>8. Cardinality(Rest) \in Nat /\ PointsTo(f[p], i) \in Nat /\ PointsTo(g[p], i) \in Nat
  BY <1>2, FS_CardinalityType DEF PointsTo, Is
<1> HIDE DEF Rest
<1> QED BY <1>2, <1>7, <1>8

\* The only user of an inode is the one known.
LEMMA OnlyUser ==
    ASSUME NEW f, NEW i, NEW x \in UsersIn(f, i), Cardinality(UsersIn(f, i)) = 1,
           NEW y \in UsersIn(f, i)
    PROVE  y = x
<1>1. IsFiniteSet(UsersIn(f, i))
  <2>1. PICK p \in Procs : TRUE
    BY DEF UsersIn
  <2> QED BY <2>1, UsersChange
<1>2. PICK z : UsersIn(f, i) = {z}
  BY <1>1, FS_Singleton
<1> QED BY <1>2

-----------------------------------------------------------------------------
(***************************************************************************)
(* Types.                                                                  *)
(***************************************************************************)

\* The first element of a sequence and the rest.
LEMMA HeadAndTail ==
    ASSUME NEW S, NEW s \in Seq(S), s # <<>>
    PROVE  Head(s) \in S /\ Tail(s) \in Seq(S) /\ Len(Tail(s)) = Len(s) - 1
BY HeadTailProperties

\* A process that is in no call has the type of one.
LEMMA IdleType == Idle \in CallType
<1>1. /\ <<>> \in Seq(Names \cup Dots) /\ <<>> \in Seq(Path) /\ <<>> \in Seq(Inodes)
  OBVIOUS
<1> QED BY <1>1 DEF Idle, CallType, Points, Some

\* What the operators of the path walk return.
LEMMA WalkTypes ==
    ASSUME TypeOK, NEW p \in Procs
    PROVE  /\ \A q \in Path : WalkFrom(p, q) \in Inodes
           /\ \A d \in Inodes, n \in Names \cup Dots : Lookup(d, n) \in Some
BY NamespaceAssumption DEF TypeOK, VolumeType, Volume, WalkFrom, Lookup, Path, Some, Dots

\* A call that only has to give back what is in s.
LEMMA FinishType ==
    ASSUME TypeOK, NEW p \in Procs, NEW s \in Seq(Inodes), Finish(p, s) \/ Fail(p, s)
    PROVE  act' \in [Procs -> CallType]
<1>1. act \in [Procs -> CallType]
  BY DEF TypeOK
<1>2. [Idle EXCEPT !.at = "end", !.puts = s] \in CallType
  BY IdleType DEF Idle, CallType, Points
<1>3. [Idle EXCEPT !.at = "bad", !.src = act[p].src, !.puts = s] \in CallType
  BY <1>1, IdleType DEF Idle, CallType, Points
<1> QED BY <1>1, <1>2, <1>3 DEF Finish, Fail

\* The type invariant, variable by variable.
FilesTyped ==
    /\ type \in [Inodes -> Types] /\ nlink \in [Inodes -> Nat]
    /\ ents \in [Inodes -> [Names -> Some]] /\ up \in [Inodes -> Some]
    /\ stray \in BOOLEAN

CacheTyped ==
    /\ ref \in [Inodes -> Nat] /\ valid \in [Inodes -> BOOLEAN]
    /\ lock \in [Inodes -> Procs \cup {NoProc}]

CallsTyped ==
    /\ cwd \in [Procs -> Inodes] /\ open \in [Procs -> Some]
    /\ act \in [Procs -> CallType]

\* TypeOK says the same of the volume, the cache and the calls.
LEMMA TypeParts ==
    TypeOK <=> /\ FilesTyped /\ CacheTyped /\ CallsTyped
               /\ durable \in VolumeType /\ session \in Sessions
BY DEF TypeOK, FilesTyped, CacheTyped, CallsTyped, VolumeType, Volume

\* What is typed in the variables is typed in their record.
LEMMA FilesTypedIsFields == FilesTyped <=> FieldsTyped(Volume)
BY DEF FilesTyped, FieldsTyped, Volume

\* Whoever is pointed to has a reference.
LEMMA RefPositive ==
    ASSUME TypeOK, RefInv, NEW p \in Procs, NEW r \in Roles, NEW i \in Inodes,
           Held(p)[r] = i
    PROVE  ref[i] \in Nat /\ ref[i] >= 1
<1>1. PICK f : f = [q \in Procs |-> Held(q)]
  OBVIOUS
<1>2. Users(i) = UsersIn(f, i)
  BY <1>1 DEF Users, UsersIn
<1>3. <<p, r>> \in Users(i)
  BY DEF Users
<1>4. IsFiniteSet(Users(i))
  BY <1>2, UsersChange
<1>5. Cardinality(Users(i)) # 0
  BY <1>3, <1>4, FS_EmptySet
<1> QED BY <1>5 DEF RefInv, TypeOK

\* A link under way is counted.
LEMMA PendingIsFlights == Pending \in Flights
BY DEF Pending, Flights, InFlight

\* A link on its way is counted: taking it back does not go below zero.
LEMMA LinkPositive ==
    ASSUME TypeOK, LinkInv, NEW p \in Procs, NEW i \in Inodes, p \in InFlight(i),
           type[i] # "free"
    PROVE  nlink[i] \in Nat /\ nlink[i] >= 1
<1>1. PICK v, m : v = Volume /\ m = Pending
  OBVIOUS
<1>2. m \in Flights /\ RightLinks(v, m) /\ v.type[i] # "free" /\ p \in m[i]
  BY <1>1, PendingIsFlights DEF LinkInv, Volume, Pending
<1>3. v.nlink[i] # 0
  BY <1>2, NoLinks
<1> QED BY <1>1, <1>3 DEF TypeOK, VolumeType, Volume

\* A directory in which there is one has a link for it.
LEMMA ParentPositive ==
    ASSUME TypeOK, LinkInv, NEW d \in Inodes, NEW n \in Names, NEW i \in Inodes,
           ents[d][n] = i, type[i] = "dir"
    PROVE  nlink[d] \in Nat /\ nlink[d] >= 1
<1>1. PICK v, m : v = Volume /\ m = Pending
  OBVIOUS
<1>2. /\ m \in Flights /\ RightLinks(v, m) /\ v.type[i] = "dir"
      /\ <<d, n>> \in Named(v, i)
  BY <1>1, PendingIsFlights DEF LinkInv, Volume, Named
<1>3. i # Root /\ v.up[i] = d
  <2>1. i # Root
    BY <1>2 DEF RightLinks, Sound
  <2>2. PICK y \in Names : Named(v, i) = {<<v.up[i], y>>}
    BY <1>2 DEF RightLinks, Sound
  <2> QED BY <1>2, <2>1, <2>2
<1>4. i \in Subdirs(v, d)
  BY <1>2, <1>3 DEF Subdirs
<1>5. v.type[d] # "free"
  <2>1. v.ents[d] # NoEnts
    BY <1>1, NamespaceAssumption DEF Volume, NoEnts
  <2> QED BY <1>2, <2>1 DEF RightLinks, Sound
<1>6. v.nlink[d] # 0
  BY <1>2, <1>4, <1>5, NoLinks
<1> QED BY <1>1, <1>6 DEF TypeOK, VolumeType, Volume

-----------------------------------------------------------------------------
(***************************************************************************)
(* Steps.                                                                  *)
(***************************************************************************)

\* A step of a process changes nothing of the calls of the others.
LEMMA OthersStay ==
    ASSUME CallsTyped, NEW p \in Procs, Step(p)
    PROVE  /\ \A q \in Procs \ {p} : act'[q] = act[q] /\ cwd'[q] = cwd[q] /\ open'[q] = open[q]
           /\ session' = session
<1> USE DEF CallsTyped, vars, fsVars, cacheVars, ofileVars, Finish, Fail, TakeFile
<1>1. ASSUME NEW r \in session, Begin(p, r)
      PROVE  /\ \A q \in Procs \ {p} : act'[q] = act[q] /\ cwd'[q] = cwd[q] /\ open'[q] = open[q]
             /\ session' = session
  BY <1>1 DEF Begin
<1>2. CASE Close(p) \/ End(p)
  BY <1>2 DEF Close, End
<1>3. CASE Iput(p)
  BY <1>3 DEF Iput, IputLocked, IputRef
<1>4. CASE Namex(p)
  BY <1>4 DEF Namex, WalkFail, WalkParent, WalkNext, WalkEnd
<1>5. CASE Create(p)
  BY <1>5 DEF Create, CreateExists, Exists, CreateNew, CreateAs, Created
<1>6. CASE OpenFound(p) \/ Chdir(p) \/ Refused(p)
  BY <1>6 DEF OpenFound, Chdir, Refused
<1>7. CASE SysUnlink(p)
  BY <1>7 DEF SysUnlink, UnlinkLook, Unlink, UnlinkNotEmpty, UnlinkDone
<1>8. CASE SysLink(p)
  BY <1>8 DEF SysLink, Link, LinkTo, LinkTaken, LinkBad
<1> QED BY <1>1, <1>2, <1>3, <1>4, <1>5, <1>6, <1>7, <1>8 DEF Step

\* Requests are well formed.
LEMMA RequestType ==
    ASSUME TypeOK, NEW r \in session
    PROVE  r.call \in Calls /\ r.path \in Path /\ r.new \in Path
BY NamespaceAssumption DEF TypeOK

\* A step leaves directories, open files and calls of their types.
LEMMA CallsTypedStep ==
    ASSUME TypeOK, ShapeInv, NEW p \in Procs, Step(p)
    PROVE  CallsTyped'
<1>0. CallsTyped
  BY TypeParts
<1> DEFINE a == act[p]
<1>1. /\ a \in CallType /\ a.path \in Seq(Names \cup Dots) /\ a.puts \in Seq(Inodes)
      /\ a.new \in Seq(Path) /\ a.ip \in Some /\ a.dp \in Some /\ a.src \in Some
      /\ Shape(a)
  BY <1>0 DEF CallsTyped, CallType, ShapeInv
<1>2. act \in [Procs -> CallType] /\ cwd \in [Procs -> Inodes] /\ open \in [Procs -> Some]
  BY <1>0 DEF CallsTyped
<1>3. /\ \A q \in Path : WalkFrom(p, q) \in Inodes /\ q.elems \in Seq(Names \cup Dots)
      /\ \A d \in Inodes, n \in Names \cup Dots : Lookup(d, n) \in Some
  BY WalkTypes DEF Path
<1>4. a.path # <<>> => /\ Last(p) \in Names \cup Dots
                       /\ Tail(a.path) \in Seq(Names \cup Dots)
  BY <1>1, HeadAndTail DEF Last
<1>5. ASSUME act' \in [Procs -> CallType], cwd' = cwd, open' = open PROVE CallsTyped'
  BY <1>2, <1>5 DEF CallsTyped
<1>6. \A i \in Inodes : <<i>> \in Seq(Inodes)
  OBVIOUS
<1>7. <<>> \in Seq(Inodes) /\ <<>> \in Seq(Path) /\ <<>> \in Seq(Names \cup Dots)
  OBVIOUS
<1>8. \A s \in Seq(Inodes) : Finish(p, s) \/ Fail(p, s) => act' \in [Procs -> CallType]
  BY FinishType
<1>9. ASSUME NEW i \in Some PROVE i # NoInode => i \in Inodes
  BY DEF Some
<1> USE DEF vars, fsVars, cacheVars, ofileVars
<1>a. ASSUME NEW r \in session, Begin(p, r) PROVE CallsTyped'
  <2>1. [Idle EXCEPT !.at = "walk", !.call = r.call, !.path = r.path.elems,
                     !.new = IF r.call = "link" THEN <<r.new>> ELSE <<>>,
                     !.ip = WalkFrom(p, r.path)] \in CallType
    <3>1. /\ r.call \in Calls /\ r.path.elems \in Seq(Names \cup Dots)
          /\ WalkFrom(p, r.path) \in Inodes
      BY RequestType, <1>3
    <3>2. (IF r.call = "link" THEN <<r.new>> ELSE <<>>) \in Seq(Path)
      BY RequestType, <1>7
    <3> QED BY IdleType, <3>1, <3>2 DEF Idle, CallType, Points, Some
  <2> QED BY <1>a, <1>2, <1>5, <2>1 DEF Begin
<1>b. CASE Close(p)
  <2>1. open[p] \in Inodes
    BY <1>b, <1>2, <1>9 DEF Close
  <2>2. act' \in [Procs -> CallType]
    BY <1>b, <1>6, <1>8, <2>1 DEF Close
  <2> QED BY <1>b, <1>2, <2>2 DEF Close, CallsTyped, Some
<1>c. CASE End(p)
  BY <1>c, <1>2, <1>5, IdleType DEF End
<1>d. CASE IputLocked(p)
  <2>1. [a EXCEPT !.half = TRUE] \in CallType
    BY <1>1 DEF CallType
  <2>2. act' = [act EXCEPT ![p] = [a EXCEPT !.half = TRUE]]
    BY <1>d DEF IputLocked
  <2> QED BY <1>d, <1>2, <1>5, <2>1, <2>2 DEF IputLocked
<1>e. CASE IputRef(p)
  <2>1. Tail(a.puts) \in Seq(Inodes)
    BY <1>e, <1>1, HeadAndTail DEF IputRef, Shape
  <2>2. [a EXCEPT !.puts = Tail(@), !.half = FALSE] \in CallType
    BY <1>1, <2>1 DEF CallType
  <2>3. act' = [act EXCEPT ![p] = [a EXCEPT !.puts = Tail(@), !.half = FALSE]]
    BY <1>e DEF IputRef
  <2> QED BY <1>e, <1>2, <1>5, <2>2, <2>3 DEF IputRef
<1>f. CASE WalkFail(p)
  <2>1. a.ip \in Inodes
    BY <1>f, <1>1, <1>9 DEF WalkFail, At, Shape
  <2> QED BY <1>f, <1>5, <1>6, <1>8, <2>1 DEF WalkFail
<1>g. CASE WalkParent(p)
  <2>1. [a EXCEPT !.at = "parent", !.dp = a.ip, !.ip = NoInode] \in CallType
    BY <1>1 DEF CallType, Points, Some
  <2>2. act' = [act EXCEPT ![p] = [a EXCEPT !.at = "parent", !.dp = a.ip, !.ip = NoInode]]
    BY <1>g DEF WalkParent
  <2> QED BY <1>g, <1>2, <1>5, <2>1, <2>2 DEF WalkParent
<1>h. CASE WalkNext(p)
  <2> DEFINE j == Lookup(a.ip, Last(p))
  <2>1. a.ip \in Inodes
    BY <1>h, <1>1, <1>9 DEF WalkNext, At, Shape
  <2>2. j \in Some /\ Tail(a.path) \in Seq(Names \cup Dots)
    BY <1>h, <1>3, <1>4, <2>1 DEF WalkNext
  <2>3. [a EXCEPT !.ip = j, !.path = Tail(@), !.puts = <<a.ip>>] \in CallType
    BY <1>1, <1>6, <2>1, <2>2 DEF CallType
  <2>4. act' = [act EXCEPT ![p] = [a EXCEPT !.ip = j, !.path = Tail(@), !.puts = <<a.ip>>]]
    BY <1>h DEF WalkNext
  <2> QED BY <1>h, <1>2, <1>5, <2>3, <2>4 DEF WalkNext
<1>i. CASE WalkEnd(p)
  <2>1. a.ip \in Inodes
    BY <1>i, <1>1, <1>9 DEF WalkEnd, At, Shape
  <2>2. [a EXCEPT !.at = "found"] \in CallType
    BY <1>1 DEF CallType, Points
  <2>3. Fail(p, <<a.ip>>) \/ act' = [act EXCEPT ![p] = [a EXCEPT !.at = "found"]]
    BY <1>i DEF WalkEnd
  <2>4. act' \in [Procs -> CallType]
    BY <1>2, <1>6, <1>8, <2>1, <2>2, <2>3
  <2> QED BY <1>i, <1>5, <2>4 DEF WalkEnd
<1>j. CASE CreateExists(p)
  <2> DEFINE j == Lookup(a.dp, Last(p))
  <2>1. a.dp \in Inodes /\ a.path # <<>>
    BY <1>j, <1>1, <1>9 DEF CreateExists, Creates, At, Shape
  <2>2. j \in Some
    BY <1>3, <1>4, <2>1
  <2>3. [a EXCEPT !.at = "exists", !.ip = j, !.dp = NoInode, !.path = <<>>,
                  !.puts = <<a.dp>>] \in CallType
    BY <1>1, <1>6, <1>7, <2>1, <2>2 DEF CallType, Points, Some
  <2>4. act' = [act EXCEPT ![p] = [a EXCEPT !.at = "exists", !.ip = j, !.dp = NoInode,
                                            !.path = <<>>, !.puts = <<a.dp>>]]
    BY <1>j DEF CreateExists
  <2> QED BY <1>j, <1>2, <1>5, <2>3, <2>4 DEF CreateExists
<1>k. CASE Exists(p)
  <2>1. a.ip \in Inodes
    BY <1>k, <1>1, <1>9 DEF Exists, At, Shape
  <2>2. [a EXCEPT !.at = "created"] \in CallType
    BY <1>1 DEF CallType, Points
  <2>3. Finish(p, <<a.ip>>) \/ act' = [act EXCEPT ![p] = [a EXCEPT !.at = "created"]]
    BY <1>k DEF Exists
  <2>4. act' \in [Procs -> CallType]
    BY <1>2, <1>6, <1>8, <2>1, <2>2, <2>3
  <2> QED BY <1>k, <1>5, <2>4 DEF Exists
<1>l. CASE CreateNew(p)
  <2>1. PICK i \in Inodes : CreateAs(p, i)
    BY <1>l DEF CreateNew
  <2>2. a.dp \in Inodes
    BY <2>1, <1>1, <1>9 DEF CreateAs, Creates, At, Shape
  <2>3. [a EXCEPT !.at = "created", !.ip = i, !.dp = NoInode, !.path = <<>>,
                  !.puts = <<a.dp>>] \in CallType
    BY <1>1, <1>6, <1>7, <2>2 DEF CallType, Points, Some
  <2>4. act' = [act EXCEPT ![p] = [a EXCEPT !.at = "created", !.ip = i, !.dp = NoInode,
                                            !.path = <<>>, !.puts = <<a.dp>>]]
    BY <2>1 DEF CreateAs
  <2> QED BY <2>1, <1>2, <1>5, <2>3, <2>4 DEF CreateAs
<1>m. ASSUME a.ip \in Inodes, TakeFile(p), cwd' = cwd PROVE CallsTyped'
  <2>1. act' \in [Procs -> CallType]
    BY <1>m, <1>6, <1>7, <1>8 DEF TakeFile
  <2>2. open' \in [Procs -> Some]
    BY <1>m, <1>2 DEF TakeFile, Some
  <2> QED BY <1>m, <1>2, <2>1, <2>2 DEF CallsTyped
<1>n. CASE Created(p)
  <2>1. a.ip \in Inodes
    BY <1>n, <1>1, <1>9 DEF Created, At, Shape
  <2>2. CASE a.call = "creat"
    BY <1>m, <1>n, <2>1, <2>2 DEF Created
  <2>3. CASE a.call # "creat"
    BY <1>n, <1>5, <1>6, <1>8, <2>1, <2>3 DEF Created
  <2> QED BY <2>2, <2>3
<1>o. CASE OpenFound(p)
  <2>1. a.ip \in Inodes
    BY <1>o, <1>1, <1>9 DEF OpenFound, At, Shape
  <2> QED BY <1>m, <1>o, <2>1 DEF OpenFound
<1>p. CASE Chdir(p)
  <2>1. a.ip \in Inodes /\ cwd[p] \in Inodes
    BY <1>p, <1>1, <1>2, <1>9 DEF Chdir, At, Shape
  <2>2. act' \in [Procs -> CallType]
    BY <1>p, <1>6, <1>8, <2>1 DEF Chdir
  <2>3. cwd' \in [Procs -> Inodes]
    BY <1>p, <1>2, <2>1 DEF Chdir
  <2> QED BY <1>p, <1>2, <2>2, <2>3 DEF Chdir, CallsTyped
<1>q. CASE UnlinkLook(p)
  <2> DEFINE j == Lookup(a.dp, Last(p))
  <2>1. a.dp \in Inodes /\ a.path # <<>>
    BY <1>q, <1>1, <1>9 DEF UnlinkLook, At, Shape
  <2>2. j \in Some
    BY <1>3, <1>4, <2>1
  <2>3. [a EXCEPT !.at = "unlink", !.ip = j] \in CallType
    BY <1>1, <2>2 DEF CallType, Points
  <2>4. Finish(p, <<a.dp>>) \/ act' = [act EXCEPT ![p] = [a EXCEPT !.at = "unlink", !.ip = j]]
    BY <1>q DEF UnlinkLook
  <2>5. act' \in [Procs -> CallType]
    BY <1>2, <1>6, <1>8, <2>1, <2>3, <2>4
  <2> QED BY <1>q, <1>5, <2>5 DEF UnlinkLook
<1>r. CASE Unlink(p)
  <2>1. a.dp \in Inodes
    BY <1>r, <1>1, <1>9 DEF Unlink, At, Shape
  <2>2. [a EXCEPT !.at = "unlinked", !.dp = NoInode, !.path = <<>>, !.puts = <<a.dp>>]
           \in CallType
    BY <1>1, <1>6, <1>7, <2>1 DEF CallType, Points, Some
  <2>3. act' = [act EXCEPT ![p] = [a EXCEPT !.at = "unlinked", !.dp = NoInode,
                                            !.path = <<>>, !.puts = <<a.dp>>]]
    BY <1>r DEF Unlink
  <2> QED BY <1>r, <1>2, <1>5, <2>2, <2>3 DEF Unlink
<1>s. CASE UnlinkNotEmpty(p)
  <2>1. a.ip \in Inodes
    BY <1>s, <1>1, <1>9 DEF UnlinkNotEmpty, At, Shape
  <2>2. [a EXCEPT !.at = "refused", !.ip = NoInode, !.path = <<>>, !.puts = <<a.ip>>]
           \in CallType
    BY <1>1, <1>6, <1>7, <2>1 DEF CallType, Points, Some
  <2>3. act' = [act EXCEPT ![p] = [a EXCEPT !.at = "refused", !.ip = NoInode,
                                            !.path = <<>>, !.puts = <<a.ip>>]]
    BY <1>s DEF UnlinkNotEmpty
  <2> QED BY <1>s, <1>2, <1>5, <2>2, <2>3 DEF UnlinkNotEmpty
<1>t. CASE UnlinkDone(p)
  <2>1. a.ip \in Inodes
    BY <1>t, <1>1, <1>9 DEF UnlinkDone, At, Shape
  <2> QED BY <1>t, <1>5, <1>6, <1>8, <2>1 DEF UnlinkDone
<1>u. CASE Link(p)
  <2>1. a.ip \in Inodes /\ a.new[1] \in Path
    <3>1. a.ip \in Inodes /\ a.new # <<>>
      BY <1>u, <1>1, <1>9 DEF Link, At, Shape
    <3>2. a.new[1] = Head(a.new)
      OBVIOUS
    <3> QED BY <1>1, <3>1, <3>2, HeadAndTail
  <2>2. [Idle EXCEPT !.at = "walk", !.call = "linkto", !.src = a.ip,
                     !.path = a.new[1].elems, !.ip = WalkFrom(p, a.new[1])] \in CallType
    <3>1. a.new[1].elems \in Seq(Names \cup Dots) /\ WalkFrom(p, a.new[1]) \in Inodes
      BY <1>3, <2>1
    <3> QED BY <2>1, <3>1, IdleType DEF Idle, CallType, Points, Some
  <2>3. \/ Finish(p, <<a.ip>>)
        \/ act' = [act EXCEPT ![p] =
                     [Idle EXCEPT !.at = "walk", !.call = "linkto", !.src = a.ip,
                         !.path = a.new[1].elems, !.ip = WalkFrom(p, a.new[1])]]
    BY <1>u DEF Link
  <2>4. act' \in [Procs -> CallType]
    BY <1>2, <1>6, <1>8, <2>1, <2>2, <2>3
  <2> QED BY <1>u, <1>5, <2>4 DEF Link
<1>v. CASE LinkTo(p)
  <2>1. a.dp \in Inodes /\ a.src \in Inodes
    BY <1>v, <1>1, <1>9 DEF LinkTo, At, Shape
  <2>2. <<a.dp, a.src>> \in Seq(Inodes)
    BY <2>1
  <2>3. Finish(p, <<a.dp, a.src>>)
    BY <1>v DEF LinkTo
  <2> QED BY <1>v, <1>5, <1>8, <2>2, <2>3 DEF LinkTo
<1>w. CASE LinkTaken(p)
  <2> DEFINE j == Lookup(a.dp, Last(p))
  <2>1. a.dp \in Inodes /\ a.path # <<>>
    BY <1>w, <1>1, <1>9 DEF LinkTaken, At, Shape
  <2>2. j \in Inodes
    BY <1>w, <1>3, <1>4, <1>9, <2>1 DEF LinkTaken
  <2>3. [a EXCEPT !.at = "refused", !.path = <<>>, !.puts = <<j>>] \in CallType
    BY <1>1, <1>6, <1>7, <2>2 DEF CallType, Points
  <2>4. act' = [act EXCEPT ![p] = [a EXCEPT !.at = "refused", !.path = <<>>, !.puts = <<j>>]]
    BY <1>w DEF LinkTaken
  <2> QED BY <1>w, <1>2, <1>5, <2>3, <2>4 DEF LinkTaken
<1>x. CASE LinkBad(p)
  <2>1. a.src \in Inodes
    BY <1>x, <1>1, <1>9 DEF LinkBad, At, Shape
  <2> QED BY <1>x, <1>5, <1>6, <1>8, <2>1 DEF LinkBad
<1>y. CASE Refused(p)
  <2>1. a.dp \in Inodes
    BY <1>y, <1>1, <1>9 DEF Refused, At, Shape
  <2> QED BY <1>y, <1>5, <1>6, <1>8, <2>1 DEF Refused
<1> HIDE DEF vars, fsVars, cacheVars, ofileVars
<1> QED BY <1>a, <1>b, <1>c, <1>d, <1>e, <1>f, <1>g, <1>h, <1>i, <1>j, <1>k, <1>l, <1>n,
           <1>o, <1>p, <1>q, <1>r, <1>s, <1>t, <1>u, <1>v, <1>w, <1>x, <1>y
        DEF Step, Iput, Namex, Create, SysUnlink, SysLink

\* A call points to what Shape says, at each point it comes to.
LEMMA ShapeStep ==
    ASSUME TypeOK, ShapeInv, NEW p \in Procs, Step(p)
    PROVE  ShapeInv'
<1>0. CallsTyped
  BY TypeParts
<1> DEFINE a == act[p]
<1>1. /\ a \in CallType /\ a.puts \in Seq(Inodes) /\ a.path \in Seq(Names \cup Dots)
      /\ Shape(a)
  BY <1>0 DEF CallsTyped, CallType, ShapeInv
<1>2. act \in [Procs -> CallType]
  BY <1>0 DEF CallsTyped
<1>3. SUFFICES Shape(act'[p])
  BY OthersStay, <1>0 DEF ShapeInv
<1>4. /\ \A i : Len(<<i>>) = 1 /\ <<i>> # <<>>
      /\ \A i, j : Len(<<i, j>>) = 2 /\ <<i, j>> # <<>>
      /\ Len(<<>>) = 0
  OBVIOUS
<1>5. \A q \in Path : WalkFrom(p, q) # NoInode
  BY WalkTypes, NamespaceAssumption
<1>6. ASSUME NEW s \in Seq(Inodes), Len(s) <= 2, Finish(p, s) PROVE Shape(act'[p])
  <2>1. act'[p] = [Idle EXCEPT !.at = "end", !.puts = s]
    BY <1>2, <1>6 DEF Finish
  <2> QED BY <1>6, <2>1 DEF Shape, Idle
<1>7. ASSUME NEW s \in Seq(Inodes), Len(s) <= 2, Fail(p, s) PROVE Shape(act'[p])
  <2>1. CASE a.call = "linkto"
    <3>1. act'[p] = [Idle EXCEPT !.at = "bad", !.src = a.src, !.puts = s]
      BY <1>2, <1>7, <2>1 DEF Fail
    <3> QED BY <1>1, <1>7, <2>1, <3>1 DEF Shape, Idle
  <2>2. CASE a.call # "linkto"
    BY <1>6, <1>7, <2>2 DEF Fail
  <2> QED BY <2>1, <2>2
<1>8. \A i \in Some : i # NoInode => <<i>> \in Seq(Inodes) /\ Len(<<i>>) <= 2
  BY DEF Some
<1>9. a.ip \in Some /\ a.dp \in Some /\ a.src \in Some
  BY <1>1 DEF CallType
<1> USE DEF Shape, CallType
<1>A. ASSUME NEW r \in session, Begin(p, r) PROVE Shape(act'[p])
  <2>1. r.call \in Calls /\ r.path \in Path
    BY RequestType
  <2>2. (IF r.call = "link" THEN <<r.new>> ELSE <<>>) = <<>> => r.call # "link"
    OBVIOUS
  <2> QED BY <1>A, <1>1, <1>2, <1>4, <1>5, <2>1, <2>2 DEF Begin, Idle, Calls
<1>a. CASE Close(p)
  BY <1>1, <1>2, <1>4, <1>5, <1>a DEF Close, Finish, Idle
<1>b. CASE End(p)
  BY <1>1, <1>2, <1>4, <1>5, <1>b DEF End, Idle
<1>c. CASE IputLocked(p)
  BY <1>1, <1>2, <1>4, <1>5, <1>c DEF IputLocked
<1>d. CASE IputRef(p)
  <2>1. a.puts # <<>> /\ a.half
    BY <1>d, <1>1 DEF IputRef
  <2>2. Len(Tail(a.puts)) <= 2
    BY <1>1, <2>1, HeadAndTail
  <2>3. act'[p] = [a EXCEPT !.puts = Tail(a.puts), !.half = FALSE]
    BY <1>d, <1>2 DEF IputRef
  <2> QED BY <1>1, <2>1, <2>2, <2>3
<1>e. CASE WalkFail(p)
  BY <1>1, <1>7, <1>8, <1>9, <1>e DEF WalkFail, At
<1>f. CASE WalkParent(p)
  BY <1>1, <1>2, <1>4, <1>5, <1>f DEF WalkParent, At, AtParent, Parent
<1>g. CASE WalkNext(p)
  BY <1>1, <1>2, <1>4, <1>5, <1>g DEF WalkNext, At
<1>h. CASE WalkEnd(p)
  <2>1. CASE Parent(p)
    BY <1>1, <1>7, <1>8, <1>9, <1>h, <2>1 DEF WalkEnd, At
  <2>2. CASE ~Parent(p)
    <3>1. a.at = "walk" /\ a.puts = <<>> /\ a.call # "linkto"
      BY <1>h, <2>2 DEF WalkEnd, At, Parent
    <3>2. act'[p] = [a EXCEPT !.at = "found"]
      BY <1>2, <1>h, <2>2 DEF WalkEnd
    <3> QED BY <1>1, <3>1, <3>2
  <2> QED BY <2>1, <2>2
<1>i. CASE CreateExists(p)
  BY <1>1, <1>2, <1>4, <1>5, <1>i DEF CreateExists, Creates, At
<1>j. CASE Exists(p)
  <2>1. Finish(p, <<a.ip>>) \/ act' = [act EXCEPT ![p].at = "created"]
    BY <1>j DEF Exists
  <2>2. CASE Finish(p, <<a.ip>>)
    BY <1>1, <1>6, <1>8, <1>9, <1>j, <2>2 DEF Exists, At
  <2>3. CASE act' = [act EXCEPT ![p].at = "created"]
    BY <1>1, <1>2, <1>j, <2>3 DEF Exists, At
  <2> QED BY <2>1, <2>2, <2>3
<1>k. CASE CreateNew(p)
  <2>1. PICK i \in Inodes : CreateAs(p, i)
    BY <1>k DEF CreateNew
  <2> QED BY <1>1, <1>2, <1>4, <2>1, NamespaceAssumption DEF CreateAs, Creates, At
<1>l. CASE Created(p)
  <2>1. a.ip # NoInode
    BY <1>1, <1>l DEF Created, At
  <2>2. Finish(p, <<>>) \/ Finish(p, <<a.ip>>)
    BY <1>l DEF Created, TakeFile
  <2>3. <<>> \in Seq(Inodes) /\ Len(<<>>) <= 2
    OBVIOUS
  <2> QED BY <1>6, <1>8, <1>9, <2>1, <2>2, <2>3
<1>m. CASE OpenFound(p)
  <2>1. a.ip # NoInode
    BY <1>1, <1>m DEF OpenFound, At
  <2>2. Finish(p, <<>>) \/ Finish(p, <<a.ip>>)
    BY <1>m DEF OpenFound, TakeFile
  <2>3. <<>> \in Seq(Inodes) /\ Len(<<>>) <= 2
    OBVIOUS
  <2> QED BY <1>6, <1>8, <1>9, <2>1, <2>2, <2>3
<1>n. CASE Chdir(p)
  <2>1. a.ip # NoInode /\ cwd[p] \in Some /\ cwd[p] # NoInode
    BY <1>0, <1>1, <1>n, NamespaceAssumption DEF Chdir, At, CallsTyped, Some
  <2>2. Finish(p, <<cwd[p]>>) \/ Finish(p, <<a.ip>>)
    BY <1>n DEF Chdir
  <2> QED BY <1>6, <1>8, <1>9, <2>1, <2>2
<1>o. CASE UnlinkLook(p)
  <2>1. \/ Finish(p, <<a.dp>>)
        \/ /\ Lookup(a.dp, Last(p)) # NoInode
           /\ act' = [act EXCEPT ![p].at = "unlink", ![p].ip = Lookup(a.dp, Last(p))]
    BY <1>o DEF UnlinkLook
  <2>2. CASE Finish(p, <<a.dp>>)
    BY <1>1, <1>6, <1>8, <1>9, <1>o, <2>2 DEF UnlinkLook, At
  <2>3. CASE ~Finish(p, <<a.dp>>)
    BY <1>1, <1>2, <1>o, <2>1, <2>3 DEF UnlinkLook, At
  <2> QED BY <2>2, <2>3
<1>p. CASE Unlink(p)
  BY <1>1, <1>2, <1>4, <1>5, <1>p DEF Unlink, At
<1>q. CASE UnlinkNotEmpty(p)
  BY <1>1, <1>2, <1>4, <1>5, <1>q DEF UnlinkNotEmpty, At
<1>r. CASE UnlinkDone(p)
  BY <1>1, <1>2, <1>4, <1>5, <1>r DEF UnlinkDone, At, Finish, Idle
<1>s. CASE Link(p)
  <2>1. \/ Finish(p, <<a.ip>>)
        \/ act' = [act EXCEPT ![p] =
                     [Idle EXCEPT !.at = "walk", !.call = "linkto", !.src = a.ip,
                         !.path = a.new[1].elems, !.ip = WalkFrom(p, a.new[1])]]
    BY <1>s DEF Link
  <2>2. a.ip # NoInode
    BY <1>1, <1>s DEF Link, At
  <2>3. CASE Finish(p, <<a.ip>>)
    BY <1>6, <1>8, <1>9, <2>2, <2>3
  <2>4. CASE ~Finish(p, <<a.ip>>)
    <3>1. a.new # <<>> /\ a.new \in Seq(Path)
      BY <1>1, <1>s DEF Link, At
    <3>2. a.new[1] \in Path
      BY <3>1, HeadAndTail
    <3>3. WalkFrom(p, a.new[1]) # NoInode
      BY <1>5, <3>2
    <3>4. act'[p] = [Idle EXCEPT !.at = "walk", !.call = "linkto", !.src = a.ip,
                         !.path = a.new[1].elems, !.ip = WalkFrom(p, a.new[1])]
      BY <1>2, <2>1, <2>4
    <3> QED BY <1>4, <2>2, <3>3, <3>4 DEF Idle
  <2> QED BY <2>3, <2>4
<1>t. CASE LinkTo(p)
  BY <1>1, <1>2, <1>4, <1>5, <1>t DEF LinkTo, At, Finish, Idle
<1>u. CASE LinkTaken(p)
  BY <1>1, <1>2, <1>4, <1>5, <1>u DEF LinkTaken, At
<1>v. CASE LinkBad(p)
  BY <1>1, <1>2, <1>4, <1>5, <1>v DEF LinkBad, At, Finish, Idle
<1>w. CASE Refused(p)
  BY <1>1, <1>7, <1>8, <1>9, <1>w DEF Refused, At
<1> QED BY <1>A, <1>a, <1>b, <1>c, <1>d, <1>e, <1>f, <1>g, <1>h, <1>i, <1>j, <1>k, <1>l, <1>m, <1>n, <1>o, <1>p, <1>q, <1>r, <1>s, <1>t, <1>u, <1>v, <1>w
        DEF Step, Iput, Namex, Create, SysUnlink, SysLink

-----------------------------------------------------------------------------
(***************************************************************************)
(* References.                                                             *)
(***************************************************************************)

\* The pointers of a process with current directory c, open file o and call a.
Weight(c, o, a, i) ==
    Is(c, i) + Is(o, i) + Is(a.ip, i) + Is(a.dp, i) + Is(a.src, i)
        + Is(Nth(a.puts, 1), i) + Is(Nth(a.puts, 2), i)

\* The inodes of a list of at most two.
LEMMA NthOf ==
    /\ Nth(<<>>, 1) = NoInode /\ Nth(<<>>, 2) = NoInode
    /\ \A i : Nth(<<i>>, 1) = i /\ Nth(<<i>>, 2) = NoInode
    /\ \A i, j : Nth(<<i, j>>, 1) = i /\ Nth(<<i, j>>, 2) = j
BY DEF Nth

\* Letting go of the first inode to put.
LEMMA NthTail ==
    ASSUME NEW s \in Seq(Inodes), s # <<>>, Len(s) <= 2
    PROVE  /\ Nth(s, 1) = Head(s) /\ Head(s) \in Inodes
           /\ Nth(Tail(s), 1) = Nth(s, 2) /\ Nth(Tail(s), 2) = NoInode
<1>1. /\ Head(s) \in Inodes /\ Tail(s) \in Seq(Inodes) /\ Len(Tail(s)) = Len(s) - 1
      /\ Len(s) \in 1 .. 2
  <2>1. /\ Head(s) \in Inodes /\ Tail(s) \in Seq(Inodes)
        /\ Len(Tail(s)) = Len(s) - 1
    BY HeadAndTail
  <2>2. Len(s) \in Nat /\ Len(Tail(s)) \in Nat
    BY <2>1
  <2> QED BY <2>1, <2>2
<1>2. Len(s) = 2 => Tail(s)[1] = s[2]
  OBVIOUS
<1> QED BY <1>1, <1>2 DEF Nth

\* Reference counts change with the pointers of the process that moves.
LEMMA RefMoves ==
    ASSUME RefInv, NEW p \in Procs,
           \A q \in Procs \ {p} : act'[q] = act[q] /\ cwd'[q] = cwd[q] /\ open'[q] = open[q],
           ref \in [Inodes -> Nat],
           \A i \in Inodes : /\ ref'[i] \in Int
                             /\ ref'[i] + Weight(cwd[p], open[p], act[p], i)
                                   = ref[i] + Weight(cwd'[p], open'[p], act'[p], i)
    PROVE  RefInv' /\ \A i \in Inodes : ref'[i] \in Nat
<1>1. PICK f : f = [q \in Procs |-> Held(q)]
  OBVIOUS
<1>2. PICK g : g = [q \in Procs |-> Held(q)']
  OBVIOUS
<1>3. \A q \in Procs \ {p} : g[q] = f[q]
  BY <1>1, <1>2 DEF Held
<1>4. ASSUME NEW i \in Inodes
      PROVE  ref'[i] = Cardinality(UsersIn(g, i)) /\ ref'[i] \in Nat
  <2>1. ref[i] = Cardinality(UsersIn(f, i)) /\ ref[i] \in Nat
    BY <1>1 DEF RefInv, Users, UsersIn
  <2>2. /\ IsFiniteSet(UsersIn(g, i))
        /\ Cardinality(UsersIn(g, i)) + PointsTo(f[p], i)
              = Cardinality(UsersIn(f, i)) + PointsTo(g[p], i)
    BY <1>3, UsersChange, SMTT(30)
  <2>3. Cardinality(UsersIn(g, i)) \in Nat
    BY <2>2, FS_CardinalityType
  <2>4. PointsTo(f[p], i) = Weight(cwd[p], open[p], act[p], i)
    BY <1>1 DEF Held, PointsTo, Weight
  <2>5. PointsTo(g[p], i) = Weight(cwd'[p], open'[p], act'[p], i)
    BY <1>2 DEF Held, PointsTo, Weight
  <2>6. PointsTo(f[p], i) \in Nat /\ PointsTo(g[p], i) \in Nat
    BY DEF PointsTo, Is
  <2>7. ref'[i] + PointsTo(f[p], i) = ref[i] + PointsTo(g[p], i) /\ ref'[i] \in Int
    BY <2>4, <2>5
  <2> QED BY <2>1, <2>2, <2>3, <2>6, <2>7
<1>5. \A i : Users(i)' = UsersIn(g, i)
  BY <1>2 DEF Users, UsersIn
<1> QED BY <1>4, <1>5 DEF RefInv

\* What a call in its last stage points to.
LEMMA EndWeight ==
    ASSUME TypeOK, ShapeInv, NEW p \in Procs, NEW s, NEW c, NEW o, NEW i \in Inodes
    PROVE  /\ Finish(p, s) => Weight(c, o, act'[p], i)
                 = Is(c, i) + Is(o, i) + Is(Nth(s, 1), i) + Is(Nth(s, 2), i)
           /\ Fail(p, s) /\ act[p].at # "bad" => Weight(c, o, act'[p], i)
                 = Is(c, i) + Is(o, i) + Is(act[p].src, i)
                      + Is(Nth(s, 1), i) + Is(Nth(s, 2), i)
<1>0. act \in [Procs -> CallType] /\ i # NoInode
  BY NamespaceAssumption DEF TypeOK
<1>1. ASSUME Finish(p, s)
      PROVE  Weight(c, o, act'[p], i)
                 = Is(c, i) + Is(o, i) + Is(Nth(s, 1), i) + Is(Nth(s, 2), i)
  <2>1. act'[p] = [Idle EXCEPT !.at = "end", !.puts = s]
    BY <1>0, <1>1 DEF Finish
  <2>2. /\ act'[p].ip = NoInode /\ act'[p].dp = NoInode /\ act'[p].src = NoInode
        /\ act'[p].puts = s
    BY <2>1 DEF Idle
  <2>3. \A x, i2 : Is(x, i2) \in Int
    BY DEF Is
  <2>4. Is(NoInode, i) = 0
    BY <1>0 DEF Is
  <2> QED BY <2>2, <2>3, <2>4 DEF Weight
<1>2. ASSUME Fail(p, s), act[p].at # "bad"
      PROVE  Weight(c, o, act'[p], i)
                 = Is(c, i) + Is(o, i) + Is(act[p].src, i)
                      + Is(Nth(s, 1), i) + Is(Nth(s, 2), i)
  <2>1. CASE act[p].call = "linkto"
    <3>1. act'[p] = [Idle EXCEPT !.at = "bad", !.src = act[p].src, !.puts = s]
      BY <1>0, <1>2, <2>1 DEF Fail
    <3>2. /\ act'[p].ip = NoInode /\ act'[p].dp = NoInode /\ act'[p].src = act[p].src
          /\ act'[p].puts = s
      BY <3>1 DEF Idle
    <3>3. \A x, i2 : Is(x, i2) \in Int
      BY DEF Is
    <3>4. Is(NoInode, i) = 0
      BY <1>0 DEF Is
    <3> QED BY <3>2, <3>3, <3>4 DEF Weight
  <2>2. CASE act[p].call # "linkto"
    <3>1. Finish(p, s)
      BY <1>2, <2>2 DEF Fail
    <3>2. act[p].src = NoInode
      <4>1. Shape(act[p])
        BY DEF ShapeInv
      <4> QED BY <1>2, <2>2, <4>1 DEF Shape
    <3>3. \A x, i2 : Is(x, i2) \in Int
      BY DEF Is
    <3>4. Is(act[p].src, i) = 0
      BY <1>0, <3>2 DEF Is
    <3> QED BY <1>1, <3>1, <3>3, <3>4
  <2> QED BY <2>1, <2>2
<1> QED BY <1>1, <1>2

\* Every step counts the pointers it makes and drops.
LEMMA RefStep ==
    ASSUME TypeOK, ShapeInv, RefInv, NEW p \in Procs, Step(p)
    PROVE  RefInv' /\ ref' \in [Inodes -> Nat]
<1>0. CallsTyped /\ CacheTyped
  BY TypeParts
<1> DEFINE a == act[p]
<1>1. /\ a \in CallType /\ a.puts \in Seq(Inodes) /\ a.path \in Seq(Names \cup Dots)
      /\ a.ip \in Some /\ a.dp \in Some /\ a.src \in Some /\ a.new \in Seq(Path)
      /\ Shape(a)
  BY <1>0 DEF CallsTyped, CallType, ShapeInv
<1>2. /\ act \in [Procs -> CallType] /\ ref \in [Inodes -> Nat]
      /\ cwd \in [Procs -> Inodes] /\ open \in [Procs -> Some]
  BY <1>0 DEF CallsTyped, CacheTyped
<1>3. ASSUME ref' \in [Inodes -> Int],
             \A i \in Inodes : ref'[i] + Weight(cwd[p], open[p], act[p], i)
                                  = ref[i] + Weight(cwd'[p], open'[p], act'[p], i)
      PROVE  RefInv' /\ ref' \in [Inodes -> Nat]
  BY <1>0, <1>2, <1>3, OthersStay, RefMoves
<1>4. \A i \in Some : i # NoInode => i \in Inodes
  BY DEF Some
<1>5. /\ \A q \in Path : WalkFrom(p, q) \in Inodes
      /\ \A d \in Inodes, n \in Names \cup Dots : Lookup(d, n) \in Some
      /\ a.path # <<>> => Last(p) \in Names \cup Dots
  BY WalkTypes, HeadAndTail, <1>1 DEF Last
<1>6. \A x, i2 : Is(x, i2) \in Int
  BY DEF Is
<1>7. \A i \in Inodes : Is(NoInode, i) = 0
  BY NamespaceAssumption DEF Is
<1>8. ASSUME NEW s, \A i \in Inodes :
                 ref'[i] + Weight(cwd[p], open[p], a, i)
                    = ref[i] + Is(cwd'[p], i) + Is(open'[p], i)
                         + Is(Nth(s, 1), i) + Is(Nth(s, 2), i),
             Finish(p, s), ref' \in [Inodes -> Int]
      PROVE  RefInv' /\ ref' \in [Inodes -> Nat]
  <2> SUFFICES ASSUME NEW i \in Inodes
               PROVE  ref'[i] + Weight(cwd[p], open[p], act[p], i)
                         = ref[i] + Weight(cwd'[p], open'[p], act'[p], i)
    BY <1>3, <1>8
  <2>1. Weight(cwd'[p], open'[p], act'[p], i)
           = Is(cwd'[p], i) + Is(open'[p], i) + Is(Nth(s, 1), i) + Is(Nth(s, 2), i)
    BY <1>8, EndWeight
  <2>2. ref[i] \in Int
    BY <1>2
  <2> QED BY <1>6, <1>8, <2>1, <2>2
<1>9. ASSUME NEW s, \A i \in Inodes :
                 ref'[i] + Weight(cwd[p], open[p], a, i)
                    = ref[i] + Is(cwd'[p], i) + Is(open'[p], i) + Is(a.src, i)
                         + Is(Nth(s, 1), i) + Is(Nth(s, 2), i),
             Fail(p, s), a.at # "bad", ref' \in [Inodes -> Int]
      PROVE  RefInv' /\ ref' \in [Inodes -> Nat]
  <2> SUFFICES ASSUME NEW i \in Inodes
               PROVE  ref'[i] + Weight(cwd[p], open[p], act[p], i)
                         = ref[i] + Weight(cwd'[p], open'[p], act'[p], i)
    BY <1>3, <1>9
  <2>1. Weight(cwd'[p], open'[p], act'[p], i)
           = Is(cwd'[p], i) + Is(open'[p], i) + Is(a.src, i)
                + Is(Nth(s, 1), i) + Is(Nth(s, 2), i)
    BY <1>9, EndWeight
  <2>2. ref[i] \in Int
    BY <1>2
  <2> QED BY <1>6, <1>9, <2>1, <2>2
<1>10. ASSUME a.puts = <<>>, NEW c, NEW o, NEW i \in Inodes
       PROVE  Weight(c, o, a, i)
                 = Is(c, i) + Is(o, i) + Is(a.ip, i) + Is(a.dp, i) + Is(a.src, i)
  BY <1>6, <1>7, <1>10, NthOf DEF Weight
<1>11. ref \in [Inodes -> Int]
  BY <1>2
<1> HIDE DEF a
<1>A. ASSUME NEW r \in session, Begin(p, r) PROVE RefInv' /\ ref' \in [Inodes -> Nat]
  <2> DEFINE w == WalkFrom(p, r.path)
  <2>1. w \in Inodes
    BY RequestType, <1>5
  <2>2. a.at = "user" /\ a.puts = <<>> /\ a.ip = NoInode /\ a.dp = NoInode /\ a.src = NoInode
    BY <1>A, <1>1 DEF Begin, Shape, a
  <2>3. /\ ref' = [ref EXCEPT ![w] = @ + 1] /\ cwd' = cwd /\ open' = open
        /\ act'[p] = [Idle EXCEPT !.at = "walk", !.call = r.call, !.path = r.path.elems,
                         !.new = IF r.call = "link" THEN <<r.new>> ELSE <<>>, !.ip = w]
    BY <1>A, <1>2 DEF Begin, Iget, ofileVars
  <2>4. /\ act'[p].puts = <<>> /\ act'[p].ip = w /\ act'[p].dp = NoInode
        /\ act'[p].src = NoInode
    BY <2>3 DEF Idle
  <2>5. ASSUME NEW i \in Inodes
        PROVE  ref'[i] + Weight(cwd[p], open[p], act[p], i)
                  = ref[i] + Weight(cwd'[p], open'[p], act'[p], i)
    <3>1. ref'[i] = ref[i] + Is(w, i) /\ ref[i] \in Int
      BY <1>2, <2>1, <2>3 DEF Is
    <3>2. Weight(cwd[p], open[p], a, i) = Is(cwd[p], i) + Is(open[p], i)
      BY <1>6, <1>7, <2>2, NthOf DEF Weight
    <3>3. Weight(cwd[p], open[p], act'[p], i) = Is(cwd[p], i) + Is(open[p], i) + Is(w, i)
      BY <1>6, <1>7, <2>4, NthOf DEF Weight
    <3>4. cwd' = cwd /\ open' = open /\ a = act[p]
      BY <2>3 DEF a
    <3> HIDE DEF w
    <3> QED BY <1>6, <3>1, <3>2, <3>3, <3>4
  <2> QED BY <1>2, <1>3, <2>1, <2>3, <2>5
<1>a. CASE Close(p)
  <2>1. /\ a.puts = <<>> /\ a.ip = NoInode /\ a.dp = NoInode /\ a.src = NoInode
        /\ open[p] \in Inodes
    BY <1>a, <1>1, <1>2, <1>4 DEF Close, Shape, a
  <2>2. /\ Finish(p, <<open[p]>>) /\ ref' = ref /\ cwd' = cwd
        /\ open'[p] = NoInode
    BY <1>a, <1>2 DEF Close, cacheVars
  <2>3. \A i \in Inodes : Weight(cwd[p], open[p], a, i) = Is(cwd[p], i) + Is(open[p], i)
    BY <1>6, <1>7, <1>10, <2>1
  <2>4. \A i \in Inodes : ref'[i] + Weight(cwd[p], open[p], a, i)
                    = ref[i] + Is(cwd'[p], i) + Is(open'[p], i)
                         + Is(Nth(<<open[p]>>, 1), i) + Is(Nth(<<open[p]>>, 2), i)
    BY <1>6, <1>7, <1>11, <2>2, <2>3, NthOf
  <2> QED BY <1>8, <1>11, <2>2, <2>4
<1>b. CASE End(p)
  <2>1. a.puts = <<>> /\ a.ip = NoInode /\ a.dp = NoInode /\ a.src = NoInode
    BY <1>b, <1>1 DEF End, At, Shape, a
  <2>2. act'[p] = Idle /\ ref' = ref /\ cwd' = cwd /\ open' = open
    BY <1>b, <1>2 DEF End, cacheVars, ofileVars
  <2>3. \A i \in Inodes : Weight(cwd[p], open[p], a, i) = Is(cwd[p], i) + Is(open[p], i)
    BY <1>6, <1>7, <1>10, <2>1
  <2>4. \A i \in Inodes : Weight(cwd[p], open[p], Idle, i) = Is(cwd[p], i) + Is(open[p], i)
    BY <1>6, <1>7, NthOf DEF Weight, Idle
  <2> QED BY <1>3, <1>11, <2>2, <2>3, <2>4 DEF a
<1>c. CASE IputLocked(p)
  <2>1. /\ act'[p] = [a EXCEPT !.half = TRUE] /\ ref' = ref /\ cwd' = cwd /\ open' = open
    BY <1>c, <1>2 DEF IputLocked, ofileVars, a
  <2>2. /\ act'[p].puts = a.puts /\ act'[p].ip = a.ip /\ act'[p].dp = a.dp
        /\ act'[p].src = a.src
    BY <1>1, <2>1 DEF CallType
  <2>3. \A i \in Inodes : Weight(cwd[p], open[p], act'[p], i) = Weight(cwd[p], open[p], a, i)
    BY <2>2 DEF Weight
  <2> QED BY <1>3, <1>11, <2>1, <2>3 DEF a
<1>d. CASE IputRef(p)
  <2> DEFINE h == Head(a.puts)
  <2>1. a.puts # <<>> /\ Len(a.puts) <= 2
    BY <1>d, <1>1 DEF IputRef, Shape, a
  <2>2. /\ h \in Inodes /\ Nth(a.puts, 1) = h
        /\ Nth(Tail(a.puts), 1) = Nth(a.puts, 2) /\ Nth(Tail(a.puts), 2) = NoInode
    BY <1>1, <2>1, NthTail
  <2>3. /\ act'[p] = [a EXCEPT !.puts = Tail(a.puts), !.half = FALSE]
        /\ ref' = [ref EXCEPT ![h] = @ - 1] /\ cwd' = cwd /\ open' = open
    BY <1>d, <1>2 DEF IputRef, ofileVars, a
  <2>4. /\ act'[p].puts = Tail(a.puts) /\ act'[p].ip = a.ip /\ act'[p].dp = a.dp
        /\ act'[p].src = a.src
    BY <1>1, <2>3 DEF CallType
  <2>5. ref' \in [Inodes -> Int] /\ \A i \in Inodes : ref'[i] = ref[i] - Is(h, i)
    BY <1>11, <2>2, <2>3 DEF Is
  <2> HIDE DEF h
  <2>6. ASSUME NEW i \in Inodes
        PROVE  Weight(cwd[p], open[p], a, i) = Weight(cwd[p], open[p], act'[p], i) + Is(h, i)
    BY <1>6, <1>7, <2>2, <2>4 DEF Weight
  <2>7. ASSUME NEW i \in Inodes
        PROVE  Weight(cwd[p], open[p], act'[p], i) \in Int
    BY <1>6 DEF Weight
  <2>8. ASSUME NEW i \in Inodes
        PROVE  ref'[i] + Weight(cwd[p], open[p], a, i)
                  = ref[i] + Weight(cwd[p], open[p], act'[p], i)
    BY <1>6, <1>11, <2>5, <2>6, <2>7
  <2> QED BY <1>3, <2>3, <2>5, <2>8 DEF a
<1>e. CASE WalkFail(p)
  <2>1. a.puts = <<>> /\ a.dp = NoInode /\ a.at # "bad"
    BY <1>e, <1>1 DEF WalkFail, At, Shape, a
  <2>2. Fail(p, <<a.ip>>) /\ ref' = ref /\ cwd' = cwd /\ open' = open
    BY <1>e DEF WalkFail, cacheVars, ofileVars, a
  <2>3. \A i \in Inodes : Weight(cwd[p], open[p], a, i)
           = Is(cwd[p], i) + Is(open[p], i) + Is(a.ip, i) + Is(a.src, i)
    BY <1>6, <1>7, <1>10, <2>1
  <2>4. \A i \in Inodes : ref'[i] + Weight(cwd[p], open[p], a, i)
                    = ref[i] + Is(cwd'[p], i) + Is(open'[p], i) + Is(a.src, i)
                         + Is(Nth(<<a.ip>>, 1), i) + Is(Nth(<<a.ip>>, 2), i)
    BY <1>6, <1>7, <1>11, <2>2, <2>3, NthOf
  <2> QED BY <1>9, <1>11, <2>1, <2>2, <2>4
<1>f. CASE WalkParent(p)
  <2>1. a.puts = <<>> /\ a.dp = NoInode
    BY <1>f, <1>1 DEF WalkParent, At, Creates, Shape, a
  <2>2. /\ act'[p].ip = NoInode /\ act'[p].dp = a.ip
        /\ act'[p].src = a.src /\ act'[p].puts = <<>>
        /\ ref' = ref /\ cwd' = cwd /\ open' = open
    BY <1>f, <1>1, <1>2, <2>1 DEF WalkParent, At, Creates, Iget, cacheVars, ofileVars, CallType, Idle, a
  <2>5. \A i \in Inodes : Weight(cwd[p], open[p], a, i)
        = Is(cwd[p], i) + Is(open[p], i) + Is(a.ip, i) + Is(a.src, i)
    BY <1>6, <1>7, <1>10, <2>1
  <2>6. \A i \in Inodes : Weight(cwd[p], open[p], act'[p], i)
        = Is(cwd[p], i) + Is(open[p], i) + Is(a.ip, i) + Is(a.src, i)
    BY <1>6, <1>7, <2>2, NthOf DEF Weight
  <2>7. \A i \in Inodes : ref'[i] + Weight(cwd[p], open[p], a, i)
                            = ref[i] + Weight(cwd[p], open[p], act'[p], i)
    BY <1>6, <1>11, <2>2, <2>5, <2>6
  <2> QED BY <1>3, <1>11, <2>2, <2>7 DEF a
<1>g. CASE WalkNext(p)
  <2> DEFINE j == Lookup(a.ip, Last(p))
  <2>1. a.puts = <<>> /\ a.dp = NoInode
    BY <1>g, <1>1 DEF WalkNext, At, Creates, Shape, a
  <2>2. /\ act'[p].ip = j /\ act'[p].dp = NoInode
        /\ act'[p].src = a.src /\ act'[p].puts = <<a.ip>>
        /\ ref' = [ref EXCEPT ![j] = @ + 1] /\ cwd' = cwd /\ open' = open
    BY <1>g, <1>1, <1>2, <2>1 DEF WalkNext, At, Creates, Iget, cacheVars, ofileVars, CallType, Idle, a
  <2>3. j \in Inodes
    BY <1>g, <1>1, <1>4, <1>5 DEF WalkNext, At, Shape, a
  <2>4. ref' \in [Inodes -> Int] /\ \A i \in Inodes : ref'[i] = ref[i] + Is(j, i)
    BY <1>11, <2>2, <2>3 DEF Is
  <2> HIDE DEF j
  <2>5. \A i \in Inodes : Weight(cwd[p], open[p], a, i)
        = Is(cwd[p], i) + Is(open[p], i) + Is(a.ip, i) + Is(a.src, i)
    BY <1>6, <1>7, <1>10, <2>1
  <2>6. \A i \in Inodes : Weight(cwd[p], open[p], act'[p], i)
        = Is(cwd[p], i) + Is(open[p], i) + Is(j, i) + Is(a.src, i) + Is(a.ip, i)
    BY <1>6, <1>7, <2>2, NthOf DEF Weight
  <2>7. \A i \in Inodes : ref'[i] + Weight(cwd[p], open[p], a, i)
                            = ref[i] + Weight(cwd[p], open[p], act'[p], i)
    BY <1>6, <1>11, <2>2, <2>4, <2>5, <2>6
  <2> QED BY <1>3, <1>11, <2>2, <2>4, <2>7 DEF a
<1>h. CASE WalkEnd(p)
  <2>1. CASE Parent(p)
    <3>1. a.puts = <<>> /\ a.dp = NoInode /\ a.at # "bad"
      BY <1>h, <2>1, <1>1 DEF WalkEnd, At, Shape, a
    <3>2. Fail(p, <<a.ip>>) /\ ref' = ref /\ cwd' = cwd /\ open' = open
      BY <1>h, <2>1 DEF WalkEnd, cacheVars, ofileVars, a
    <3>3. \A i \in Inodes : Weight(cwd[p], open[p], a, i)
             = Is(cwd[p], i) + Is(open[p], i) + Is(a.ip, i) + Is(a.src, i)
      BY <1>6, <1>7, <1>10, <3>1
    <3>4. \A i \in Inodes : ref'[i] + Weight(cwd[p], open[p], a, i)
                      = ref[i] + Is(cwd'[p], i) + Is(open'[p], i) + Is(a.src, i)
                           + Is(Nth(<<a.ip>>, 1), i) + Is(Nth(<<a.ip>>, 2), i)
      BY <1>6, <1>7, <1>11, <3>2, <3>3, NthOf
    <3> QED BY <1>9, <1>11, <3>1, <3>2, <3>4
  <2>2. CASE ~Parent(p)
    <3>1. a.puts = <<>> /\ a.dp = NoInode
      BY <1>h, <2>2, <1>1 DEF WalkEnd, At, Creates, Shape, a
    <3>2. /\ act'[p].ip = a.ip /\ act'[p].dp = NoInode
          /\ act'[p].src = a.src /\ act'[p].puts = <<>>
          /\ ref' = ref /\ cwd' = cwd /\ open' = open
      BY <1>h, <2>2, <1>1, <1>2, <3>1 DEF WalkEnd, At, Creates, Iget, cacheVars, ofileVars, CallType, Idle, a
    <3>5. \A i \in Inodes : Weight(cwd[p], open[p], a, i)
          = Is(cwd[p], i) + Is(open[p], i) + Is(a.ip, i) + Is(a.src, i)
      BY <1>6, <1>7, <1>10, <3>1
    <3>6. \A i \in Inodes : Weight(cwd[p], open[p], act'[p], i)
          = Is(cwd[p], i) + Is(open[p], i) + Is(a.ip, i) + Is(a.src, i)
      BY <1>6, <1>7, <3>2, NthOf DEF Weight
    <3>7. \A i \in Inodes : ref'[i] + Weight(cwd[p], open[p], a, i)
                              = ref[i] + Weight(cwd[p], open[p], act'[p], i)
      BY <1>6, <1>11, <3>2, <3>5, <3>6
    <3> QED BY <1>3, <1>11, <3>2, <3>7 DEF a
  <2> QED BY <2>1, <2>2
<1>i. CASE CreateExists(p)
  <2> DEFINE j == Lookup(a.dp, Last(p))
  <2>1. a.puts = <<>> /\ a.ip = NoInode /\ a.src = NoInode
    BY <1>i, <1>1 DEF CreateExists, At, Creates, Shape, a
  <2>2. /\ act'[p].ip = j /\ act'[p].dp = NoInode
        /\ act'[p].src = NoInode /\ act'[p].puts = <<a.dp>>
        /\ ref' = [ref EXCEPT ![j] = @ + 1] /\ cwd' = cwd /\ open' = open
    BY <1>i, <1>1, <1>2, <2>1 DEF CreateExists, At, Creates, Iget, cacheVars, ofileVars, CallType, Idle, a
  <2>3. j \in Inodes
    BY <1>i, <1>1, <1>4, <1>5 DEF CreateExists, Creates, At, Shape, a
  <2>4. ref' \in [Inodes -> Int] /\ \A i \in Inodes : ref'[i] = ref[i] + Is(j, i)
    BY <1>11, <2>2, <2>3 DEF Is
  <2> HIDE DEF j
  <2>5. \A i \in Inodes : Weight(cwd[p], open[p], a, i)
        = Is(cwd[p], i) + Is(open[p], i) + Is(a.dp, i)
    BY <1>6, <1>7, <1>10, <2>1
  <2>6. \A i \in Inodes : Weight(cwd[p], open[p], act'[p], i)
        = Is(cwd[p], i) + Is(open[p], i) + Is(j, i) + Is(a.dp, i)
    BY <1>6, <1>7, <2>2, NthOf DEF Weight
  <2>7. \A i \in Inodes : ref'[i] + Weight(cwd[p], open[p], a, i)
                            = ref[i] + Weight(cwd[p], open[p], act'[p], i)
    BY <1>6, <1>11, <2>2, <2>4, <2>5, <2>6
  <2> QED BY <1>3, <1>11, <2>2, <2>4, <2>7 DEF a
<1>j. CASE Exists(p)
  <2>0. Finish(p, <<a.ip>>) \/ act' = [act EXCEPT ![p].at = "created"]
    BY <1>j DEF Exists, a
  <2>1. CASE Finish(p, <<a.ip>>)
    <3>1. a.puts = <<>> /\ a.dp = NoInode /\ a.src = NoInode
      BY <1>j, <2>1, <1>1 DEF Exists, At, Shape, a
    <3>2. Finish(p, <<a.ip>>) /\ ref' = ref /\ cwd' = cwd /\ open' = open
      BY <1>j, <2>1 DEF Exists, cacheVars, ofileVars, a
    <3>3. \A i \in Inodes : Weight(cwd[p], open[p], a, i)
             = Is(cwd[p], i) + Is(open[p], i) + Is(a.ip, i)
      BY <1>6, <1>7, <1>10, <3>1
    <3>4. \A i \in Inodes : ref'[i] + Weight(cwd[p], open[p], a, i)
                      = ref[i] + Is(cwd'[p], i) + Is(open'[p], i)
                           + Is(Nth(<<a.ip>>, 1), i) + Is(Nth(<<a.ip>>, 2), i)
      BY <1>6, <1>7, <1>11, <3>2, <3>3, NthOf
    <3> QED BY <1>8, <1>11, <3>1, <3>2, <3>4
  <2>2. CASE act' = [act EXCEPT ![p].at = "created"]
    <3>1. a.puts = <<>> /\ a.dp = NoInode /\ a.src = NoInode
      BY <1>j, <2>2, <1>1 DEF Exists, At, Creates, Shape, a
    <3>2. /\ act'[p].ip = a.ip /\ act'[p].dp = NoInode
          /\ act'[p].src = NoInode /\ act'[p].puts = <<>>
          /\ ref' = ref /\ cwd' = cwd /\ open' = open
      BY <1>j, <2>2, <1>1, <1>2, <3>1 DEF Exists, At, Creates, Iget, cacheVars, ofileVars, CallType, Idle, a
    <3>5. \A i \in Inodes : Weight(cwd[p], open[p], a, i)
          = Is(cwd[p], i) + Is(open[p], i) + Is(a.ip, i)
      BY <1>6, <1>7, <1>10, <3>1
    <3>6. \A i \in Inodes : Weight(cwd[p], open[p], act'[p], i)
          = Is(cwd[p], i) + Is(open[p], i) + Is(a.ip, i)
      BY <1>6, <1>7, <3>2, NthOf DEF Weight
    <3>7. \A i \in Inodes : ref'[i] + Weight(cwd[p], open[p], a, i)
                              = ref[i] + Weight(cwd[p], open[p], act'[p], i)
      BY <1>6, <1>11, <3>2, <3>5, <3>6
    <3> QED BY <1>3, <1>11, <3>2, <3>7 DEF a
  <2> QED BY <2>0, <2>1, <2>2
<1>k. CASE CreateNew(p)
  <2>0. PICK i0 \in Inodes : CreateAs(p, i0)
    BY <1>k DEF CreateNew
  <2>1. a.puts = <<>> /\ a.ip = NoInode /\ a.src = NoInode
    BY <2>0, <1>1 DEF CreateAs, At, Creates, Shape, a
  <2>2. /\ act'[p].ip = i0 /\ act'[p].dp = NoInode
        /\ act'[p].src = NoInode /\ act'[p].puts = <<a.dp>>
        /\ ref' = [ref EXCEPT ![i0] = @ + 1] /\ cwd' = cwd /\ open' = open
    BY <2>0, <1>1, <1>2, <2>1 DEF CreateAs, At, Creates, Iget, cacheVars, ofileVars, CallType, Idle, a
  <2>3. i0 \in Inodes
    BY <2>0
  <2>4. ref' \in [Inodes -> Int] /\ \A i \in Inodes : ref'[i] = ref[i] + Is(i0, i)
    BY <1>11, <2>2, <2>3 DEF Is
  <2>5. \A i \in Inodes : Weight(cwd[p], open[p], a, i)
        = Is(cwd[p], i) + Is(open[p], i) + Is(a.dp, i)
    BY <1>6, <1>7, <1>10, <2>1
  <2>6. \A i \in Inodes : Weight(cwd[p], open[p], act'[p], i)
        = Is(cwd[p], i) + Is(open[p], i) + Is(i0, i) + Is(a.dp, i)
    BY <1>6, <1>7, <2>2, NthOf DEF Weight
  <2>7. \A i \in Inodes : ref'[i] + Weight(cwd[p], open[p], a, i)
                            = ref[i] + Weight(cwd[p], open[p], act'[p], i)
    BY <1>6, <1>11, <2>2, <2>4, <2>5, <2>6
  <2> QED BY <1>3, <1>11, <2>2, <2>4, <2>7 DEF a
<1>12. ASSUME TakeFile(p), a.puts = <<>>, a.ip \in Inodes, a.dp = NoInode, a.src = NoInode,
              ref' = ref, cwd' = cwd
       PROVE  RefInv' /\ ref' \in [Inodes -> Nat]
  <2>1. \A i \in Inodes : Weight(cwd[p], open[p], a, i)
           = Is(cwd[p], i) + Is(open[p], i) + Is(a.ip, i)
    BY <1>6, <1>7, <1>10, <1>12
  <2>2. CASE open[p] = NoInode /\ open' = [open EXCEPT ![p] = a.ip] /\ Finish(p, <<>>)
    <3>1. open'[p] = a.ip
      BY <1>2, <2>2
    <3>2. \A i \in Inodes : ref'[i] + Weight(cwd[p], open[p], a, i)
                    = ref[i] + Is(cwd'[p], i) + Is(open'[p], i)
                         + Is(Nth(<<>>, 1), i) + Is(Nth(<<>>, 2), i)
      BY <1>6, <1>7, <1>11, <1>12, <2>1, <2>2, <3>1, NthOf
    <3> QED BY <1>8, <1>11, <1>12, <2>2, <3>2
  <2>3. CASE Finish(p, <<a.ip>>) /\ open' = open
    <3>1. \A i \in Inodes : ref'[i] + Weight(cwd[p], open[p], a, i)
                    = ref[i] + Is(cwd'[p], i) + Is(open'[p], i)
                         + Is(Nth(<<a.ip>>, 1), i) + Is(Nth(<<a.ip>>, 2), i)
      BY <1>6, <1>7, <1>11, <1>12, <2>1, <2>3, NthOf
    <3> QED BY <1>8, <1>11, <1>12, <2>3, <3>1
  <2> QED BY <1>12, <2>2, <2>3 DEF TakeFile, a
<1>l. CASE Created(p)
  <2>1. a.puts = <<>> /\ a.ip \in Inodes /\ a.dp = NoInode /\ a.src = NoInode
    BY <1>l, <1>1, <1>4 DEF Created, At, Shape, a
  <2>2. CASE a.call = "creat"
    BY <1>l, <1>12, <2>1, <2>2 DEF Created, a
  <2>3. CASE a.call # "creat"
    <3>1. a.puts = <<>> /\ a.dp = NoInode /\ a.src = NoInode
      BY <1>l, <2>3, <1>1 DEF Created, At, Shape, a
    <3>2. Finish(p, <<a.ip>>) /\ ref' = ref /\ cwd' = cwd /\ open' = open
      BY <1>l, <2>3 DEF Created, cacheVars, ofileVars, a
    <3>3. \A i \in Inodes : Weight(cwd[p], open[p], a, i)
             = Is(cwd[p], i) + Is(open[p], i) + Is(a.ip, i)
      BY <1>6, <1>7, <1>10, <3>1
    <3>4. \A i \in Inodes : ref'[i] + Weight(cwd[p], open[p], a, i)
                      = ref[i] + Is(cwd'[p], i) + Is(open'[p], i)
                           + Is(Nth(<<a.ip>>, 1), i) + Is(Nth(<<a.ip>>, 2), i)
      BY <1>6, <1>7, <1>11, <3>2, <3>3, NthOf
    <3> QED BY <1>8, <1>11, <3>1, <3>2, <3>4
  <2> QED BY <2>2, <2>3
<1>m. CASE OpenFound(p)
  <2>1. a.puts = <<>> /\ a.ip \in Inodes /\ a.dp = NoInode /\ a.src = NoInode
    BY <1>m, <1>1, <1>4 DEF OpenFound, At, Shape, a
  <2> QED BY <1>m, <1>12, <2>1 DEF OpenFound
<1>n. CASE Chdir(p)
  <2>1. a.puts = <<>> /\ a.ip \in Inodes /\ a.dp = NoInode /\ a.src = NoInode
    BY <1>n, <1>1, <1>4 DEF Chdir, At, Shape, a
  <2>2. \A i \in Inodes : Weight(cwd[p], open[p], a, i)
           = Is(cwd[p], i) + Is(open[p], i) + Is(a.ip, i)
    BY <1>6, <1>7, <1>10, <2>1
  <2>3. ref' = ref /\ open' = open
    BY <1>n DEF Chdir
  <2>4. CASE Finish(p, <<cwd[p]>>) /\ cwd' = [cwd EXCEPT ![p] = a.ip]
    <3>1. cwd'[p] = a.ip
      BY <1>2, <2>4
    <3>2. \A i \in Inodes : ref'[i] + Weight(cwd[p], open[p], a, i)
                    = ref[i] + Is(cwd'[p], i) + Is(open'[p], i)
                         + Is(Nth(<<cwd[p]>>, 1), i) + Is(Nth(<<cwd[p]>>, 2), i)
      BY <1>6, <1>7, <1>11, <2>2, <2>3, <3>1, NthOf
    <3> QED BY <1>8, <1>11, <2>3, <2>4, <3>2
  <2>5. CASE Finish(p, <<a.ip>>) /\ cwd' = cwd
    <3>1. \A i \in Inodes : ref'[i] + Weight(cwd[p], open[p], a, i)
                    = ref[i] + Is(cwd'[p], i) + Is(open'[p], i)
                         + Is(Nth(<<a.ip>>, 1), i) + Is(Nth(<<a.ip>>, 2), i)
      BY <1>6, <1>7, <1>11, <2>2, <2>3, <2>5, NthOf
    <3> QED BY <1>8, <1>11, <2>3, <2>5, <3>1
  <2> QED BY <1>n, <2>4, <2>5 DEF Chdir, a
<1>o. CASE UnlinkLook(p)
  <2> DEFINE j == Lookup(a.dp, Last(p))
  <2>1. CASE Last(p) \in Dots \/ j = NoInode
    <3>1. a.puts = <<>> /\ a.ip = NoInode /\ a.src = NoInode
      BY <1>o, <2>1, <1>1 DEF UnlinkLook, At, Shape, a
    <3>2. Finish(p, <<a.dp>>) /\ ref' = ref /\ cwd' = cwd /\ open' = open
      BY <1>o, <2>1 DEF UnlinkLook, cacheVars, ofileVars, a
    <3>3. \A i \in Inodes : Weight(cwd[p], open[p], a, i)
             = Is(cwd[p], i) + Is(open[p], i) + Is(a.dp, i)
      BY <1>6, <1>7, <1>10, <3>1
    <3>4. \A i \in Inodes : ref'[i] + Weight(cwd[p], open[p], a, i)
                      = ref[i] + Is(cwd'[p], i) + Is(open'[p], i)
                           + Is(Nth(<<a.dp>>, 1), i) + Is(Nth(<<a.dp>>, 2), i)
      BY <1>6, <1>7, <1>11, <3>2, <3>3, NthOf
    <3> QED BY <1>8, <1>11, <3>1, <3>2, <3>4
  <2>2. CASE ~(Last(p) \in Dots \/ j = NoInode)
    <3>1. a.puts = <<>> /\ a.ip = NoInode /\ a.src = NoInode
      BY <1>o, <2>2, <1>1 DEF UnlinkLook, At, Creates, Shape, a
    <3>2. /\ act'[p].ip = j /\ act'[p].dp = a.dp
          /\ act'[p].src = NoInode /\ act'[p].puts = <<>>
          /\ ref' = [ref EXCEPT ![j] = @ + 1] /\ cwd' = cwd /\ open' = open
      BY <1>o, <2>2, <1>1, <1>2, <3>1 DEF UnlinkLook, At, Creates, Iget, cacheVars, ofileVars, CallType, Idle, a
    <3>3. j \in Inodes
      BY <1>o, <2>2, <1>1, <1>4, <1>5 DEF UnlinkLook, At, Shape, a
    <3>4. ref' \in [Inodes -> Int] /\ \A i \in Inodes : ref'[i] = ref[i] + Is(j, i)
      BY <1>11, <3>2, <3>3 DEF Is
    <3>5. \A i \in Inodes : Weight(cwd[p], open[p], a, i)
          = Is(cwd[p], i) + Is(open[p], i) + Is(a.dp, i)
      BY <1>6, <1>7, <1>10, <3>1
    <3>6. \A i \in Inodes : Weight(cwd[p], open[p], act'[p], i)
          = Is(cwd[p], i) + Is(open[p], i) + Is(j, i) + Is(a.dp, i)
      BY <1>6, <1>7, <3>2, NthOf DEF Weight
    <3>7. \A i \in Inodes : ref'[i] + Weight(cwd[p], open[p], a, i)
                              = ref[i] + Weight(cwd[p], open[p], act'[p], i)
      <4> SUFFICES ASSUME NEW i \in Inodes
                   PROVE  ref'[i] + Weight(cwd[p], open[p], a, i)
                             = ref[i] + Weight(cwd[p], open[p], act'[p], i)
        OBVIOUS
      <4>1. /\ Is(cwd[p], i) \in Int /\ Is(open[p], i) \in Int /\ Is(a.dp, i) \in Int
            /\ Is(j, i) \in Int /\ ref[i] \in Int /\ ref'[i] = ref[i] + Is(j, i)
        BY <1>6, <1>11, <3>4
      <4> QED BY <3>5, <3>6, <4>1
    <3> QED BY <1>3, <1>11, <3>2, <3>4, <3>7 DEF a
  <2> QED BY <2>1, <2>2
<1>p. CASE Unlink(p)
  <2>1. a.puts = <<>> /\ a.src = NoInode
    BY <1>p, <1>1 DEF Unlink, At, Creates, Shape, a
  <2>2. /\ act'[p].ip = a.ip /\ act'[p].dp = NoInode
        /\ act'[p].src = NoInode /\ act'[p].puts = <<a.dp>>
        /\ ref' = ref /\ cwd' = cwd /\ open' = open
    BY <1>p, <1>1, <1>2, <2>1 DEF Unlink, At, Creates, Iget, cacheVars, ofileVars, CallType, Idle, a
  <2>5. \A i \in Inodes : Weight(cwd[p], open[p], a, i)
        = Is(cwd[p], i) + Is(open[p], i) + Is(a.ip, i) + Is(a.dp, i)
    BY <1>6, <1>7, <1>10, <2>1
  <2>6. \A i \in Inodes : Weight(cwd[p], open[p], act'[p], i)
        = Is(cwd[p], i) + Is(open[p], i) + Is(a.ip, i) + Is(a.dp, i)
    BY <1>6, <1>7, <2>2, NthOf DEF Weight
  <2>7. \A i \in Inodes : ref'[i] + Weight(cwd[p], open[p], a, i)
                            = ref[i] + Weight(cwd[p], open[p], act'[p], i)
    BY <1>6, <1>11, <2>2, <2>5, <2>6
  <2> QED BY <1>3, <1>11, <2>2, <2>7 DEF a
<1>q. CASE UnlinkNotEmpty(p)
  <2>1. a.puts = <<>> /\ a.src = NoInode
    BY <1>q, <1>1 DEF UnlinkNotEmpty, At, Creates, Shape, a
  <2>2. /\ act'[p].ip = NoInode /\ act'[p].dp = a.dp
        /\ act'[p].src = NoInode /\ act'[p].puts = <<a.ip>>
        /\ ref' = ref /\ cwd' = cwd /\ open' = open
    BY <1>q, <1>1, <1>2, <2>1 DEF UnlinkNotEmpty, At, Creates, Iget, cacheVars, ofileVars, CallType, Idle, a
  <2>5. \A i \in Inodes : Weight(cwd[p], open[p], a, i)
        = Is(cwd[p], i) + Is(open[p], i) + Is(a.ip, i) + Is(a.dp, i)
    BY <1>6, <1>7, <1>10, <2>1
  <2>6. \A i \in Inodes : Weight(cwd[p], open[p], act'[p], i)
        = Is(cwd[p], i) + Is(open[p], i) + Is(a.dp, i) + Is(a.ip, i)
    BY <1>6, <1>7, <2>2, NthOf DEF Weight
  <2>7. \A i \in Inodes : ref'[i] + Weight(cwd[p], open[p], a, i)
                            = ref[i] + Weight(cwd[p], open[p], act'[p], i)
    BY <1>6, <1>11, <2>2, <2>5, <2>6
  <2> QED BY <1>3, <1>11, <2>2, <2>7 DEF a
<1>r. CASE UnlinkDone(p)
  <2>1. a.puts = <<>> /\ a.dp = NoInode /\ a.src = NoInode
    BY <1>r, <1>1 DEF UnlinkDone, At, Shape, a
  <2>2. Finish(p, <<a.ip>>) /\ ref' = ref /\ cwd' = cwd /\ open' = open
    BY <1>r DEF UnlinkDone, cacheVars, ofileVars, a
  <2>3. \A i \in Inodes : Weight(cwd[p], open[p], a, i)
           = Is(cwd[p], i) + Is(open[p], i) + Is(a.ip, i)
    BY <1>6, <1>7, <1>10, <2>1
  <2>4. \A i \in Inodes : ref'[i] + Weight(cwd[p], open[p], a, i)
                    = ref[i] + Is(cwd'[p], i) + Is(open'[p], i)
                         + Is(Nth(<<a.ip>>, 1), i) + Is(Nth(<<a.ip>>, 2), i)
    BY <1>6, <1>7, <1>11, <2>2, <2>3, NthOf
  <2> QED BY <1>8, <1>11, <2>1, <2>2, <2>4
<1>s. CASE Link(p)
  <2> DEFINE w == WalkFrom(p, a.new[1])
  <2>1. CASE type[a.ip] = "dir"
    <3>1. a.puts = <<>> /\ a.dp = NoInode /\ a.src = NoInode
      BY <1>s, <2>1, <1>1 DEF Link, At, Shape, a
    <3>2. Finish(p, <<a.ip>>) /\ ref' = ref /\ cwd' = cwd /\ open' = open
      BY <1>s, <2>1 DEF Link, cacheVars, ofileVars, a
    <3>3. \A i \in Inodes : Weight(cwd[p], open[p], a, i)
             = Is(cwd[p], i) + Is(open[p], i) + Is(a.ip, i)
      BY <1>6, <1>7, <1>10, <3>1
    <3>4. \A i \in Inodes : ref'[i] + Weight(cwd[p], open[p], a, i)
                      = ref[i] + Is(cwd'[p], i) + Is(open'[p], i)
                           + Is(Nth(<<a.ip>>, 1), i) + Is(Nth(<<a.ip>>, 2), i)
      BY <1>6, <1>7, <1>11, <3>2, <3>3, NthOf
    <3> QED BY <1>8, <1>11, <3>1, <3>2, <3>4
  <2>2. CASE type[a.ip] # "dir"
    <3>1. a.puts = <<>> /\ a.dp = NoInode /\ a.src = NoInode
      BY <1>s, <2>2, <1>1 DEF Link, At, Creates, Shape, a
    <3>0. /\ act' = [act EXCEPT ![p] =
                      [Idle EXCEPT !.at = "walk", !.call = "linkto", !.src = a.ip,
                          !.path = a.new[1].elems, !.ip = w]]
          /\ ref' = [ref EXCEPT ![w] = @ + 1] /\ cwd' = cwd /\ open' = open
      BY <1>s, <2>2 DEF Link, Iget, ofileVars, a
    <3>2. /\ act'[p].ip = w /\ act'[p].dp = NoInode
          /\ act'[p].src = a.ip /\ act'[p].puts = <<>>
          /\ ref' = [ref EXCEPT ![w] = @ + 1] /\ cwd' = cwd /\ open' = open
      BY <1>2, <3>0 DEF Idle
    <3>3. w \in Inodes
      BY <1>s, <1>1, <1>5, HeadAndTail DEF Link, At, Shape, a
    <3>4. ref' \in [Inodes -> Int] /\ \A i \in Inodes : ref'[i] = ref[i] + Is(w, i)
      BY <1>11, <3>2, <3>3 DEF Is
    <3>5. \A i \in Inodes : Weight(cwd[p], open[p], a, i)
          = Is(cwd[p], i) + Is(open[p], i) + Is(a.ip, i)
      BY <1>6, <1>7, <1>10, <3>1
    <3>6. \A i \in Inodes : Weight(cwd[p], open[p], act'[p], i)
          = Is(cwd[p], i) + Is(open[p], i) + Is(w, i) + Is(a.ip, i)
      BY <1>6, <1>7, <3>2, NthOf DEF Weight
    <3>7. \A i \in Inodes : ref'[i] + Weight(cwd[p], open[p], a, i)
                              = ref[i] + Weight(cwd[p], open[p], act'[p], i)
      <4> SUFFICES ASSUME NEW i \in Inodes
                   PROVE  ref'[i] + Weight(cwd[p], open[p], a, i)
                             = ref[i] + Weight(cwd[p], open[p], act'[p], i)
        OBVIOUS
      <4>1. /\ Is(cwd[p], i) \in Int /\ Is(open[p], i) \in Int /\ Is(a.ip, i) \in Int
            /\ Is(w, i) \in Int /\ ref[i] \in Int /\ ref'[i] = ref[i] + Is(w, i)
        BY <1>6, <1>11, <3>4
      <4> QED BY <3>5, <3>6, <4>1
    <3> QED BY <1>3, <1>11, <3>2, <3>4, <3>7 DEF a
  <2> QED BY <2>1, <2>2
<1>t. CASE LinkTo(p)
  <2>1. a.puts = <<>> /\ a.ip = NoInode
    BY <1>t, <1>1 DEF LinkTo, At, Shape, a
  <2>2. Finish(p, <<a.dp, a.src>>) /\ ref' = ref /\ cwd' = cwd /\ open' = open
    BY <1>t DEF LinkTo, cacheVars, ofileVars, a
  <2>3. \A i \in Inodes : Weight(cwd[p], open[p], a, i)
           = Is(cwd[p], i) + Is(open[p], i) + Is(a.dp, i) + Is(a.src, i)
    BY <1>6, <1>7, <1>10, <2>1
  <2>4. \A i \in Inodes : ref'[i] + Weight(cwd[p], open[p], a, i)
                    = ref[i] + Is(cwd'[p], i) + Is(open'[p], i)
                         + Is(Nth(<<a.dp, a.src>>, 1), i) + Is(Nth(<<a.dp, a.src>>, 2), i)
    <3> SUFFICES ASSUME NEW i \in Inodes
                 PROVE  ref'[i] + Weight(cwd[p], open[p], a, i)
                           = ref[i] + Is(cwd'[p], i) + Is(open'[p], i)
                                + Is(Nth(<<a.dp, a.src>>, 1), i) + Is(Nth(<<a.dp, a.src>>, 2), i)
      OBVIOUS
    <3>1. Nth(<<a.dp, a.src>>, 1) = a.dp /\ Nth(<<a.dp, a.src>>, 2) = a.src
      BY NthOf
    <3>2. /\ ref'[i] = ref[i] /\ ref[i] \in Int
          /\ Is(cwd'[p], i) = Is(cwd[p], i) /\ Is(open'[p], i) = Is(open[p], i)
      BY <1>11, <2>2
    <3>3. /\ Is(cwd[p], i) \in Int /\ Is(open[p], i) \in Int
          /\ Is(a.dp, i) \in Int /\ Is(a.src, i) \in Int
      BY <1>6
    <3> QED BY <2>3, <3>1, <3>2, <3>3
  <2> QED BY <1>8, <1>11, <2>1, <2>2, <2>4
<1>u. CASE LinkTaken(p)
  <2> DEFINE j == Lookup(a.dp, Last(p))
  <2>1. a.puts = <<>> /\ a.ip = NoInode
    BY <1>u, <1>1 DEF LinkTaken, At, Creates, Shape, a
  <2>2. /\ act'[p].ip = NoInode /\ act'[p].dp = a.dp
        /\ act'[p].src = a.src /\ act'[p].puts = <<j>>
        /\ ref' = [ref EXCEPT ![j] = @ + 1] /\ cwd' = cwd /\ open' = open
    BY <1>u, <1>1, <1>2, <2>1 DEF LinkTaken, At, Creates, Iget, cacheVars, ofileVars, CallType, Idle, a
  <2>3. j \in Inodes
    BY <1>u, <1>1, <1>4, <1>5 DEF LinkTaken, At, Shape, a
  <2>4. ref' \in [Inodes -> Int] /\ \A i \in Inodes : ref'[i] = ref[i] + Is(j, i)
    BY <1>11, <2>2, <2>3 DEF Is
  <2> HIDE DEF j
  <2>5. \A i \in Inodes : Weight(cwd[p], open[p], a, i)
        = Is(cwd[p], i) + Is(open[p], i) + Is(a.dp, i) + Is(a.src, i)
    BY <1>6, <1>7, <1>10, <2>1
  <2>6. \A i \in Inodes : Weight(cwd[p], open[p], act'[p], i)
        = Is(cwd[p], i) + Is(open[p], i) + Is(a.dp, i) + Is(a.src, i) + Is(j, i)
    BY <1>6, <1>7, <2>2, NthOf DEF Weight
  <2>7. \A i \in Inodes : ref'[i] + Weight(cwd[p], open[p], a, i)
                            = ref[i] + Weight(cwd[p], open[p], act'[p], i)
    BY <1>6, <1>11, <2>2, <2>4, <2>5, <2>6
  <2> QED BY <1>3, <1>11, <2>2, <2>4, <2>7 DEF a
<1>v. CASE LinkBad(p)
  <2>1. a.puts = <<>> /\ a.ip = NoInode /\ a.dp = NoInode
    BY <1>v, <1>1 DEF LinkBad, At, Shape, a
  <2>2. Finish(p, <<a.src>>) /\ ref' = ref /\ cwd' = cwd /\ open' = open
    BY <1>v DEF LinkBad, cacheVars, ofileVars, a
  <2>3. \A i \in Inodes : Weight(cwd[p], open[p], a, i)
           = Is(cwd[p], i) + Is(open[p], i) + Is(a.src, i)
    BY <1>6, <1>7, <1>10, <2>1
  <2>4. \A i \in Inodes : ref'[i] + Weight(cwd[p], open[p], a, i)
                    = ref[i] + Is(cwd'[p], i) + Is(open'[p], i)
                         + Is(Nth(<<a.src>>, 1), i) + Is(Nth(<<a.src>>, 2), i)
    BY <1>6, <1>7, <1>11, <2>2, <2>3, NthOf
  <2> QED BY <1>8, <1>11, <2>1, <2>2, <2>4
<1>w. CASE Refused(p)
  <2>1. a.puts = <<>> /\ a.ip = NoInode /\ a.at # "bad"
    BY <1>w, <1>1 DEF Refused, At, Shape, a
  <2>2. Fail(p, <<a.dp>>) /\ ref' = ref /\ cwd' = cwd /\ open' = open
    BY <1>w DEF Refused, cacheVars, ofileVars, a
  <2>3. \A i \in Inodes : Weight(cwd[p], open[p], a, i)
           = Is(cwd[p], i) + Is(open[p], i) + Is(a.dp, i) + Is(a.src, i)
    BY <1>6, <1>7, <1>10, <2>1
  <2>4. \A i \in Inodes : ref'[i] + Weight(cwd[p], open[p], a, i)
                    = ref[i] + Is(cwd'[p], i) + Is(open'[p], i) + Is(a.src, i)
                         + Is(Nth(<<a.dp>>, 1), i) + Is(Nth(<<a.dp>>, 2), i)
    BY <1>6, <1>7, <1>11, <2>2, <2>3, NthOf
  <2> QED BY <1>9, <1>11, <2>1, <2>2, <2>4
<1> QED BY <1>A, <1>a, <1>b, <1>c, <1>d, <1>e, <1>f, <1>g, <1>h, <1>i, <1>j, <1>k, <1>l, <1>m, <1>n, <1>o, <1>p, <1>q, <1>r, <1>s, <1>t, <1>u, <1>v, <1>w
        DEF Step, Iput, Namex, Create, SysUnlink, SysLink

-----------------------------------------------------------------------------
(***************************************************************************)
(* Locks of inodes.                                                        *)
(***************************************************************************)
Holds(a, i) ==
    \/ a.at \in {"created", "unlinked"} /\ a.ip = i
    \/ a.at \in {"unlink", "refused"} /\ a.dp = i

\* What a call that is over, or has failed, has left.
LEMMA FinishIs ==
    ASSUME act \in [Procs -> CallType], NEW p \in Procs, NEW l, Finish(p, l)
    PROVE  act'[p].at = "end" /\ act'[p].ip = NoInode /\ act'[p].src = NoInode
<1>1. act'[p] = [Idle EXCEPT !.at = "end", !.puts = l]
  BY DEF Finish
<1> QED BY <1>1 DEF Idle

LEMMA FailIs ==
    ASSUME act \in [Procs -> CallType], NEW p \in Procs, NEW l, Fail(p, l)
    PROVE  /\ act'[p].ip = NoInode
           /\ \/ act[p].call = "linkto" /\ act'[p].at = "bad" /\ act'[p].src = act[p].src
              \/ act[p].call # "linkto" /\ act'[p].at = "end" /\ act'[p].src = NoInode
<1>1. CASE act[p].call = "linkto"
  <2>1. act'[p] = [Idle EXCEPT !.at = "bad", !.src = act[p].src, !.puts = l]
    BY <1>1 DEF Fail
  <2> QED BY <1>1, <2>1 DEF Idle
<1>2. CASE act[p].call # "linkto"
  <2>1. Finish(p, l)
    BY <1>2 DEF Fail
  <2> QED BY <1>2, <2>1, FinishIs
<1> QED BY <1>1, <1>2

\* A step takes and lets go the locks LockInv says.
LEMMA LockStep ==
    ASSUME TypeOK, ShapeInv, LockInv, NEW p \in Procs, Step(p)
    PROVE  LockInv' /\ lock' \in [Inodes -> Procs \cup {NoProc}]
<1>0. CallsTyped /\ CacheTyped
  BY TypeParts
<1> DEFINE a == act[p]
           Good == /\ lock' \in [Inodes -> Procs \cup {NoProc}]
                   /\ \A i \in Inodes :
                         /\ lock'[i] = p <=> Holds(act'[p], i)
                         /\ \A q \in Procs \ {p} : lock'[i] = q <=> lock[i] = q
<1>1. /\ a \in CallType /\ a.ip \in Some /\ a.dp \in Some /\ Shape(a)
      /\ \A i \in Inodes : lock[i] = p <=> Holds(a, i)
  BY <1>0 DEF CallsTyped, CallType, ShapeInv, LockInv, Holds
<1>2. /\ act \in [Procs -> CallType] /\ lock \in [Inodes -> Procs \cup {NoProc}]
      /\ NoProc \notin Procs /\ NoInode \notin Inodes
  BY <1>0, NamespaceAssumption DEF CallsTyped, CacheTyped
<1>3. SUFFICES Good
  <2> SUFFICES ASSUME Good PROVE LockInv'
    OBVIOUS
  <2> SUFFICES ASSUME NEW i \in Inodes, NEW q \in Procs
               PROVE  lock'[i] = q <=> Holds(act'[q], i)
    BY DEF LockInv, Holds
  <2>1. CASE q = p
    BY <2>1
  <2>2. CASE q # p
    <3>1. act'[q] = act[q] /\ (lock'[i] = q <=> lock[i] = q)
      BY <1>0, <2>2, OthersStay
    <3>2. lock[i] = q <=> Holds(act[q], i)
      BY DEF LockInv, Holds
    <3> QED BY <3>1, <3>2
  <2> QED BY <2>1, <2>2
<1>4. \A i \in Some : i # NoInode => i \in Inodes
  BY DEF Some
<1>5. ASSUME NEW s, Finish(p, s) \/ Fail(p, s) PROVE act'[p].at \in {"end", "bad"}
  BY <1>2, <1>5, FinishIs, FailIs
<1>6. ASSUME act'[p].at \notin {"created", "unlinked", "unlink", "refused"},
             a.at \notin {"created", "unlinked", "unlink", "refused"}, lock' = lock
      PROVE  Good
  BY <1>1, <1>2, <1>6 DEF Holds
<1> HIDE DEF a
<1>A. ASSUME NEW r \in session, Begin(p, r) PROVE Good
  <2>1. act'[p].at = "walk" /\ a.at = "user" /\ lock' = lock
    BY <1>A, <1>2 DEF Begin, Idle, a
  <2> QED BY <1>6, <2>1
<1>a. CASE Close(p)
  <2>1. act'[p].at \in {"end", "bad"} /\ a.at = "user" /\ lock' = lock
    BY <1>a, <1>2, <1>5 DEF Close, cacheVars, a
  <2> QED BY <1>6, <2>1
<1>b. CASE End(p)
  <2>1. act'[p].at = "user" /\ a.at = "end" /\ lock' = lock
    BY <1>b, <1>2, <1>5 DEF End, At, Idle, cacheVars, a
  <2> QED BY <1>6, <2>1
<1>c. CASE IputLocked(p)
  <2>1. act'[p].at = a.at /\ act'[p].ip = a.ip /\ act'[p].dp = a.dp /\ lock' = lock
    BY <1>c, <1>1, <1>2 DEF IputLocked, CallType, a
  <2> QED BY <1>1, <1>2, <2>1 DEF Holds
<1>d. CASE IputRef(p)
  <2>1. act'[p].at = a.at /\ act'[p].ip = a.ip /\ act'[p].dp = a.dp /\ lock' = lock
    BY <1>d, <1>1, <1>2 DEF IputRef, CallType, a
  <2> QED BY <1>1, <1>2, <2>1 DEF Holds
<1>e. CASE WalkFail(p)
  <2>1. act'[p].at \in {"end", "bad"} /\ a.at = "walk" /\ lock' = lock
    BY <1>e, <1>2, <1>5 DEF WalkFail, At, a
  <2> QED BY <1>6, <2>1
<1>f. CASE WalkParent(p)
  <2>1. act'[p].at = "parent" /\ a.at = "walk" /\ lock' = lock
    BY <1>f, <1>2, <1>5 DEF WalkParent, At, CallType, a
  <2> QED BY <1>6, <2>1
<1>g. CASE WalkNext(p)
  <2>1. act'[p].at = "walk" /\ a.at = "walk" /\ lock' = lock
    BY <1>g, <1>2, <1>5 DEF WalkNext, At, CallType, a
  <2> QED BY <1>6, <2>1
<1>h. CASE WalkEnd(p)
  <2>1. act'[p].at \in {"end", "bad", "found"} /\ a.at = "walk" /\ lock' = lock
    BY <1>h, <1>2, <1>5 DEF WalkEnd, At, CallType, cacheVars, a
  <2> QED BY <1>6, <2>1
<1>i. CASE CreateExists(p)
  <2>1. act'[p].at = "exists" /\ a.at = "parent" /\ lock' = lock
    BY <1>i, <1>2, <1>5 DEF CreateExists, Creates, At, CallType, a
  <2> QED BY <1>6, <2>1
<1>j. CASE Exists(p)
  <2>1. a.at = "exists" /\ a.ip \in Inodes /\ lock[a.ip] = NoProc
    BY <1>j, <1>1, <1>4 DEF Exists, At, Ilock, Shape, a
  <2>2. CASE Finish(p, <<a.ip>>) /\ lock' = lock
    BY <1>5, <1>6, <2>1, <2>2
  <2>3. CASE lock' = [lock EXCEPT ![a.ip] = p] /\ act' = [act EXCEPT ![p].at = "created"]
    <3>1. act'[p].at = "created" /\ act'[p].ip = a.ip
      BY <1>1, <1>2, <2>3 DEF CallType, a
    <3> QED BY <1>1, <1>2, <2>1, <2>3, <3>1 DEF Holds
  <2> QED BY <1>j, <2>2, <2>3 DEF Exists, a
<1>k. CASE CreateNew(p)
  <2>1. PICK i \in Inodes : CreateAs(p, i)
    BY <1>k DEF CreateNew
  <2>2. /\ a.at = "parent" /\ lock[i] = NoProc /\ lock' = [lock EXCEPT ![i] = p]
        /\ act'[p].at = "created" /\ act'[p].ip = i
    BY <1>1, <1>2, <2>1 DEF CreateAs, Creates, At, CallType, a
  <2> QED BY <1>1, <1>2, <2>2 DEF Holds
<1>l. CASE Created(p)
  <2>1. /\ a.at = "created" /\ a.ip \in Inodes /\ lock' = [lock EXCEPT ![a.ip] = NoProc]
        /\ act'[p].at \in {"end", "bad"}
    BY <1>l, <1>1, <1>4, <1>5 DEF Created, TakeFile, At, Shape, a
  <2> QED BY <1>1, <1>2, <2>1 DEF Holds
<1>m. CASE OpenFound(p)
  <2>1. act'[p].at \in {"end", "bad"} /\ a.at = "found" /\ lock' = lock
    BY <1>m, <1>2, <1>5 DEF OpenFound, TakeFile, At, a
  <2> QED BY <1>6, <2>1
<1>n. CASE Chdir(p)
  <2>1. act'[p].at \in {"end", "bad"} /\ a.at = "found" /\ lock' = lock
    BY <1>n, <1>2, <1>5 DEF Chdir, At, a
  <2> QED BY <1>6, <2>1
<1>o. CASE UnlinkLook(p)
  <2>1. a.at = "parent" /\ a.dp \in Inodes /\ lock[a.dp] = NoProc
    BY <1>o, <1>1, <1>4 DEF UnlinkLook, At, Ilock, Shape, a
  <2>2. CASE Finish(p, <<a.dp>>) /\ lock' = lock
    BY <1>5, <1>6, <2>1, <2>2
  <2>3. CASE /\ lock' = [lock EXCEPT ![a.dp] = p]
             /\ act' = [act EXCEPT ![p].at = "unlink", ![p].ip = Lookup(a.dp, Last(p))]
    <3>1. act'[p].at = "unlink" /\ act'[p].dp = a.dp
      BY <1>1, <1>2, <2>3 DEF CallType, a
    <3> QED BY <1>1, <1>2, <2>1, <2>3, <3>1 DEF Holds
  <2> QED BY <1>o, <2>2, <2>3 DEF UnlinkLook, a
<1>p. CASE Unlink(p)
  <2>1. /\ a.at = "unlink" /\ a.ip \in Inodes /\ a.dp \in Inodes /\ lock[a.ip] = NoProc
        /\ lock[a.dp] = p
    BY <1>p, <1>1, <1>4 DEF Unlink, At, Ilock, Shape, Holds, a
  <2>2. /\ lock' = [lock EXCEPT ![a.ip] = p, ![a.dp] = NoProc]
        /\ act'[p].at = "unlinked" /\ act'[p].ip = a.ip
    BY <1>p, <1>1, <1>2 DEF Unlink, CallType, a
  <2> QED BY <1>1, <1>2, <2>1, <2>2 DEF Holds
<1>q. CASE UnlinkNotEmpty(p)
  <2>1. /\ a.at = "unlink" /\ act'[p].at = "refused" /\ act'[p].dp = a.dp /\ lock' = lock
    BY <1>q, <1>1, <1>2 DEF UnlinkNotEmpty, At, CallType, a
  <2> QED BY <1>1, <1>2, <2>1 DEF Holds
<1>r. CASE UnlinkDone(p)
  <2>1. /\ a.at = "unlinked" /\ a.ip \in Inodes /\ lock' = [lock EXCEPT ![a.ip] = NoProc]
        /\ act'[p].at \in {"end", "bad"}
    BY <1>r, <1>1, <1>4, <1>5 DEF UnlinkDone, At, Shape, a
  <2> QED BY <1>1, <1>2, <2>1 DEF Holds
<1>s. CASE Link(p)
  <2>1. a.at = "found" /\ lock' = lock
    BY <1>s DEF Link, At, a
  <2>2. \/ Finish(p, <<a.ip>>)
        \/ act' = [act EXCEPT ![p] = [Idle EXCEPT
                       !.at = "walk", !.call = "linkto", !.src = a.ip,
                       !.path = a.new[1].elems, !.ip = WalkFrom(p, a.new[1])]]
    BY <1>s DEF Link, a
  <2>3. CASE Finish(p, <<a.ip>>)
    <3>1. act'[p].at \in {"end", "bad"}
      BY <1>5, <2>3
    <3> QED BY <1>6, <2>1, <3>1
  <2>4. CASE act' = [act EXCEPT ![p] = [Idle EXCEPT
                       !.at = "walk", !.call = "linkto", !.src = a.ip,
                       !.path = a.new[1].elems, !.ip = WalkFrom(p, a.new[1])]]
    <3>1. act'[p] = [Idle EXCEPT !.at = "walk", !.call = "linkto", !.src = a.ip,
                                 !.path = a.new[1].elems, !.ip = WalkFrom(p, a.new[1])]
      BY <1>2, <2>4
    <3>2. act'[p].at = "walk"
      BY <3>1 DEF Idle
    <3> QED BY <1>6, <2>1, <3>2
  <2> QED BY <2>2, <2>3, <2>4
<1>t. CASE LinkTo(p)
  <2>1. act'[p].at \in {"end", "bad"} /\ a.at = "parent" /\ lock' = lock
    BY <1>t, <1>2, <1>5 DEF LinkTo, At, cacheVars, a
  <2> QED BY <1>6, <2>1
<1>u. CASE LinkTaken(p)
  <2>1. /\ a.at = "parent" /\ a.dp \in Inodes /\ lock[a.dp] = NoProc
        /\ lock' = [lock EXCEPT ![a.dp] = p]
    BY <1>u, <1>1, <1>4 DEF LinkTaken, At, Ilock, Shape, a
  <2>2. act'[p].at = "refused" /\ act'[p].dp = a.dp
    BY <1>u, <1>1, <1>2 DEF LinkTaken, CallType, a
  <2> QED BY <1>1, <1>2, <2>1, <2>2 DEF Holds
<1>v. CASE LinkBad(p)
  <2>1. act'[p].at \in {"end", "bad"} /\ a.at = "bad" /\ lock' = lock
    BY <1>v, <1>2, <1>5 DEF LinkBad, At, cacheVars, a
  <2> QED BY <1>6, <2>1
<1>w. CASE Refused(p)
  <2>1. /\ a.at = "refused" /\ a.dp \in Inodes /\ lock' = [lock EXCEPT ![a.dp] = NoProc]
        /\ act'[p].at \in {"end", "bad"}
    BY <1>w, <1>1, <1>4, <1>5 DEF Refused, At, Shape, a
  <2> QED BY <1>1, <1>2, <2>1 DEF Holds
<1> HIDE DEF Good
<1> QED BY <1>A, <1>a, <1>b, <1>c, <1>d, <1>e, <1>f, <1>g, <1>h, <1>i, <1>j, <1>k, <1>l, <1>m, <1>n, <1>o, <1>p, <1>q, <1>r, <1>s, <1>t, <1>u, <1>v, <1>w
        DEF Step, Iput, Namex, Create, SysUnlink, SysLink

-----------------------------------------------------------------------------
(***************************************************************************)
(* Links under way.                                                        *)
(***************************************************************************)
OnWay(a, i) == (a.at = "unlinked" /\ a.ip = i) \/ a.src = i

\* A step that puts no link on its way and finishes none.
LEMMA PendingSame ==
    ASSUME CallsTyped, NEW p \in Procs,
           \A q \in Procs \ {p} : act'[q] = act[q],
           \A i \in Inodes : OnWay(act'[p], i) <=> OnWay(act[p], i)
    PROVE  Pending' = Pending
<1>1. ASSUME NEW i \in Inodes PROVE InFlight(i)' = InFlight(i)
  <2>1. \A q \in Procs : OnWay(act'[q], i) <=> OnWay(act[q], i)
    OBVIOUS
  <2> QED BY <2>1 DEF InFlight, OnWay
<1> QED BY <1>1 DEF Pending

\* A step that puts a link to s on its way.
LEMMA PendingMore ==
    ASSUME CallsTyped, NEW p \in Procs, NEW s \in Inodes,
           \A q \in Procs \ {p} : act'[q] = act[q],
           ~OnWay(act[p], s),
           \A i \in Inodes : OnWay(act'[p], i) <=> OnWay(act[p], i) \/ i = s
    PROVE  /\ Cardinality(Pending'[s]) = Cardinality(Pending[s]) + 1
           /\ \A i \in Inodes \ {s} : Pending'[i] = Pending[i]
<1>1. ASSUME NEW i \in Inodes, NEW q \in Procs
      PROVE  /\ q \in InFlight(i)' <=> OnWay(act'[q], i)
             /\ q \in InFlight(i) <=> OnWay(act[q], i)
  BY DEF InFlight, OnWay
<1>2. \A i \in Inodes : InFlight(i)' \subseteq Procs /\ InFlight(i) \subseteq Procs
  BY DEF InFlight
<1>3. \A i \in Inodes : Pending'[i] = InFlight(i)' /\ Pending[i] = InFlight(i)
  BY DEF Pending
<1>4. ASSUME NEW i \in Inodes \ {s} PROVE InFlight(i)' = InFlight(i)
  <2>1. \A q : q \in InFlight(i)' <=> q \in InFlight(i)
    BY <1>1, <1>2
  <2> QED BY <2>1
<1>5. InFlight(s)' = InFlight(s) \cup {p} /\ p \notin InFlight(s)
  <2>1. p \notin InFlight(s) /\ p \in InFlight(s)'
    BY <1>1
  <2>2. \A q \in Procs \ {p} : q \in InFlight(s)' <=> q \in InFlight(s)
    BY <1>1
  <2> QED BY <1>2, <2>1, <2>2
<1>6. IsFiniteSet(InFlight(s))
  BY <1>2, NamespaceAssumption, FS_Subset
<1> QED BY <1>3, <1>4, <1>5, <1>6, OneMore

\* A step that finishes or takes back a link to s.
LEMMA PendingLess ==
    ASSUME CallsTyped, NEW p \in Procs, NEW s \in Inodes,
           \A q \in Procs \ {p} : act'[q] = act[q],
           OnWay(act[p], s),
           \A i \in Inodes : OnWay(act'[p], i) <=> OnWay(act[p], i) /\ i # s
    PROVE  /\ Cardinality(Pending'[s]) = Cardinality(Pending[s]) - 1
           /\ \A i \in Inodes \ {s} : Pending'[i] = Pending[i]
<1>1. ASSUME NEW i \in Inodes, NEW q \in Procs
      PROVE  /\ q \in InFlight(i)' <=> OnWay(act'[q], i)
             /\ q \in InFlight(i) <=> OnWay(act[q], i)
  BY DEF InFlight, OnWay
<1>2. \A i \in Inodes : InFlight(i)' \subseteq Procs /\ InFlight(i) \subseteq Procs
  BY DEF InFlight
<1>3. \A i \in Inodes : Pending'[i] = InFlight(i)' /\ Pending[i] = InFlight(i)
  BY DEF Pending
<1>4. ASSUME NEW i \in Inodes \ {s} PROVE InFlight(i)' = InFlight(i)
  <2>1. \A q : q \in InFlight(i)' <=> q \in InFlight(i)
    BY <1>1, <1>2
  <2> QED BY <2>1
<1>5. InFlight(s)' = InFlight(s) \ {p} /\ p \in InFlight(s)
  <2>1. p \in InFlight(s) /\ p \notin InFlight(s)'
    BY <1>1
  <2>2. \A q \in Procs \ {p} : q \in InFlight(s)' <=> q \in InFlight(s)
    BY <1>1
  <2> QED BY <1>2, <2>1, <2>2
<1>6. IsFiniteSet(InFlight(s))
  BY <1>2, NamespaceAssumption, FS_Subset
<1> QED BY <1>3, <1>4, <1>5, <1>6, OneLess

\* Nobody has a link under way to an inode without a type, nor to a directory
\* nobody has locked.
LEMMA NoneOnWay ==
    ASSUME UsedStays, LockInv, NEW i \in Inodes, NoProc \notin Procs,
           type[i] = "free" \/ (type[i] = "dir" /\ lock[i] = NoProc)
    PROVE  Pending[i] = {}
<1>1. ASSUME NEW q \in InFlight(i) PROVE FALSE
  <2>1. q \in Procs /\ OnWay(act[q], i)
    BY DEF InFlight, OnWay
  <2>2. CASE act[q].at = "unlinked" /\ act[q].ip = i
    BY <2>1, <2>2 DEF UsedStays, LockInv
  <2>3. CASE act[q].src = i
    <3>1. act[q].src # NoInode
      BY <2>3, NamespaceAssumption
    <3> QED BY <2>1, <2>3, <3>1 DEF UsedStays
  <2> QED BY <2>1, <2>2, <2>3 DEF OnWay
<1> QED BY <1>1 DEF Pending

\* An entry that nameiparent()'s caller does not find can be made.
LEMMA NoEntry ==
    ASSUME NamesIInv, NEW p \in Procs, act[p].at = "parent", Ilock(act[p].dp),
           Lookup(act[p].dp, Last(p)) = NoInode
    PROVE  /\ act[p].dp \in Inodes /\ Last(p) \in Names /\ type[act[p].dp] = "dir"
           /\ ents[act[p].dp][Last(p)] = NoInode /\ lock[act[p].dp] = NoProc
           /\ Pending[act[p].dp] = {}
<1>1. /\ UsedStays /\ LockInv /\ LinkInv /\ CallsTyped /\ Shape(act[p])
      /\ NoProc \notin Procs /\ NoInode \notin Inodes
  BY TypeParts, NamespaceAssumption DEF NamesIInv, ShapeInv
<1>2. /\ act[p].dp \in Some /\ act[p].path \in Seq(Names \cup Dots)
  BY <1>1 DEF CallsTyped, CallType
<1>3. act[p].dp \in Inodes /\ act[p].path # <<>> /\ lock[act[p].dp] = NoProc
  BY <1>1, <1>2 DEF Shape, Ilock, Some
<1>4. type[act[p].dp] = "dir"
  BY <1>1 DEF UsedStays
<1>5. up[act[p].dp] \in Inodes
  BY <1>1, <1>3, <1>4 DEF LinkInv, RightLinks, Sound, Volume
<1>6. Last(p) \in Names \cup Dots
  BY <1>2, <1>3, HeadAndTail DEF Last
<1>7. Last(p) \notin Dots /\ ents[act[p].dp][Last(p)] = NoInode
  BY <1>1, <1>3, <1>5 DEF Lookup, Dots
<1>8. Pending[act[p].dp] = {}
  BY <1>1, <1>3, <1>4, NoneOnWay
<1> QED BY <1>3, <1>4, <1>6, <1>7, <1>8

\* iput() frees an inode only if nobody else has anything to do with it.
LEMMA FreedUnused ==
    ASSUME TypeOK, ShapeInv, RefInv, NEW p \in Procs, act[p].puts # <<>>,
           LastUser(Head(act[p].puts)), NEW q \in Procs, NEW r \in Roles,
           Held(q)[r] = Head(act[p].puts)
    PROVE  q = p /\ r = "put1"
<1> DEFINE i == Head(act[p].puts)
<1>1. act[p].puts \in Seq(Inodes) /\ Len(act[p].puts) <= 2
  BY DEF TypeOK, CallType, ShapeInv, Shape
<1>2. i \in Inodes /\ Nth(act[p].puts, 1) = i
  BY <1>1, NthTail
<1>3. Held(p)["put1"] = i
  BY <1>2 DEF Held
<1>4. PICK f : f = [y \in Procs |-> Held(y)]
  OBVIOUS
<1>5. Users(i) = UsersIn(f, i)
  BY <1>4 DEF Users, UsersIn
<1>6. Cardinality(UsersIn(f, i)) = 1
  BY <1>2, <1>5 DEF RefInv, LastUser
<1>7. <<p, "put1">> \in UsersIn(f, i) /\ <<q, r>> \in UsersIn(f, i)
  BY <1>3, <1>4 DEF UsersIn, Roles
<1>8. <<q, r>> = <<p, "put1">>
  BY <1>6, <1>7, OnlyUser
<1> QED BY <1>8

-----------------------------------------------------------------------------
(***************************************************************************)
(* Link counts.                                                            *)
(***************************************************************************)
\* Whatever a step does to the volume, the link counts stay right.
LEMMA VolumeStep ==
    ASSUME NamesIInv, NEW p \in Procs, Step(p)
    PROVE  LinkInv' /\ FilesTyped'
<1>0. /\ TypeOK /\ ShapeInv /\ UsedStays /\ EntryStays /\ LockInv /\ LinkInv /\ RefInv
      /\ CallsTyped /\ FilesTyped
  BY TypeParts DEF NamesIInv
<1> DEFINE a == act[p]
           Good == LinkInv' /\ FilesTyped'
<1>1. /\ a \in CallType /\ a.ip \in Some /\ a.dp \in Some /\ a.src \in Some /\ Shape(a)
      /\ a.path \in Seq(Names \cup Dots)
  BY <1>0 DEF CallsTyped, CallType, ShapeInv
<1>2. act \in [Procs -> CallType] /\ NoProc \notin Procs /\ NoInode \notin Inodes
  BY <1>0, NamespaceAssumption DEF CallsTyped
<1>3. \A q \in Procs \ {p} : act'[q] = act[q]
  BY <1>0, OthersStay
<1>4. \A i \in Some : i # NoInode => i \in Inodes
  BY DEF Some
<1>5. ASSUME fsVars' = fsVars, \A i \in Inodes : OnWay(act'[p], i) <=> OnWay(act[p], i)
      PROVE  Good
  <2>1. Pending' = Pending
    BY <1>0, <1>3, <1>5, PendingSame
  <2>2. Volume' = Volume
    BY <1>5 DEF Volume, fsVars
  <2> QED BY <1>0, <1>5, <2>1, <2>2 DEF LinkInv, FilesTyped, fsVars
<1>6. ASSUME NEW s, Finish(p, s), NEW i \in Inodes PROVE ~OnWay(act'[p], i)
  <2>1. act'[p].at = "end" /\ act'[p].src = NoInode
    BY <1>2, <1>6, FinishIs
  <2> QED BY <1>2, <2>1 DEF OnWay
<1>7. ASSUME NEW s, Fail(p, s), a.at # "bad", NEW i \in Inodes
      PROVE  OnWay(act'[p], i) <=> a.src = i
  <2>1. \/ a.call = "linkto" /\ act'[p].at = "bad" /\ act'[p].src = a.src
        \/ a.call # "linkto" /\ act'[p].at = "end" /\ act'[p].src = NoInode
    BY <1>2, <1>7, FailIs
  <2>2. a.call # "linkto" => a.src = NoInode
    BY <1>1, <1>7 DEF Shape
  <2> HIDE DEF a
  <2> QED BY <1>2, <2>1, <2>2 DEF OnWay
<1>8. /\ a.at # "unlinked" /\ a.src = NoInode => \A i \in Inodes : ~OnWay(a, i)
      /\ a.at # "unlinked" => \A i \in Inodes : OnWay(a, i) <=> a.src = i
  BY <1>2 DEF OnWay
<1>9. PICK v, m, w, m2 : v = Volume /\ m = Pending /\ w = Volume' /\ m2 = Pending'
  OBVIOUS
<1>10. m \in Flights /\ m2 \in Flights /\ RightLinks(v, m) /\ FieldsTyped(v)
  BY <1>0, <1>9, PendingIsFlights, FilesTypedIsFields DEF LinkInv, Pending, Flights, InFlight
<1>11. RightLinks(w, m2) => LinkInv'
  BY <1>9 DEF LinkInv
<1>12. /\ v.type = type /\ v.nlink = nlink /\ v.ents = ents /\ v.up = up /\ v.stray = stray
       /\ w.type = type' /\ w.nlink = nlink' /\ w.ents = ents' /\ w.up = up'
       /\ w.stray = stray'
  BY <1>9 DEF Volume
<1>13. /\ type \in [Inodes -> Types] /\ nlink \in [Inodes -> Nat]
       /\ ents \in [Inodes -> [Names -> Some]] /\ up \in [Inodes -> Some]
       /\ stray \in BOOLEAN
  BY <1>0 DEF FilesTyped
<1>14. a.at = "parent" /\ Ilock(a.dp) /\ Lookup(a.dp, Last(p)) = NoInode =>
          /\ a.dp \in Inodes /\ Last(p) \in Names /\ type[a.dp] = "dir"
          /\ ents[a.dp][Last(p)] = NoInode /\ lock[a.dp] = NoProc /\ m[a.dp] = {}
  BY <1>9, NoEntry
<1> HIDE DEF a
<1>A. CASE \E r \in session : Begin(p, r)
  <2>1. /\ a.at = "user" /\ a.src = NoInode /\ act'[p].at = "walk" /\ act'[p].src = NoInode
        /\ fsVars' = fsVars
    BY <1>A, <1>1, <1>2 DEF Begin, Idle, Shape, a
  <2> QED BY <1>2, <1>5, <2>1 DEF OnWay, a
<1>a. CASE Close(p)
  <2>1. a.at = "user" /\ a.src = NoInode /\ (\E s : Finish(p, s)) /\ fsVars' = fsVars
    BY <1>a, <1>1 DEF Close, At, Shape, a
  <2> QED BY <1>5, <1>6, <1>8, <2>1 DEF a
<1>b. CASE End(p)
  <2>1. /\ a.at = "end" /\ a.src = NoInode /\ act'[p].at = "user" /\ act'[p].src = NoInode
        /\ fsVars' = fsVars
    BY <1>b, <1>1, <1>2 DEF End, At, Shape, Idle, a
  <2> QED BY <1>2, <1>5, <2>1 DEF OnWay, a
<1>c. CASE IputLocked(p)
  <2> DEFINE i == Head(a.puts)
  <2>1. /\ act'[p].at = a.at /\ act'[p].ip = a.ip /\ act'[p].src = a.src
    BY <1>c, <1>1, <1>2 DEF IputLocked, CallType, a
  <2>2. \A x \in Inodes : OnWay(act'[p], x) <=> OnWay(act[p], x)
    BY <2>1 DEF OnWay, a
  <2>3. m2 = m
    BY <1>0, <1>3, <1>9, <2>2, PendingSame
  <2>4. CASE ~LastUser(i)
    <3>1. fsVars' = fsVars
      BY <1>c, <2>4 DEF IputLocked, fsVars, a
    <3> QED BY <1>5, <2>2, <3>1
  <2>5. CASE LastUser(i)
    <3>1. i \in Inodes
      <4>1. a.puts \in Seq(Inodes) /\ a.puts # <<>>
        BY <1>c, <1>1 DEF IputLocked, CallType, a
      <4> QED BY <4>1, HeadAndTail
    <3>2. /\ type' = [type EXCEPT ![i] = "free"] /\ ents' = [ents EXCEPT ![i] = NoEnts]
          /\ up' = [up EXCEPT ![i] = NoInode] /\ nlink' = nlink /\ stray' = stray
      BY <1>c, <2>5 DEF IputLocked, a
    <3>3. nlink[i] = 0
      BY <2>5 DEF LastUser
    <3> HIDE DEF i
    <3>4. NoEnts \in [Names -> Some]
      BY DEF NoEnts, Some
    <3>5. FilesTyped'
      BY <1>13, <3>1, <3>2, <3>4 DEF FilesTyped, Types, Some
    <3>6. CASE type[i] = "free"
      <4>1. up[i] = NoInode /\ ents[i] = NoEnts
        BY <1>10, <1>12, <3>1, <3>6 DEF RightLinks, Sound
      <4>2. fsVars' = fsVars
        BY <1>13, <3>1, <3>2, <3>6, <4>1 DEF fsVars
      <4> QED BY <1>5, <2>2, <4>2
    <3>7. CASE type[i] # "free"
      <4>1. /\ w.nlink = v.nlink /\ w.stray = v.stray /\ w.type[i] = "free"
            /\ w.ents[i] = NoEnts /\ w.up[i] = NoInode
            /\ \A x \in Inodes \ {i} : /\ w.type[x] = v.type[x] /\ w.ents[x] = v.ents[x]
                                       /\ w.up[x] = v.up[x]
            /\ v.type[i] # "free" /\ v.nlink[i] = 0
        BY <1>12, <1>13, <3>1, <3>2, <3>3, <3>7
      <4>2. RightLinks(w, m)
        BY <1>10, <3>1, <4>1, FreeKeeps
      <4> QED BY <1>11, <2>3, <3>5, <4>2
    <3> QED BY <3>6, <3>7
  <2> QED BY <2>4, <2>5
<1>d. CASE IputRef(p)
  <2>1. /\ act'[p].at = a.at /\ act'[p].ip = a.ip /\ act'[p].src = a.src /\ fsVars' = fsVars
    BY <1>d, <1>1, <1>2 DEF IputRef, CallType, a
  <2> QED BY <1>5, <2>1 DEF OnWay, a
<1>e. CASE WalkFail(p)
  <2>1. a.at = "walk" /\ (\E s : Fail(p, s)) /\ fsVars' = fsVars
    BY <1>e, <1>1 DEF WalkFail, At, Shape, a
  <2> QED BY <1>5, <1>7, <1>8, <2>1 DEF a
<1>f. CASE WalkParent(p)
  <2>1. /\ a.at = "walk" /\ act'[p].at = "parent" /\ act'[p].src = a.src /\ fsVars' = fsVars
    BY <1>f, <1>1, <1>2 DEF WalkParent, At, CallType, a
  <2> QED BY <1>5, <2>1 DEF OnWay, a
<1>g. CASE WalkNext(p)
  <2>1. /\ a.at = "walk" /\ act'[p].at = "walk" /\ act'[p].src = a.src /\ fsVars' = fsVars
    BY <1>g, <1>1, <1>2 DEF WalkNext, At, CallType, a
  <2> QED BY <1>5, <2>1 DEF OnWay, a
<1>h. CASE WalkEnd(p)
  <2>1. a.at = "walk" /\ fsVars' = fsVars
    BY <1>h DEF WalkEnd, At, a
  <2>2. CASE Fail(p, <<a.ip>>)
    BY <1>5, <1>7, <1>8, <2>1, <2>2 DEF a
  <2>3. CASE act' = [act EXCEPT ![p].at = "found"]
    <3>1. act'[p].at = "found" /\ act'[p].src = a.src
      BY <1>1, <1>2, <2>3 DEF CallType, a
    <3> QED BY <1>5, <2>1, <3>1 DEF OnWay, a
  <2> QED BY <1>h, <2>2, <2>3 DEF WalkEnd, a
<1>i. CASE CreateExists(p)
  <2>1. /\ a.at = "parent" /\ act'[p].at = "exists" /\ act'[p].src = a.src /\ fsVars' = fsVars
    BY <1>i, <1>1, <1>2 DEF CreateExists, At, CallType, Creates, a
  <2> QED BY <1>5, <2>1 DEF OnWay, a
<1>j. CASE Exists(p)
  <2>1. a.at = "exists" /\ a.src = NoInode /\ fsVars' = fsVars
    BY <1>j, <1>1 DEF Exists, At, Shape, a
  <2>2. CASE Finish(p, <<a.ip>>)
    BY <1>5, <1>6, <1>8, <2>1, <2>2 DEF a
  <2>3. CASE act' = [act EXCEPT ![p].at = "created"]
    <3>1. act'[p].at = "created" /\ act'[p].src = a.src
      BY <1>1, <1>2, <2>3 DEF CallType, a
    <3> QED BY <1>5, <2>1, <3>1 DEF OnWay, a
  <2> QED BY <1>j, <2>2, <2>3 DEF Exists, a
<1>k. CASE CreateNew(p)
  <2> DEFINE d == a.dp
             n == Last(p)
             t == Makes(a.call)
  <2>1. PICK i \in Inodes : CreateAs(p, i)
    BY <1>k DEF CreateNew
  <2>2. /\ a.at = "parent" /\ Ilock(d) /\ Lookup(d, n) = NoInode
        /\ type[i] = "free" /\ lock[i] = NoProc
        /\ type' = [type EXCEPT ![i] = t]
        /\ nlink' = [nlink EXCEPT ![i] = 1, ![d] = DirLinks(d, t)]
        /\ ents' = [ents EXCEPT ![d][n] = i]
        /\ up' = [up EXCEPT ![i] = IF t = "dir" THEN d ELSE NoInode]
        /\ stray' = (stray \/ nlink[d] = 0)
    BY <2>1 DEF CreateAs, Creates, At, a
  <2>3. act'[p].at = "created" /\ act'[p].src = a.src
    BY <1>1, <1>2, <2>1 DEF CreateAs, CallType, a
  <2>4. m2 = m
    <3>1. \A x \in Inodes : OnWay(act'[p], x) <=> OnWay(act[p], x)
      BY <2>2, <2>3 DEF OnWay, a
    <3> QED BY <1>0, <1>3, <1>9, <3>1, PendingSame
  <2>5. /\ d \in Inodes /\ n \in Names /\ type[d] = "dir" /\ ents[d][n] = NoInode
        /\ m[d] = {}
    BY <1>14, <2>2
  <2>6. m[i] = {}
    BY <1>0, <1>2, <1>9, <2>1, <2>2, NoneOnWay
  <2>7. t \in {"file", "dir", "dev"}
    BY DEF Makes
  <2> HIDE DEF d, n, t
  <2>8. /\ i # d
        /\ \A x \in Inodes : w.type[x] = IF x = i THEN t ELSE v.type[x]
        /\ \A x \in Inodes : w.up[x] = IF x # i THEN v.up[x]
                                    ELSE IF t = "dir" THEN d ELSE NoInode
    BY <1>12, <1>13, <2>1, <2>2, <2>5
  <2>9. /\ w.nlink[d] = v.nlink[d] + (IF t = "dir" THEN 1 ELSE 0) /\ w.nlink[i] = 1
        /\ \A x \in Inodes \ {d, i} : w.nlink[x] = v.nlink[x]
    BY <1>12, <1>13, <2>1, <2>2, <2>5, <2>8 DEF DirLinks
  <2>10. /\ \A x \in Inodes, y \in Names :
               w.ents[x][y] = IF x = d /\ y = n THEN i ELSE v.ents[x][y]
         /\ \A x \in Inodes \ {d} : w.ents[x] = v.ents[x]
         /\ ~w.stray => ~v.stray /\ v.nlink[d] # 0
    <3>1. ents' = [ents EXCEPT ![d][n] = i] /\ ents \in [Inodes -> [Names -> Some]]
      BY <1>13, <2>2
    <3>2. ents'[d] = [ents[d] EXCEPT ![n] = i] /\ ents[d] \in [Names -> Some]
      BY <2>5, <3>1
    <3>3. \A x \in Inodes \ {d} : ents'[x] = ents[x]
      BY <3>1
    <3>4. \A y \in Names : ents'[d][y] = IF y = n THEN i ELSE ents[d][y]
      BY <3>2
    <3>5. ~stray' => ~stray /\ nlink[d] # 0
      BY <2>2
    <3> QED BY <1>12, <3>3, <3>4, <3>5
  <2>11. v.type[d] = "dir" /\ v.type[i] = "free" /\ v.ents[d][n] = NoInode
    BY <1>12, <2>2, <2>5
  <2>12. RightLinks(w, m)
    BY <1>10, <2>1, <2>5, <2>6, <2>7, <2>8, <2>9, <2>10, <2>11, CreateKeeps, SMTT(30)
  <2>13. FilesTyped'
    <3>1. type' \in [Inodes -> Types] /\ up' \in [Inodes -> Some] /\ stray' \in BOOLEAN
      BY <1>13, <2>1, <2>2, <2>5, <2>7 DEF Types, Some
    <3>2. DirLinks(d, t) \in Nat
      BY <1>13, <2>5 DEF DirLinks
    <3>3. nlink' \in [Inodes -> Nat]
      BY <1>13, <2>1, <2>2, <2>5, <3>2
    <3>4. ents' \in [Inodes -> [Names -> Some]]
      BY <1>13, <2>1, <2>2, <2>5 DEF Some
    <3> QED BY <3>1, <3>3, <3>4 DEF FilesTyped
  <2> QED BY <1>11, <2>4, <2>12, <2>13
<1>l. CASE Created(p)
  <2>1. a.at = "created" /\ a.src = NoInode /\ (\E s : Finish(p, s)) /\ fsVars' = fsVars
    BY <1>l, <1>1 DEF Created, TakeFile, At, Shape, a
  <2> QED BY <1>5, <1>6, <1>8, <2>1 DEF a
<1>m. CASE OpenFound(p)
  <2>1. a.at = "found" /\ a.src = NoInode /\ (\E s : Finish(p, s)) /\ fsVars' = fsVars
    BY <1>m, <1>1 DEF OpenFound, TakeFile, At, Shape, a
  <2> QED BY <1>5, <1>6, <1>8, <2>1 DEF a
<1>n. CASE Chdir(p)
  <2>1. a.at = "found" /\ a.src = NoInode /\ (\E s : Finish(p, s)) /\ fsVars' = fsVars
    BY <1>n, <1>1 DEF Chdir, At, Shape, a
  <2> QED BY <1>5, <1>6, <1>8, <2>1 DEF a
<1>o. CASE UnlinkLook(p)
  <2>1. a.at = "parent" /\ a.src = NoInode /\ fsVars' = fsVars
    BY <1>o, <1>1 DEF UnlinkLook, At, Shape, a
  <2>2. CASE Finish(p, <<a.dp>>)
    BY <1>5, <1>6, <1>8, <2>1, <2>2 DEF a
  <2>3. CASE act' = [act EXCEPT ![p].at = "unlink", ![p].ip = Lookup(a.dp, Last(p))]
    <3>1. act'[p].at = "unlink" /\ act'[p].src = a.src
      BY <1>1, <1>2, <2>3 DEF CallType, a
    <3> QED BY <1>5, <2>1, <3>1 DEF OnWay, a
  <2> QED BY <1>o, <2>2, <2>3 DEF UnlinkLook, a
<1>p. CASE Unlink(p)
  <2> DEFINE i == a.ip
             d == a.dp
             n == Last(p)
  <2>1. /\ a.at = "unlink" /\ a.src = NoInode /\ i \in Inodes /\ d \in Inodes
        /\ lock[i] = NoProc
    BY <1>p, <1>1, <1>4 DEF Unlink, At, Ilock, Shape, a
  <2>2. lock[d] = p /\ i # d
    BY <1>0, <1>2, <2>1 DEF LockInv, a
  <2>3. n \in Names /\ ents[d][n] = i
    BY <1>0, <2>1 DEF EntryStays, a
  <2>4. /\ ents' = [ents EXCEPT ![d][n] = NoInode] /\ Empty(i)
        /\ nlink' = IF type[i] = "dir" THEN [nlink EXCEPT ![d] = @ - 1] ELSE nlink
        /\ type' = type /\ up' = up /\ stray' = stray
    BY <1>p DEF Unlink, a
  <2>5. act'[p].at = "unlinked" /\ act'[p].ip = i /\ act'[p].src = NoInode
    BY <1>p, <1>1, <1>2, <2>1 DEF Unlink, CallType, a
  <2>6. /\ Cardinality(m2[i]) = Cardinality(m[i]) + 1
        /\ \A x \in Inodes \ {i} : m2[x] = m[x]
    <3>1. /\ ~OnWay(act[p], i)
          /\ \A x \in Inodes : OnWay(act'[p], x) <=> OnWay(act[p], x) \/ x = i
      BY <1>2, <2>1, <2>5 DEF OnWay, a
    <3> QED BY <1>0, <1>3, <1>9, <2>1, <3>1, PendingMore
  <2>7. type[i] = "dir" => nlink[d] \in Nat /\ nlink[d] >= 1
    BY <1>0, <2>1, <2>3, ParentPositive
  <2> HIDE DEF i, d, n
  <2>8. /\ w.type = v.type /\ w.up = v.up /\ w.stray = v.stray
        /\ w.nlink[d] = v.nlink[d] - (IF v.type[i] = "dir" THEN 1 ELSE 0)
        /\ \A x \in Inodes \ {d} : w.nlink[x] = v.nlink[x]
    BY <1>12, <1>13, <2>1, <2>4
  <2>9. /\ \A x \in Inodes, y \in Names :
              w.ents[x][y] = IF x = d /\ y = n THEN NoInode ELSE v.ents[x][y]
        /\ \A x \in Inodes \ {d} : w.ents[x] = v.ents[x]
    BY <1>12, <1>13, <2>1, <2>3, <2>4
  <2>10. v.ents[d][n] = i /\ (v.type[i] = "dir" => v.ents[i] = NoEnts)
    BY <1>12, <2>3, <2>4 DEF Empty
  <2>11. RightLinks(w, m2)
    BY <1>10, <2>1, <2>2, <2>3, <2>6, <2>8, <2>9, <2>10, RemoveKeeps
  <2>12. FilesTyped'
    <3>1. nlink' \in [Inodes -> Nat]
      <4>1. CASE type[i] = "dir"
        <5>1. nlink[d] - 1 \in Nat
          BY <2>7, <4>1
        <5> QED BY <1>13, <2>1, <2>4, <4>1, <5>1
      <4>2. CASE type[i] # "dir"
        BY <1>13, <2>4, <4>2
      <4> QED BY <4>1, <4>2
    <3>2. ents' \in [Inodes -> [Names -> Some]]
      BY <1>13, <2>1, <2>3, <2>4 DEF Some
    <3> QED BY <1>13, <2>4, <3>1, <3>2 DEF FilesTyped
  <2> QED BY <1>11, <2>11, <2>12
<1>q. CASE UnlinkNotEmpty(p)
  <2>1. /\ a.at = "unlink" /\ act'[p].at = "refused" /\ act'[p].src = a.src /\ fsVars' = fsVars
    BY <1>q, <1>1, <1>2 DEF UnlinkNotEmpty, At, CallType, a
  <2> QED BY <1>5, <2>1 DEF OnWay, a
<1>r. CASE UnlinkDone(p)
  <2> DEFINE i == a.ip
  <2>1. a.at = "unlinked" /\ i \in Inodes /\ a.src = NoInode
    BY <1>r, <1>1, <1>4 DEF UnlinkDone, At, Shape, a
  <2>2. /\ nlink' = [nlink EXCEPT ![i] = @ - 1] /\ Finish(p, <<i>>)
        /\ type' = type /\ ents' = ents /\ up' = up /\ stray' = stray
    BY <1>r DEF UnlinkDone, a
  <2>3. /\ Cardinality(m2[i]) = Cardinality(m[i]) - 1
        /\ \A x \in Inodes \ {i} : m2[x] = m[x]
    <3>1. /\ OnWay(act[p], i)
          /\ \A x \in Inodes : OnWay(act'[p], x) <=> OnWay(act[p], x) /\ x # i
      BY <1>2, <1>6, <2>1, <2>2 DEF OnWay, a
    <3> QED BY <1>0, <1>3, <1>9, <2>1, <3>1, PendingLess
  <2>4. nlink[i] \in Nat /\ nlink[i] >= 1
    <3>1. p \in InFlight(i) /\ type[i] # "free"
      BY <1>0, <1>2, <2>1 DEF InFlight, UsedStays, a
    <3> QED BY <1>0, <2>1, <3>1, LinkPositive
  <2> HIDE DEF i
  <2>5. nlink' \in [Inodes -> Nat]
    <3>1. nlink[i] - 1 \in Nat
      BY <2>4
    <3> QED BY <1>13, <2>1, <2>2, <3>1
  <2>6. /\ w.type = v.type /\ w.ents = v.ents /\ w.up = v.up /\ w.stray = v.stray
        /\ w.nlink[i] = v.nlink[i] + (0 - 1)
        /\ \A x \in Inodes \ {i} : w.nlink[x] = v.nlink[x]
    BY <1>12, <1>13, <2>1, <2>2
  <2>7. Cardinality(m2[i]) = Cardinality(m[i]) + (0 - 1) /\ (0 - 1) \in Int
    BY <1>10, <2>1, <2>3, FlightsNat
  <2>8. RightLinks(w, m2)
    BY <1>10, <2>1, <2>3, <2>6, <2>7, CountKeeps
  <2>9. FilesTyped'
    BY <1>13, <2>2, <2>5 DEF FilesTyped
  <2> QED BY <1>11, <2>8, <2>9
<1>s. CASE Link(p)
  <2> DEFINE i == a.ip
  <2>1. a.at = "found" /\ i \in Inodes /\ a.src = NoInode
    BY <1>s, <1>1, <1>4 DEF Link, At, Shape, a
  <2>2. CASE type[i] = "dir"
    <3>1. (\E s : Finish(p, s)) /\ fsVars' = fsVars
      BY <1>s, <2>2 DEF Link, fsVars, a
    <3> QED BY <1>5, <1>6, <1>8, <2>1, <3>1 DEF a
  <2>3. CASE type[i] # "dir"
    <3>1. /\ nlink' = [nlink EXCEPT ![i] = @ + 1]
          /\ act' = [act EXCEPT ![p] =
                      [Idle EXCEPT !.at = "walk", !.call = "linkto", !.src = i,
                          !.path = a.new[1].elems, !.ip = WalkFrom(p, a.new[1])]]
          /\ type' = type /\ ents' = ents /\ up' = up /\ stray' = stray
      BY <1>s, <2>3 DEF Link, a
    <3>2. act'[p].at = "walk" /\ act'[p].src = i
      BY <1>2, <3>1 DEF Idle
    <3>3. /\ Cardinality(m2[i]) = Cardinality(m[i]) + 1
          /\ \A x \in Inodes \ {i} : m2[x] = m[x]
      <4>1. /\ ~OnWay(act[p], i)
            /\ \A x \in Inodes : OnWay(act'[p], x) <=> OnWay(act[p], x) \/ x = i
        BY <1>2, <2>1, <3>2 DEF OnWay, a
      <4> QED BY <1>0, <1>3, <1>9, <2>1, <4>1, PendingMore
    <3> HIDE DEF i
    <3>4. nlink' \in [Inodes -> Nat]
      BY <1>13, <2>1, <3>1
    <3>5. /\ w.type = v.type /\ w.ents = v.ents /\ w.up = v.up /\ w.stray = v.stray
          /\ w.nlink[i] = v.nlink[i] + 1
          /\ \A x \in Inodes \ {i} : w.nlink[x] = v.nlink[x]
      BY <1>12, <1>13, <2>1, <3>1
    <3>6. RightLinks(w, m2)
      BY <1>10, <2>1, <3>3, <3>5, CountKeeps
    <3>7. FilesTyped'
      BY <1>13, <3>1, <3>4 DEF FilesTyped
    <3> QED BY <1>11, <3>6, <3>7
  <2> QED BY <2>2, <2>3
<1>t. CASE LinkTo(p)
  <2> DEFINE s == a.src
             d == a.dp
             n == Last(p)
  <2>1. /\ a.at = "parent" /\ s \in Inodes /\ Ilock(d) /\ Lookup(d, n) = NoInode
    BY <1>t, <1>1, <1>4 DEF LinkTo, At, Shape, a
  <2>2. /\ d \in Inodes /\ n \in Names /\ type[d] = "dir" /\ ents[d][n] = NoInode
        /\ m[d] = {}
    BY <1>14, <2>1
  <2>3. type[s] \in {"file", "dev"}
    BY <1>0, <1>2, <2>1 DEF UsedStays, a
  <2>4. /\ ents' = [ents EXCEPT ![d][n] = s] /\ stray' = (stray \/ nlink[d] = 0)
        /\ Finish(p, <<d, s>>) /\ type' = type /\ nlink' = nlink /\ up' = up
    BY <1>t DEF LinkTo, a
  <2>5. /\ Cardinality(m2[s]) = Cardinality(m[s]) - 1
        /\ \A x \in Inodes \ {s} : m2[x] = m[x]
    <3>1. /\ OnWay(act[p], s)
          /\ \A x \in Inodes : OnWay(act'[p], x) <=> OnWay(act[p], x) /\ x # s
      BY <1>2, <1>6, <2>1, <2>4 DEF OnWay, a
    <3> QED BY <1>0, <1>3, <1>9, <2>1, <3>1, PendingLess
  <2> HIDE DEF s, d, n
  <2>6. /\ w.type = v.type /\ w.nlink = v.nlink /\ w.up = v.up
        /\ \A x \in Inodes, y \in Names :
              w.ents[x][y] = IF x = d /\ y = n THEN s ELSE v.ents[x][y]
        /\ \A x \in Inodes \ {d} : w.ents[x] = v.ents[x]
        /\ ~w.stray => ~v.stray /\ v.nlink[d] # 0
    <3>1. ents' = [ents EXCEPT ![d][n] = s] /\ ents \in [Inodes -> [Names -> Some]]
      BY <1>13, <2>4
    <3>2. ents'[d] = [ents[d] EXCEPT ![n] = s] /\ ents[d] \in [Names -> Some]
      BY <2>2, <3>1
    <3>3. \A x \in Inodes \ {d} : ents'[x] = ents[x]
      BY <3>1
    <3>4. \A y \in Names : ents'[d][y] = IF y = n THEN s ELSE ents[d][y]
      BY <3>2
    <3>5. ~stray' => ~stray /\ nlink[d] # 0
      BY <2>4
    <3> QED BY <1>12, <2>4, <3>3, <3>4, <3>5
  <2>7. v.type[d] = "dir" /\ v.type[s] \in {"file", "dev"} /\ v.ents[d][n] = NoInode
    BY <1>12, <2>2, <2>3
  <2>8. RightLinks(w, m2)
    BY <1>10, <2>1, <2>2, <2>5, <2>6, <2>7, EnterKeeps
  <2>9. FilesTyped'
    <3>1. ents' \in [Inodes -> [Names -> Some]] /\ stray' \in BOOLEAN
      BY <1>13, <2>1, <2>2, <2>4 DEF Some
    <3> QED BY <1>13, <2>4, <3>1 DEF FilesTyped
  <2> QED BY <1>11, <2>8, <2>9
<1>u. CASE LinkTaken(p)
  <2>1. /\ a.at = "parent" /\ act'[p].at = "refused" /\ act'[p].src = a.src /\ fsVars' = fsVars
    BY <1>u, <1>1, <1>2 DEF LinkTaken, At, CallType, a
  <2> QED BY <1>5, <2>1 DEF OnWay, a
<1>v. CASE LinkBad(p)
  <2> DEFINE i == a.src
  <2>1. a.at = "bad" /\ i \in Inodes
    BY <1>v, <1>1, <1>4 DEF LinkBad, At, Shape, a
  <2>2. /\ nlink' = [nlink EXCEPT ![i] = @ - 1] /\ Finish(p, <<i>>)
        /\ type' = type /\ ents' = ents /\ up' = up /\ stray' = stray
    BY <1>v DEF LinkBad, a
  <2>3. /\ Cardinality(m2[i]) = Cardinality(m[i]) - 1
        /\ \A x \in Inodes \ {i} : m2[x] = m[x]
    <3>1. /\ OnWay(act[p], i)
          /\ \A x \in Inodes : OnWay(act'[p], x) <=> OnWay(act[p], x) /\ x # i
      BY <1>2, <1>6, <2>1, <2>2 DEF OnWay, a
    <3> QED BY <1>0, <1>3, <1>9, <2>1, <3>1, PendingLess
  <2>4. nlink[i] \in Nat /\ nlink[i] >= 1
    <3>1. p \in InFlight(i) /\ type[i] # "free"
      BY <1>0, <1>2, <2>1 DEF InFlight, UsedStays, a
    <3> QED BY <1>0, <2>1, <3>1, LinkPositive
  <2> HIDE DEF i
  <2>5. nlink' \in [Inodes -> Nat]
    <3>1. nlink[i] - 1 \in Nat
      BY <2>4
    <3> QED BY <1>13, <2>1, <2>2, <3>1
  <2>6. /\ w.type = v.type /\ w.ents = v.ents /\ w.up = v.up /\ w.stray = v.stray
        /\ w.nlink[i] = v.nlink[i] + (0 - 1)
        /\ \A x \in Inodes \ {i} : w.nlink[x] = v.nlink[x]
    BY <1>12, <1>13, <2>1, <2>2
  <2>7. Cardinality(m2[i]) = Cardinality(m[i]) + (0 - 1) /\ (0 - 1) \in Int
    BY <1>10, <2>1, <2>3, FlightsNat
  <2>8. RightLinks(w, m2)
    BY <1>10, <2>1, <2>3, <2>6, <2>7, CountKeeps
  <2>9. FilesTyped'
    BY <1>13, <2>2, <2>5 DEF FilesTyped
  <2> QED BY <1>11, <2>8, <2>9
<1>w. CASE Refused(p)
  <2>1. a.at = "refused" /\ (\E s : Fail(p, s)) /\ fsVars' = fsVars
    BY <1>w, <1>1 DEF Refused, At, Shape, a
  <2> QED BY <1>5, <1>7, <1>8, <2>1 DEF a
<1> HIDE DEF Good
<1>z1. CASE Iput(p)
  BY <1>c, <1>d, <1>z1 DEF Iput
<1>z2. CASE Namex(p)
  BY <1>e, <1>f, <1>g, <1>h, <1>z2 DEF Namex
<1>z3. CASE Create(p)
  BY <1>i, <1>j, <1>k, <1>l, <1>z3 DEF Create
<1>z4. CASE SysUnlink(p)
  BY <1>o, <1>p, <1>q, <1>r, <1>z4 DEF SysUnlink
<1>z5. CASE SysLink(p)
  BY <1>s, <1>t, <1>u, <1>v, <1>z5 DEF SysLink
<1>y. \/ \E r \in session : Begin(p, r)
      \/ Close(p) \/ End(p) \/ OpenFound(p) \/ Chdir(p) \/ Refused(p)
      \/ Iput(p) \/ Namex(p) \/ Create(p) \/ SysUnlink(p) \/ SysLink(p)
  BY DEF Step
<1> QED
  BY <1>A, <1>a, <1>b, <1>m, <1>n, <1>w, <1>y, <1>z1, <1>z2, <1>z3, <1>z4, <1>z5
-----------------------------------------------------------------------------
(***************************************************************************)
(* What a process relies on without the lock.                              *)
(***************************************************************************)

\* UsedStays of one process: in directory c, with file o, in call b, on types ty.
UsedBy(c, o, b, ty) ==
    /\ \A i \in {c, o} \ {NoInode} : ty[i] # "free"
    /\ b.at \in {"created", "unlinked"} => ty[b.ip] # "free"
    /\ b.at \in {"parent", "unlink"} => ty[b.dp] = "dir"
    /\ b.src # NoInode => ty[b.src] \in {"file", "dev"}

\* A step gives a type to a free inode, or frees the one it puts last.
LEMMA TypeMoves ==
    ASSUME TypeOK, NEW p \in Procs, Step(p), NEW i \in Inodes
    PROVE  \/ type'[i] = type[i]
           \/ type[i] = "free"
           \/ act[p].puts # <<>> /\ i = Head(act[p].puts) /\ LastUser(i)
<1>1. type \in [Inodes -> Types]
  BY TypeParts DEF FilesTyped
<1>2. CASE IputLocked(p)
  BY <1>1, <1>2 DEF IputLocked
<1>3. CASE CreateNew(p)
  BY <1>1, <1>3 DEF CreateNew, CreateAs
<1>4. ASSUME ~IputLocked(p), ~CreateNew(p) PROVE type' = type
  BY <1>4 DEF Step, Iput, Namex, Create, SysUnlink, SysLink, Begin, Close, End, IputRef,
     WalkFail, WalkParent, WalkNext, WalkEnd, CreateExists, Exists, Created, OpenFound,
     Chdir, UnlinkLook, Unlink, UnlinkNotEmpty, UnlinkDone, Link, LinkTo, LinkTaken,
     LinkBad, Refused, fsVars
<1> QED BY <1>2, <1>3, <1>4

\* Whatever a process points to, other than what it puts, keeps its type.
LEMMA TypeKept ==
    ASSUME TypeOK, ShapeInv, RefInv, NEW p \in Procs, Step(p),
           NEW q \in Procs, NEW r \in Roles \ {"put1"}, NEW i \in Inodes,
           Held(q)[r] = i, type[i] # "free"
    PROVE  type'[i] = type[i]
<1>1. SUFFICES ASSUME act[p].puts # <<>>, i = Head(act[p].puts), LastUser(i)
               PROVE  FALSE
  BY TypeMoves
<1> QED BY <1>1, FreedUnused

\* So what UsedStays says of a process stays true of what it pointed to before.
LEMMA UsedKept ==
    ASSUME TypeOK, ShapeInv, RefInv, UsedStays, NEW p \in Procs, Step(p), NEW q \in Procs
    PROVE  UsedBy(cwd[q], open[q], act[q], type')
<1>1. /\ \A i \in {cwd[q], open[q]} \ {NoInode} : type[i] # "free"
      /\ act[q].at \in {"created", "unlinked"} => type[act[q].ip] # "free"
      /\ act[q].at \in {"parent", "unlink"} => type[act[q].dp] = "dir"
      /\ act[q].src # NoInode => type[act[q].src] \in {"file", "dev"}
  BY DEF UsedStays
<1>2. /\ cwd[q] \in Inodes /\ open[q] \in Some /\ act[q] \in CallType /\ Shape(act[q])
      /\ act[q].ip \in Some /\ act[q].dp \in Some /\ act[q].src \in Some
  BY TypeParts DEF CallsTyped, CallType, ShapeInv
<1>3. \A i \in Some : i # NoInode => i \in Inodes
  BY DEF Some
<1>4. /\ Held(q)["cwd"] = cwd[q] /\ Held(q)["open"] = open[q] /\ Held(q)["ip"] = act[q].ip
      /\ Held(q)["dp"] = act[q].dp /\ Held(q)["src"] = act[q].src
      /\ \A r \in {"cwd", "open", "ip", "dp", "src"} : r \in Roles \ {"put1"}
  BY DEF Held, Roles
<1>5. type[cwd[q]] # "free" => type'[cwd[q]] = type[cwd[q]]
  BY <1>2, <1>4, TypeKept
<1>6. open[q] # NoInode /\ type[open[q]] # "free" => type'[open[q]] = type[open[q]]
  BY <1>2, <1>3, <1>4, TypeKept
<1>7. act[q].ip # NoInode /\ type[act[q].ip] # "free" => type'[act[q].ip] = type[act[q].ip]
  BY <1>2, <1>3, <1>4, TypeKept
<1>8. act[q].dp # NoInode /\ type[act[q].dp] # "free" => type'[act[q].dp] = type[act[q].dp]
  BY <1>2, <1>3, <1>4, TypeKept
<1>9. act[q].src # NoInode /\ type[act[q].src] # "free"
         => type'[act[q].src] = type[act[q].src]
  BY <1>2, <1>3, <1>4, TypeKept
<1>10. /\ act[q].at \in {"created", "unlinked"} => act[q].ip # NoInode
       /\ act[q].at \in {"parent", "unlink"} => act[q].dp # NoInode
  BY <1>2 DEF Shape
<1>11. \A i \in {cwd[q], open[q]} \ {NoInode} : type'[i] # "free"
  BY <1>1, <1>2, <1>5, <1>6, NamespaceAssumption
<1>12. act[q].at \in {"created", "unlinked"} => type'[act[q].ip] # "free"
  BY <1>1, <1>7, <1>10
<1>13. act[q].at \in {"parent", "unlink"} => type'[act[q].dp] = "dir"
  BY <1>1, <1>8, <1>10
<1>14. act[q].src # NoInode => type'[act[q].src] \in {"file", "dev"}
  BY <1>1, <1>9
<1> QED BY <1>11, <1>12, <1>13, <1>14 DEF UsedBy

\* What a process uses is not freed and stays what it is.
LEMMA UsedStep ==
    ASSUME TypeOK, ShapeInv, RefInv, UsedStays, NEW p \in Procs, Step(p)
    PROVE  UsedStays'
<1> DEFINE a == act[p]
           Good == UsedBy(cwd'[p], open'[p], act'[p], type')
<1>1. /\ CallsTyped /\ act \in [Procs -> CallType] /\ type \in [Inodes -> Types]
      /\ cwd \in [Procs -> Inodes] /\ open \in [Procs -> Some]
      /\ a \in CallType /\ a.ip \in Some /\ a.dp \in Some /\ a.src \in Some /\ Shape(a)
      /\ NoInode \notin Inodes
  BY TypeParts, NamespaceAssumption DEF FilesTyped, CallsTyped, CallType, ShapeInv
<1>2. \A i \in Some : i # NoInode => i \in Inodes
  BY DEF Some
<1>3. UsedBy(cwd[p], open[p], a, type')
  BY UsedKept
<1>4. ASSUME Good PROVE UsedStays'
  <2>1. \A q \in Procs : UsedBy(cwd'[q], open'[q], act'[q], type')
    <3> SUFFICES ASSUME NEW q \in Procs \ {p}
                 PROVE  UsedBy(cwd'[q], open'[q], act'[q], type')
      BY <1>4
    <3> QED BY <1>1, OthersStay, UsedKept
  <2> QED BY <2>1 DEF UsedBy, UsedStays
<1>5. ASSUME cwd'[p] = cwd[p], open'[p] = open[p], act'[p].src \in {a.src, NoInode},
             act'[p].at \notin {"created", "unlinked", "parent", "unlink"}
      PROVE  Good
  BY <1>3, <1>5 DEF UsedBy
<1>6. ASSUME cwd'[p] = cwd[p], open'[p] = open[p], act'[p].at = a.at, act'[p].ip = a.ip,
             act'[p].dp = a.dp, act'[p].src = a.src
      PROVE  Good
  BY <1>3, <1>6 DEF UsedBy
<1>7. \A s : Finish(p, s) \/ Fail(p, s) =>
         act'[p].at \in {"end", "bad"} /\ act'[p].src \in {a.src, NoInode}
  <2> SUFFICES ASSUME NEW s, Finish(p, s) \/ Fail(p, s)
               PROVE  act'[p].at \in {"end", "bad"} /\ act'[p].src \in {a.src, NoInode}
    OBVIOUS
  <2>1. CASE Finish(p, s)
    BY <1>1, <2>1 DEF Finish, Idle
  <2>2. CASE Fail(p, s) /\ ~Finish(p, s)
    <3>1. act' = [act EXCEPT ![p] = [Idle EXCEPT !.at = "bad", !.src = act[p].src, !.puts = s]]
      BY <2>2 DEF Fail
    <3> QED BY <1>1, <3>1 DEF Idle
  <2> QED BY <2>1, <2>2
<1>8. ofileVars' = ofileVars => cwd'[p] = cwd[p] /\ open'[p] = open[p]
  BY DEF ofileVars
<1> HIDE DEF a, Good
<1>A. CASE \E r \in session : Begin(p, r)
  <2>1. act'[p].at = "walk" /\ act'[p].src = NoInode /\ ofileVars' = ofileVars
    BY <1>A, <1>1 DEF Begin, Idle
  <2> QED BY <1>4, <1>5, <1>8, <2>1
<1>a. CASE Close(p)
  <2>1. /\ act'[p].at \in {"end", "bad"} /\ act'[p].src \in {a.src, NoInode}
        /\ cwd'[p] = cwd[p] /\ open'[p] = NoInode
    BY <1>a, <1>1, <1>7 DEF Close
  <2>2. Good
    BY <1>3, <2>1 DEF Good, UsedBy
  <2> QED BY <1>4, <2>2
<1>b. CASE End(p)
  <2>1. act'[p].at = "user" /\ act'[p].src = NoInode /\ ofileVars' = ofileVars
    BY <1>b, <1>1 DEF End, Idle
  <2> QED BY <1>4, <1>5, <1>8, <2>1
<1>c. CASE IputLocked(p)
  <2>1. /\ act'[p].at = a.at /\ act'[p].ip = a.ip /\ act'[p].dp = a.dp
        /\ act'[p].src = a.src /\ ofileVars' = ofileVars
    BY <1>c, <1>1 DEF IputLocked, CallType, a
  <2> QED BY <1>4, <1>6, <1>8, <2>1
<1>d. CASE IputRef(p)
  <2>1. /\ act'[p].at = a.at /\ act'[p].ip = a.ip /\ act'[p].dp = a.dp
        /\ act'[p].src = a.src /\ ofileVars' = ofileVars
    BY <1>d, <1>1 DEF IputRef, CallType, a
  <2> QED BY <1>4, <1>6, <1>8, <2>1
<1>e. CASE WalkFail(p)
  <2>1. /\ act'[p].at \in {"end", "bad"} /\ act'[p].src \in {a.src, NoInode}
        /\ ofileVars' = ofileVars
    BY <1>e, <1>7 DEF WalkFail
  <2> QED BY <1>4, <1>5, <1>8, <2>1
<1>f. CASE WalkParent(p)
  <2>1. /\ type[a.ip] = "dir" /\ type' = type /\ act'[p].at = "parent" /\ act'[p].dp = a.ip
        /\ act'[p].src = a.src /\ ofileVars' = ofileVars
    BY <1>f, <1>1 DEF WalkParent, CallType, fsVars, a
  <2>2. Good
    BY <1>3, <1>8, <2>1 DEF Good, UsedBy
  <2> QED BY <1>4, <2>2
<1>g. CASE WalkNext(p)
  <2>1. /\ a.at = "walk" /\ act'[p].at = "walk" /\ act'[p].src = a.src
        /\ ofileVars' = ofileVars
    BY <1>g, <1>1 DEF WalkNext, At, CallType, a
  <2> QED BY <1>4, <1>5, <1>8, <2>1
<1>h. CASE WalkEnd(p)
  <2>1. ofileVars' = ofileVars
    BY <1>h DEF WalkEnd
  <2>2. CASE Fail(p, <<a.ip>>)
    BY <1>4, <1>5, <1>7, <1>8, <2>1, <2>2
  <2>3. CASE act' = [act EXCEPT ![p].at = "found"]
    <3>1. act'[p].at = "found" /\ act'[p].src = a.src
      BY <1>1, <2>3 DEF CallType, a
    <3> QED BY <1>4, <1>5, <1>8, <2>1, <3>1
  <2> QED BY <1>h, <2>2, <2>3 DEF WalkEnd, a
<1>i. CASE CreateExists(p)
  <2>1. /\ act'[p].at = "exists" /\ act'[p].src = a.src /\ ofileVars' = ofileVars
    BY <1>i, <1>1 DEF CreateExists, CallType, a
  <2> QED BY <1>4, <1>5, <1>8, <2>1
<1>j. CASE Exists(p)
  <2>1. type' = type /\ ofileVars' = ofileVars
    BY <1>j DEF Exists, fsVars
  <2>2. CASE Finish(p, <<a.ip>>)
    BY <1>4, <1>5, <1>7, <1>8, <2>1, <2>2
  <2>3. CASE type[a.ip] = "file" /\ act' = [act EXCEPT ![p].at = "created"]
    <3>1. /\ act'[p].at = "created" /\ act'[p].src = a.src /\ act'[p].ip = a.ip
          /\ type'[a.ip] # "free"
      BY <1>1, <2>1, <2>3 DEF CallType, a
    <3>2. Good
      BY <1>3, <1>8, <2>1, <3>1 DEF Good, UsedBy
    <3> QED BY <1>4, <3>2
  <2> QED BY <1>j, <2>2, <2>3 DEF Exists, a
<1>k. CASE CreateNew(p)
  <2>1. PICK i \in Inodes : CreateAs(p, i)
    BY <1>k DEF CreateNew
  <2>2. /\ type' = [type EXCEPT ![i] = Makes(a.call)] /\ Makes(a.call) # "free"
        /\ ofileVars' = ofileVars
    BY <2>1 DEF CreateAs, Makes, a
  <2>3. act'[p].at = "created" /\ act'[p].ip = i /\ act'[p].src = a.src
    BY <2>1, <1>1 DEF CreateAs, CallType, a
  <2>4. type'[i] # "free"
    BY <1>1, <2>1, <2>2
  <2>5. Good
    BY <1>3, <1>8, <2>2, <2>3, <2>4 DEF Good, UsedBy
  <2> QED BY <1>4, <2>5
\* filealloc() and fdalloc() take an inode that has a type, or none.
<1>9. ASSUME TakeFile(p), cwd'[p] = cwd[p], type'[a.ip] # "free" PROVE Good
  <2>1. act'[p].at \in {"end", "bad"} /\ act'[p].src \in {a.src, NoInode}
    BY <1>7, <1>9 DEF TakeFile
  <2>2. open'[p] = open[p] \/ open'[p] = a.ip
    BY <1>1, <1>9 DEF TakeFile, a
  <2> QED BY <1>3, <1>9, <2>1, <2>2 DEF Good, UsedBy
<1>l. CASE Created(p)
  <2>1. type' = type /\ cwd'[p] = cwd[p] /\ a.at = "created"
    BY <1>l DEF Created, At, fsVars, a
  <2>2. type'[a.ip] # "free"
    BY <1>3, <2>1 DEF UsedBy
  <2>3. CASE TakeFile(p)
    BY <1>4, <1>9, <2>1, <2>2, <2>3
  <2>4. CASE Finish(p, <<a.ip>>) /\ open' = open
    BY <1>4, <1>5, <1>7, <2>1, <2>4
  <2> QED BY <1>l, <2>3, <2>4 DEF Created, a
<1>m. CASE OpenFound(p)
  <2>1. type' = type /\ cwd'[p] = cwd[p] /\ type'[a.ip] # "free" /\ TakeFile(p)
    BY <1>m DEF OpenFound, Ilock, fsVars, a
  <2> QED BY <1>4, <1>9, <2>1
<1>n. CASE Chdir(p)
  <2>1. /\ type' = type /\ open'[p] = open[p] /\ type'[a.ip] # "free"
        /\ act'[p].at \in {"end", "bad"} /\ act'[p].src \in {a.src, NoInode}
    BY <1>n, <1>7 DEF Chdir, Ilock, fsVars, a
  <2>2. cwd'[p] = cwd[p] \/ cwd'[p] = a.ip
    BY <1>n, <1>1 DEF Chdir, a
  <2>3. Good
    BY <1>3, <2>1, <2>2 DEF Good, UsedBy
  <2> QED BY <1>4, <2>3
<1>o. CASE UnlinkLook(p)
  <2>1. a.at = "parent" /\ ofileVars' = ofileVars
    BY <1>o DEF UnlinkLook, At, a
  <2>2. CASE Finish(p, <<a.dp>>)
    BY <1>4, <1>5, <1>7, <1>8, <2>1, <2>2
  <2>3. CASE act' = [act EXCEPT ![p].at = "unlink", ![p].ip = Lookup(a.dp, Last(p))]
    <3>1. act'[p].at = "unlink" /\ act'[p].src = a.src /\ act'[p].dp = a.dp
      BY <1>1, <2>3 DEF CallType, a
    <3>2. Good
      BY <1>3, <1>8, <2>1, <3>1 DEF Good, UsedBy
    <3> QED BY <1>4, <3>2
  <2> QED BY <1>o, <2>2, <2>3 DEF UnlinkLook, a
<1>p. CASE Unlink(p)
  <2>1. /\ type' = type /\ type[a.ip] # "free" /\ act'[p].at = "unlinked"
        /\ act'[p].ip = a.ip /\ act'[p].src = a.src /\ ofileVars' = ofileVars
    BY <1>p, <1>1 DEF Unlink, Ilock, CallType, a
  <2>2. Good
    BY <1>3, <1>8, <2>1 DEF Good, UsedBy
  <2> QED BY <1>4, <2>2
<1>q. CASE UnlinkNotEmpty(p)
  <2>1. act'[p].at = "refused" /\ act'[p].src = a.src /\ ofileVars' = ofileVars
    BY <1>q, <1>1 DEF UnlinkNotEmpty, CallType, a
  <2> QED BY <1>4, <1>5, <1>8, <2>1
<1>r. CASE UnlinkDone(p)
  <2>1. /\ act'[p].at \in {"end", "bad"} /\ act'[p].src \in {a.src, NoInode}
        /\ ofileVars' = ofileVars
    BY <1>r, <1>7 DEF UnlinkDone
  <2> QED BY <1>4, <1>5, <1>8, <2>1
<1>s. CASE Link(p)
  <2>1. /\ type' = type /\ ofileVars' = ofileVars /\ type[a.ip] # "free" /\ a.at = "found"
    BY <1>s DEF Link, Ilock, At, a
  <2>2. CASE Finish(p, <<a.ip>>)
    BY <1>4, <1>5, <1>7, <1>8, <2>1, <2>2
  <2>3. CASE ~Finish(p, <<a.ip>>)
    <3>0. /\ type[a.ip] # "dir"
          /\ act' = [act EXCEPT ![p] =
                      [Idle EXCEPT !.at = "walk", !.call = "linkto", !.src = a.ip,
                          !.path = a.new[1].elems, !.ip = WalkFrom(p, a.new[1])]]
      BY <1>s, <2>3 DEF Link, a
    <3>1. type[a.ip] # "dir" /\ act'[p].at = "walk" /\ act'[p].src = a.ip
      BY <1>1, <3>0 DEF Idle
    <3>2. type'[a.ip] \in {"file", "dev"}
      <4>1. a.ip \in Inodes
        BY <1>1, <1>2, <2>1 DEF Shape
      <4> QED BY <1>1, <2>1, <3>1, <4>1 DEF Types
    <3>3. Good
      BY <1>3, <1>8, <2>1, <3>1, <3>2 DEF Good, UsedBy
    <3> QED BY <1>4, <3>3
  <2> QED BY <2>2, <2>3
<1>t. CASE LinkTo(p)
  <2>1. /\ act'[p].at \in {"end", "bad"} /\ act'[p].src \in {a.src, NoInode}
        /\ ofileVars' = ofileVars
    BY <1>t, <1>7 DEF LinkTo
  <2> QED BY <1>4, <1>5, <1>8, <2>1
<1>u. CASE LinkTaken(p)
  <2>1. act'[p].at = "refused" /\ act'[p].src = a.src /\ ofileVars' = ofileVars
    BY <1>u, <1>1 DEF LinkTaken, CallType, a
  <2> QED BY <1>4, <1>5, <1>8, <2>1
<1>v. CASE LinkBad(p)
  <2>1. /\ act'[p].at \in {"end", "bad"} /\ act'[p].src \in {a.src, NoInode}
        /\ ofileVars' = ofileVars
    BY <1>v, <1>7 DEF LinkBad
  <2> QED BY <1>4, <1>5, <1>8, <2>1
<1>w. CASE Refused(p)
  <2>1. /\ act'[p].at \in {"end", "bad"} /\ act'[p].src \in {a.src, NoInode}
        /\ ofileVars' = ofileVars
    BY <1>w, <1>7 DEF Refused
  <2> QED BY <1>4, <1>5, <1>8, <2>1
<1> QED BY <1>A, <1>a, <1>b, <1>c, <1>d, <1>e, <1>f, <1>g, <1>h, <1>i, <1>j, <1>k, <1>l, <1>m, <1>n, <1>o, <1>p, <1>q, <1>r, <1>s, <1>t, <1>u, <1>v, <1>w
        DEF Step, Iput, Namex, Create, SysUnlink, SysLink

-----------------------------------------------------------------------------
(***************************************************************************)
(* The entry unlink() has found.                                           *)
(***************************************************************************)

\* Entries change in a directory nobody has locked, or by unlink() in the one it
\* has locked itself.
LEMMA EntsMove ==
    ASSUME TypeOK, ShapeInv, LockInv, NEW p \in Procs, Step(p), NEW x \in Inodes
    PROVE  \/ ents'[x] = ents[x]
           \/ lock[x] = NoProc
           \/ lock[x] = p /\ act'[p].at = "unlinked"
<1>1. /\ ents \in [Inodes -> [Names -> Some]] /\ act \in [Procs -> CallType]
      /\ act[p].dp \in Some /\ Shape(act[p])
  BY TypeParts DEF FilesTyped, CallsTyped, CallType, ShapeInv
<1>2. \A i \in Some : i # NoInode => i \in Inodes
  BY DEF Some
<1>3. CASE IputLocked(p)
  BY <1>1, <1>3 DEF IputLocked
<1>4. CASE CreateNew(p)
  <2>1. PICK i \in Inodes : CreateAs(p, i)
    BY <1>4 DEF CreateNew
  <2>2. /\ ents' = [ents EXCEPT ![act[p].dp][Last(p)] = i] /\ lock[act[p].dp] = NoProc
    BY <2>1 DEF CreateAs, Ilock
  <2> QED BY <1>1, <2>2
<1>5. CASE Unlink(p)
  <2>1. /\ ents' = [ents EXCEPT ![act[p].dp][Last(p)] = NoInode] /\ act[p].at = "unlink"
        /\ act'[p].at = "unlinked"
    BY <1>1, <1>5 DEF Unlink, At, CallType
  <2>2. lock[act[p].dp] = p
    BY <1>1, <1>2, <2>1 DEF Shape, LockInv
  <2> QED BY <1>1, <2>1, <2>2
<1>6. CASE LinkTo(p)
  <2>1. /\ ents' = [ents EXCEPT ![act[p].dp][Last(p)] = act[p].src]
        /\ lock[act[p].dp] = NoProc
    BY <1>6 DEF LinkTo, Ilock
  <2> QED BY <1>1, <2>1
<1>7. ASSUME ~IputLocked(p), ~CreateNew(p), ~Unlink(p), ~LinkTo(p) PROVE ents' = ents
  BY <1>7 DEF Step, Iput, Namex, Create, SysUnlink, SysLink, Begin, Close, End, IputRef,
     WalkFail, WalkParent, WalkNext, WalkEnd, CreateExists, Exists, Created, OpenFound,
     Chdir, UnlinkLook, UnlinkNotEmpty, UnlinkDone, Link, LinkTaken,
     LinkBad, Refused, fsVars
<1> QED BY <1>3, <1>4, <1>5, <1>6, <1>7

\* A call comes to erase an entry by finding it, or by giving back an inode.
LEMMA UnlinkMoves ==
    ASSUME TypeOK, ShapeInv, NEW p \in Procs, Step(p), act'[p].at = "unlink"
    PROVE  \/ /\ act[p].at = "unlink" /\ act'[p].ip = act[p].ip
              /\ act'[p].dp = act[p].dp /\ act'[p].path = act[p].path
           \/ /\ act[p].at = "parent" /\ act'[p].dp = act[p].dp
              /\ act'[p].path = act[p].path /\ ents' = ents
              /\ Last(p) \notin Dots /\ act'[p].ip = Lookup(act[p].dp, Last(p))
<1> DEFINE a == act[p]
<1>1. act \in [Procs -> CallType] /\ a \in CallType /\ Shape(a)
  BY TypeParts DEF CallsTyped, ShapeInv
<1>2. \A s : ~Finish(p, s) /\ ~Fail(p, s)
  BY <1>1 DEF Finish, Fail, Idle
<1> HIDE DEF a
<1>3. CASE IputLocked(p)
  BY <1>1, <1>3 DEF IputLocked, CallType, a
<1>4. CASE IputRef(p)
  BY <1>1, <1>4 DEF IputRef, CallType, a
<1>5. CASE UnlinkLook(p)
  <2>1. /\ a.at = "parent" /\ ents' = ents /\ Last(p) \notin Dots
        /\ act' = [act EXCEPT ![p].at = "unlink", ![p].ip = Lookup(a.dp, Last(p))]
    BY <1>2, <1>5 DEF UnlinkLook, At, fsVars, a
  <2> QED BY <1>1, <2>1 DEF CallType, a
<1>6. ~(\E r \in session : Begin(p, r)) /\ ~Close(p) /\ ~End(p)
  <2>1. ASSUME NEW r, Begin(p, r) PROVE FALSE
    BY <1>1, <2>1 DEF Begin, Idle
  <2>2. ~Close(p)
    BY <1>2 DEF Close
  <2>3. ~End(p)
    BY <1>1 DEF End, Idle
  <2> QED BY <2>1, <2>2, <2>3
<1>7. ~WalkFail(p) /\ ~WalkParent(p) /\ ~WalkEnd(p)
  BY <1>1, <1>2 DEF WalkFail, WalkParent, WalkEnd, CallType, a
<1>8. ~WalkNext(p)
  BY <1>1 DEF WalkNext, At, CallType, a
<1>9. ~CreateExists(p) /\ ~Exists(p) /\ ~Created(p) /\ ~OpenFound(p) /\ ~Chdir(p)
  BY <1>1, <1>2 DEF CreateExists, Exists, Created, TakeFile, OpenFound, Chdir, CallType, a
<1>10. ~CreateNew(p)
  <2>1. ASSUME NEW i, CreateAs(p, i) PROVE act'[p].at = "created"
    BY <1>1, <2>1 DEF CreateAs, CallType, a
  <2> QED BY <2>1 DEF CreateNew
<1>11. ~Unlink(p) /\ ~UnlinkNotEmpty(p) /\ ~UnlinkDone(p)
  BY <1>1, <1>2 DEF Unlink, UnlinkNotEmpty, UnlinkDone, CallType, a
<1>12. ~Link(p)
  <2> SUFFICES ASSUME Link(p) PROVE FALSE
    OBVIOUS
  <2>1. act' = [act EXCEPT ![p] =
                   [Idle EXCEPT !.at = "walk", !.call = "linkto", !.src = a.ip,
                       !.path = a.new[1].elems, !.ip = WalkFrom(p, a.new[1])]]
    BY <1>2 DEF Link, a
  <2> QED BY <1>1, <2>1 DEF Idle
<1>13. ~LinkTo(p) /\ ~LinkTaken(p) /\ ~LinkBad(p) /\ ~Refused(p)
  BY <1>1, <1>2 DEF LinkTo, LinkTaken, LinkBad, Refused, CallType, a
<1> QED BY <1>3, <1>4, <1>5, <1>6, <1>7, <1>8, <1>9, <1>10, <1>11, <1>12, <1>13
        DEF Step, Iput, Namex, Create, SysUnlink, SysLink

\* The lock of the directory keeps the entry until unlink() erases it.
LEMMA EntryStep ==
    ASSUME TypeOK, ShapeInv, UsedStays, LockInv, EntryStays, LinkInv,
           NEW p \in Procs, Step(p)
    PROVE  EntryStays'
<1>1. /\ CallsTyped /\ FilesTyped /\ NoProc \notin Procs /\ NoInode \notin Inodes
      /\ act \in [Procs -> CallType] /\ up \in [Inodes -> Some]
  BY TypeParts, NamespaceAssumption DEF CallsTyped, FilesTyped
<1>2. \A i \in Some : i # NoInode => i \in Inodes
  BY DEF Some
\* While it is locked for unlink(), the entry stays.
<1>3. ASSUME NEW q \in Procs, act[q].at = "unlink", q # p \/ act'[p].at = "unlink"
      PROVE  ents'[act[q].dp] = ents[act[q].dp] /\ Last(q) \in Names
             /\ ents[act[q].dp][Last(q)] = act[q].ip
  <2>1. act[q].dp \in Inodes
    BY <1>1, <1>2, <1>3 DEF CallType, Shape, ShapeInv
  <2>2. lock[act[q].dp] = q
    BY <1>3, <2>1 DEF LockInv
  <2>3. ents'[act[q].dp] = ents[act[q].dp]
    BY <1>1, <1>3, <2>1, <2>2, EntsMove
  <2> QED BY <1>3, <2>3 DEF EntryStays
<1> SUFFICES ASSUME NEW q \in Procs, act'[q].at = "unlink"
             PROVE  /\ Head(act'[q].path) \in Names
                    /\ ents'[act'[q].dp][Head(act'[q].path)] = act'[q].ip
  BY DEF EntryStays, Last
<1>4. CASE q # p
  <2>1. act'[q] = act[q]
    BY <1>1, <1>4, OthersStay
  <2> QED BY <1>3, <1>4, <2>1 DEF Last
<1>5. CASE q = p
  <2>1. CASE /\ act[p].at = "unlink" /\ act'[p].ip = act[p].ip
             /\ act'[p].dp = act[p].dp /\ act'[p].path = act[p].path
    BY <1>3, <1>5, <2>1 DEF Last
  <2>2. CASE /\ act[p].at = "parent" /\ act'[p].dp = act[p].dp
             /\ act'[p].path = act[p].path /\ ents' = ents
             /\ Last(p) \notin Dots /\ act'[p].ip = Lookup(act[p].dp, Last(p))
    <3>1. act[p].path \in Seq(Names \cup Dots) /\ act[p].path # <<>>
      BY <1>1, <2>2 DEF CallType, Shape, ShapeInv
    <3>2. Last(p) \in Names
      BY <2>2, <3>1, HeadAndTail DEF Last
    <3>3. Lookup(act[p].dp, Last(p)) = ents[act[p].dp][Last(p)]
      BY <2>2 DEF Lookup, Dots
    <3> QED BY <1>5, <2>2, <3>2, <3>3 DEF Last
  <2> QED BY <1>5, <2>1, <2>2, UnlinkMoves
<1> QED BY <1>4, <1>5

\* valid stays a flag.
LEMMA ValidStep ==
    ASSUME TypeOK, NEW p \in Procs, Step(p)
    PROVE  valid' \in [Inodes -> BOOLEAN]
<1>1. valid \in [Inodes -> BOOLEAN]
  BY TypeParts DEF CacheTyped
<1>2. ASSUME NEW i, Read(i) PROVE valid' \in [Inodes -> BOOLEAN]
  BY <1>1, <1>2 DEF Read
<1>3. CASE IputLocked(p) \/ IputRef(p)
  BY <1>1, <1>3 DEF IputLocked, IputRef
<1>4. CASE WalkFail(p) \/ WalkParent(p) \/ WalkNext(p) \/ OpenFound(p) \/ Exists(p)
        \/ CreateNew(p) \/ Chdir(p) \/ Unlink(p) \/ UnlinkNotEmpty(p) \/ Link(p)
  BY <1>2, <1>4 DEF WalkFail, WalkParent, WalkNext, OpenFound, Exists, CreateNew, CreateAs,
     Chdir, Unlink, UnlinkNotEmpty, Link
<1>5. ASSUME ~(IputLocked(p) \/ IputRef(p)),
             ~(WalkFail(p) \/ WalkParent(p) \/ WalkNext(p) \/ OpenFound(p) \/ Exists(p)
               \/ CreateNew(p) \/ Chdir(p) \/ Unlink(p) \/ UnlinkNotEmpty(p) \/ Link(p))
      PROVE  valid' = valid
  BY <1>5 DEF Step, Iput, Namex, Create, SysUnlink, SysLink, Begin, Close, End,
     WalkEnd, CreateExists, Created, UnlinkLook, UnlinkDone, LinkTo, LinkTaken,
     LinkBad, Refused, cacheVars
<1> QED BY <1>1, <1>3, <1>4, <1>5

-----------------------------------------------------------------------------
(***************************************************************************)
(* Where the system starts, and starts again after a crash: with a volume  *)
(* that has nothing left to do, and everybody in the root directory.       *)
(***************************************************************************)
Fresh ==
    /\ durable \in VolumeType /\ session \in Sessions
    /\ RightLinks(durable, NoneLeft)
    /\ Volume = durable
    /\ ref   = [i \in Inodes |-> IF i = Root THEN Cardinality(Procs) ELSE 0]
    /\ valid = [i \in Inodes |-> FALSE]
    /\ lock  = [i \in Inodes |-> NoProc]
    /\ cwd   = [p \in Procs |-> Root]
    /\ open  = [p \in Procs |-> NoInode]
    /\ act   = [p \in Procs |-> Idle]

\* At such a start the invariant holds.
LEMMA FreshHolds == Fresh => NamesIInv
<1> SUFFICES ASSUME Fresh PROVE NamesIInv
  OBVIOUS
<1>1. /\ NoProc \notin Procs /\ NoInode \notin Inodes /\ Root \in Inodes
      /\ IsFiniteSet(Procs)
  BY NamespaceAssumption
<1>2. Cardinality(Procs) \in Nat
  BY <1>1, FS_CardinalityType
<1>3. TypeOK
  BY <1>1, <1>2, IdleType DEF Fresh, TypeOK, Some
<1>4. /\ \A p \in Procs : act[p] = Idle /\ cwd[p] = Root /\ open[p] = NoInode
      /\ Idle.at = "user" /\ Idle.call = "none" /\ Idle.ip = NoInode /\ Idle.dp = NoInode
      /\ Idle.src = NoInode /\ Idle.puts = <<>> /\ Idle.half = FALSE
  BY DEF Fresh, Idle
<1>5. ShapeInv
  BY <1>4 DEF ShapeInv, Shape
<1>6. RefInv
  <2> SUFFICES ASSUME NEW i \in Inodes PROVE ref[i] = Cardinality(Users(i))
    BY DEF RefInv
  <2>1. \A p \in Procs, r \in Roles :
           Held(p)[r] = IF r = "cwd" THEN Root ELSE NoInode
    BY <1>4, NthOf DEF Held, Roles
  <2>2. CASE i = Root
    <3>1. \A x : x \in Users(i) <=> x \in Procs \X {"cwd"}
      BY <1>1, <2>1, <2>2 DEF Users, Roles
    <3>2. Users(i) = Procs \X {"cwd"}
      BY <3>1 DEF Users
    <3>3. IsFiniteSet({"cwd"}) /\ Cardinality({"cwd"}) = 1
      BY FS_Singleton
    <3>4. Cardinality(Procs \X {"cwd"}) = Cardinality(Procs) * 1
      BY <1>1, <3>3, FS_Product
    <3> QED BY <1>2, <2>2, <3>2, <3>4 DEF Fresh
  <2>3. CASE i # Root
    <3>1. Users(i) = {}
      BY <1>1, <2>1, <2>3 DEF Users
    <3> QED BY <2>3, <3>1, FS_EmptySet DEF Fresh
  <2> QED BY <2>2, <2>3
<1>7. type[Root] = "dir"
  BY DEF Fresh, RightLinks, Sound, Volume
<1>8. UsedStays
  BY <1>4, <1>7 DEF UsedStays
<1>9. EntryStays
  BY <1>4 DEF EntryStays
<1>10. LockInv
  BY <1>1, <1>4 DEF LockInv, Fresh
<1>11. LinkInv
  <2>1. \A i \in Inodes : InFlight(i) = {}
    BY <1>1, <1>4 DEF InFlight
  <2>2. Pending = NoneLeft
    BY <2>1 DEF Pending, NoneLeft
  <2> QED BY <2>2 DEF LinkInv, Fresh
<1> QED BY <1>3, <1>5, <1>6, <1>8, <1>9, <1>10, <1>11 DEF NamesIInv

\* What mkfs makes is such a volume.
LEMMA InitFresh == Init => Fresh
<1> SUFFICES ASSUME Init PROVE Fresh
  OBVIOUS
<1>1. NoInode \notin Inodes /\ Root \in Inodes
  BY NamespaceAssumption
<1>2. durable \in VolumeType
  BY <1>1 DEF Init, Volume, VolumeType, Types, Some, NoEnts
<1>3. /\ durable.type = [i \in Inodes |-> IF i = Root THEN "dir" ELSE "free"]
      /\ durable.nlink = [i \in Inodes |-> IF i = Root THEN 1 ELSE 0]
      /\ durable.ents = [i \in Inodes |-> NoEnts]
      /\ durable.up = [i \in Inodes |-> IF i = Root THEN Root ELSE NoInode]
  BY DEF Init, Volume
<1>4. \A i \in Inodes : Named(durable, i) = {}
  BY <1>1, <1>3 DEF Named, NoEnts
<1>5. Sound(durable)
  BY <1>1, <1>3, <1>4 DEF Sound
<1>6. RemovedEmpty(durable)
  BY <1>3 DEF RemovedEmpty
<1>7. Counted(durable, NoneLeft)
  <2>1. Subdirs(durable, Root) = {}
    BY <1>4 DEF Subdirs
  <2>2. Links(durable, Root) = 1 /\ Cardinality(NoneLeft[Root]) = 0
    BY <1>1, <1>4, <2>1, FS_EmptySet DEF Links, NoneLeft
  <2> QED BY <1>1, <1>3, <2>2 DEF Counted
<1> QED BY <1>2, <1>5, <1>6, <1>7 DEF Init, Fresh, RightLinks

\* The log commits when no call is in progress: no link is on its way then.
LEMMA DurableStep ==
    ASSUME NamesIInv, RecoversConsistent, durable \in VolumeType,
           NEW p \in Procs, Step(p)
    PROVE  RecoversConsistent' /\ durable' \in VolumeType
<1>1. CASE durable' = durable
  BY <1>1 DEF RecoversConsistent
<1>2. CASE End(p) /\ Others(p) = {}
  <2>1. durable' = Volume
    BY <1>2 DEF End
  <2>2. \A i \in Inodes : InFlight(i) = {}
    <3> SUFFICES ASSUME NEW i \in Inodes, NEW q \in Procs,
                        (act[q].at = "unlinked" /\ act[q].ip = i) \/ act[q].src = i
                 PROVE  FALSE
      BY DEF InFlight
    <3>1. act[q].at \in {"user", "end"}
      BY <1>2 DEF End, At, Others
    <3>2. act[q].src = NoInode
      BY <3>1 DEF NamesIInv, ShapeInv, Shape
    <3> QED BY <3>1, <3>2, NamespaceAssumption
  <2>3. Pending = NoneLeft
    BY <2>2 DEF Pending, NoneLeft
  <2>4. RightLinks(durable', NoneLeft)
    BY <2>1, <2>3 DEF NamesIInv, LinkInv
  <2>5. Volume \in VolumeType
    BY DEF NamesIInv, TypeOK
  <2> QED BY <2>1, <2>4, <2>5 DEF RecoversConsistent
<1>3. ASSUME ~End(p) PROVE durable' = durable
  BY <1>3 DEF Step, Iput, Namex, Create, SysUnlink, SysLink, Begin, Close, IputLocked,
     IputRef, WalkFail, WalkParent, WalkNext, WalkEnd, CreateExists, CreateNew, CreateAs,
     Exists, Created, OpenFound, Chdir, UnlinkLook, Unlink, UnlinkNotEmpty, UnlinkDone,
     Link, LinkTo, LinkTaken, LinkBad, Refused
<1>4. ASSUME End(p), Others(p) # {} PROVE durable' = durable
  BY <1>4 DEF End
<1> QED BY <1>1, <1>2, <1>3, <1>4

-----------------------------------------------------------------------------
\* The same after a crash.
LEMMA FreshAgain == Fresh' => NamesIInv'
BY FreshHolds, PTL

\* The two invariants are inductive together: a crash goes back to what is durable,
\* and what becomes durable is the volume between two calls.
LEMMA NamesStep ==
    ASSUME NamesIInv, RecoversConsistent, [Next]_vars
    PROVE  NamesIInv' /\ RecoversConsistent'
<1>1. /\ TypeOK /\ ShapeInv /\ RefInv /\ UsedStays /\ EntryStays /\ LockInv /\ LinkInv
      /\ durable \in VolumeType /\ session \in Sessions /\ CallsTyped
  BY TypeParts DEF NamesIInv
<1>2. CASE \E p \in Procs : Step(p)
  <2>1. PICK p \in Procs : Step(p)
    BY <1>2
  <2>2. CallsTyped' /\ ShapeInv' /\ RefInv' /\ LockInv' /\ UsedStays' /\ EntryStays'
    BY <1>1, <2>1, CallsTypedStep, ShapeStep, RefStep, LockStep, UsedStep, EntryStep
  <2>3. LinkInv' /\ FilesTyped'
    BY <2>1, VolumeStep
  <2>4. CacheTyped'
    BY <1>1, <2>1, RefStep, LockStep, ValidStep DEF CacheTyped
  <2>5. RecoversConsistent' /\ durable' \in VolumeType
    BY <1>1, <2>1, DurableStep
  <2>6. session' \in Sessions
    BY <1>1, <2>1, OthersStay
  <2>7. TypeOK'
    BY <2>2, <2>3, <2>4, <2>5, <2>6
       DEF TypeOK, FilesTyped, CacheTyped, CallsTyped, VolumeType, Volume
  <2> QED BY <2>2, <2>3, <2>5, <2>7 DEF NamesIInv
<1>3. CASE Crash
  <2>1. Volume' = durable
    BY <1>1, <1>3 DEF Crash, Volume, VolumeType
  <2>2. RecoversConsistent'
    BY <1>3 DEF Crash, RecoversConsistent
  <2>3. Fresh'
    BY <1>1, <1>3, <2>1, <2>2 DEF Crash, Fresh, RecoversConsistent
  <2> QED BY <2>2, <2>3, FreshAgain
<1>4. CASE UNCHANGED vars
  <2>1. /\ type' = type /\ nlink' = nlink /\ ents' = ents /\ up' = up /\ stray' = stray
        /\ durable' = durable /\ ref' = ref /\ valid' = valid /\ lock' = lock
        /\ cwd' = cwd /\ open' = open /\ act' = act /\ session' = session
    BY <1>4 DEF vars, fsVars, cacheVars, ofileVars
  <2>2. Volume' = Volume /\ Pending' = Pending
    BY <2>1 DEF Volume, Pending, InFlight
  <2>3. TypeOK'
    BY <1>1, <2>1, <2>2 DEF TypeOK
  <2>4. ShapeInv' /\ UsedStays' /\ LockInv'
    BY <1>1, <2>1 DEF ShapeInv, UsedStays, LockInv
  <2>5. EntryStays'
    BY <1>1, <2>1 DEF EntryStays, Last
  <2>6. RefInv'
    <3>1. \A i : Users(i)' = Users(i)
      BY <2>1 DEF Users, Held
    <3> QED BY <1>1, <2>1, <3>1 DEF RefInv
  <2>7. LinkInv' /\ RecoversConsistent'
    BY <1>1, <2>1, <2>2 DEF LinkInv, RecoversConsistent
  <2> QED BY <2>3, <2>4, <2>5, <2>6, <2>7 DEF NamesIInv
<1> QED BY <1>2, <1>3, <1>4 DEF Next

\* So both hold in every behaviour.
LEMMA NamesBoth == Spec => [](NamesIInv /\ RecoversConsistent)
<1>1. Init => NamesIInv /\ RecoversConsistent
  BY InitFresh, FreshHolds DEF Fresh, RecoversConsistent
<1> QED BY <1>1, NamesStep, PTL DEF Spec

\* The inode cache counts every pointer there is to an inode, no inode in use is
\* freed, no entry leads to a free inode, and a link count is the number of names.
THEOREM NamesInvariant == Spec => []NamesIInv
BY NamesBoth, PTL

\* What the log has committed has right link counts and nothing left to do, at
\* every moment a crash can come.
THEOREM RecoversConsistentHolds == Spec => []RecoversConsistent
BY NamesBoth, PTL

-----------------------------------------------------------------------------
(***************************************************************************)
(* The calls keep the promises of NameTree.                                *)
(***************************************************************************)
Saved == [kind |-> durable.type, names |-> durable.ents]

\* The operators of NameTree on these variables.
LEMMA TreeOps ==
    /\ Tree!TEmpty = NoEnts
    /\ \A i : Tree!TNamed(i) <=> Named(Volume, i) # {}
    /\ Tree!tvars = <<type, ents, Saved>>
<1>1. \A i : Tree!TNamed(i) <=> Named(Volume, i) # {}
  <2> TAKE i
  <2>0. Volume.ents = ents
    BY DEF Volume
  <2>1. ASSUME NEW d \in Inodes, NEW n \in Names, ents[d][n] = i
        PROVE  <<d, n>> \in Named(Volume, i)
    BY <2>0, <2>1 DEF Named
  <2>2. ASSUME NEW x \in Named(Volume, i)
        PROVE  x[1] \in Inodes /\ x[2] \in Names /\ ents[x[1]][x[2]] = i
    BY <2>0 DEF Named
  <2> QED BY <2>1, <2>2 DEF Tree!TNamed
<1> QED BY <1>1 DEF Tree!TEmpty, NoEnts, Tree!tvars, Saved

\* Every step of a call is one of the steps NameTree allows, or changes no name.
LEMMA TreeStep ==
    ASSUME NamesIInv, NEW p \in Procs, Step(p)
    PROVE  [Tree!TNext]_(Tree!tvars)
<1>1. /\ TypeOK /\ ShapeInv /\ UsedStays /\ EntryStays /\ LockInv /\ LinkInv
      /\ CallsTyped /\ type \in [Inodes -> Types] /\ ents \in [Inodes -> [Names -> Some]]
      /\ NoInode \notin Inodes
  BY TypeParts, NamespaceAssumption DEF NamesIInv, FilesTyped
<1>2. /\ act \in [Procs -> CallType] /\ act[p] \in CallType /\ Shape(act[p])
      /\ act[p].ip \in Some /\ act[p].dp \in Some /\ act[p].src \in Some
  BY <1>1 DEF CallsTyped, CallType, ShapeInv
<1>3. \A i \in Some : i # NoInode => i \in Inodes
  BY DEF Some
<1>4. ASSUME UNCHANGED <<type, ents, durable>> PROVE [Tree!TNext]_(Tree!tvars)
  <2>1. Saved' = Saved
    BY <1>4 DEF Saved
  <2> QED BY <1>4, <2>1, TreeOps DEF Tree!tvars, Saved
<1>5. ASSUME durable' = durable PROVE Saved' = Saved
  BY <1>5 DEF Saved
<1>a. CASE IputLocked(p)
  <2> DEFINE i == Head(act[p].puts)
  <2>1. durable' = durable
    BY <1>a DEF IputLocked
  <2>2. CASE ~LastUser(i)
    BY <1>4, <1>a, <2>1, <2>2 DEF IputLocked
  <2>3. CASE LastUser(i)
    <3>1. i \in Inodes
      BY <1>2, <1>a, HeadAndTail DEF IputLocked, CallType
    <3>2. /\ type' = [type EXCEPT ![i] = "free"] /\ ents' = [ents EXCEPT ![i] = NoEnts]
          /\ nlink[i] = 0
      BY <1>a, <2>3 DEF IputLocked, LastUser
    <3> HIDE DEF i
    <3>3. CASE type[i] = "free"
      <4>1. ents[i] = NoEnts
        BY <1>1, <3>1, <3>3 DEF LinkInv, RightLinks, Sound, Volume
      <4>2. type' = type /\ ents' = ents
        BY <1>1, <3>1, <3>2, <3>3, <4>1
      <4> QED BY <1>4, <2>1, <4>2
    <3>4. CASE type[i] # "free"
      <4>1. Volume.type = type /\ Volume.nlink = nlink
        BY DEF Volume
      <4>2. i # Root /\ Named(Volume, i) = {}
        BY <1>1, <3>1, <3>2, <3>4, <4>1, NoLinks, PendingIsFlights DEF LinkInv
      <4>3. Tree!TFree(i)
        BY <1>5, <2>1, <3>2, <3>4, <4>2, TreeOps DEF Tree!TFree, Saved
      <4> QED BY <3>1, <4>3 DEF Tree!TNext
    <3> QED BY <3>3, <3>4
  <2> QED BY <2>2, <2>3
<1>b. CASE CreateNew(p)
  <2>1. PICK i \in Inodes : CreateAs(p, i)
    BY <1>b DEF CreateNew
  <2> DEFINE d == act[p].dp
             n == Last(p)
  <2>2. /\ act[p].at = "parent" /\ Ilock(d) /\ Lookup(d, n) = NoInode
        /\ type[i] = "free" /\ durable' = durable
        /\ type' = [type EXCEPT ![i] = Makes(act[p].call)]
        /\ ents' = [ents EXCEPT ![d][n] = i]
        /\ Makes(act[p].call) \in {"file", "dir", "dev"}
    BY <2>1 DEF CreateAs, Creates, At, Makes
  <2>3. d \in Inodes /\ n \in Names /\ type[d] = "dir" /\ ents[d][n] = NoInode
    BY <2>2, NoEntry
  <2> HIDE DEF d, n
  <2>4. Tree!TCreate(d, n, i)
    BY <1>5, <2>2, <2>3 DEF Tree!TCreate, Saved
  <2> QED BY <2>1, <2>3, <2>4 DEF Tree!TNext
<1>c. CASE LinkTo(p)
  <2> DEFINE d == act[p].dp
             n == Last(p)
             s == act[p].src
  <2>1. /\ act[p].at = "parent" /\ act[p].call = "linkto" /\ Ilock(d)
        /\ Lookup(d, n) = NoInode /\ durable' = durable /\ type' = type
        /\ ents' = [ents EXCEPT ![d][n] = s]
    BY <1>c DEF LinkTo, At
  <2>2. s \in Inodes
    BY <1>2, <1>3, <2>1 DEF Shape
  <2>3. type[s] \in {"file", "dev"}
    BY <1>1, <2>2 DEF UsedStays
  <2>4. d \in Inodes /\ n \in Names /\ type[d] = "dir" /\ ents[d][n] = NoInode
    BY <2>1, NoEntry
  <2> HIDE DEF d, n, s
  <2>5. Tree!TLink(d, n, s)
    BY <1>5, <2>1, <2>3, <2>4 DEF Tree!TLink, Saved
  <2> QED BY <2>2, <2>4, <2>5 DEF Tree!TNext
<1>d. CASE Unlink(p)
  <2> DEFINE d == act[p].dp
             n == Last(p)
             i == act[p].ip
  <2>1. /\ act[p].at = "unlink" /\ Empty(i) /\ durable' = durable /\ type' = type
        /\ ents' = [ents EXCEPT ![d][n] = NoInode]
    BY <1>d DEF Unlink, At
  <2>2. d \in Inodes /\ i \in Inodes
    BY <1>2, <1>3, <2>1 DEF Shape
  <2>3. n \in Names /\ ents[d][n] = i
    BY <1>1, <2>1 DEF EntryStays
  <2> HIDE DEF d, n, i
  <2>4. Tree!TRemove(d, n)
    BY <1>1, <1>5, <2>1, <2>2, <2>3, TreeOps DEF Tree!TRemove, Empty, Saved
  <2> QED BY <2>2, <2>3, <2>4 DEF Tree!TNext
<1>e. CASE End(p)
  <2>1. type' = type /\ ents' = ents
    BY <1>e DEF End, fsVars
  <2>2. CASE durable' = durable
    BY <1>4, <2>1, <2>2
  <2>3. CASE durable' = Volume
    <3>1. Saved' = [kind |-> type, names |-> ents]
      BY <2>3 DEF Saved, Volume
    <3>2. Tree!TSave
      BY <2>1, <3>1 DEF Tree!TSave, Saved
    <3> QED BY <3>2 DEF Tree!TNext
  <2> QED BY <1>e, <2>2, <2>3 DEF End
<1>f. ASSUME ~IputLocked(p), ~CreateNew(p), ~LinkTo(p), ~Unlink(p), ~End(p)
      PROVE  UNCHANGED <<type, ents, durable>>
  BY <1>f DEF Step, Iput, Namex, Create, SysUnlink, SysLink, Begin, Close, IputRef,
     WalkFail, WalkParent, WalkNext, WalkEnd, CreateExists, Exists, Created, OpenFound,
     Chdir, UnlinkLook, UnlinkNotEmpty, UnlinkDone, Link, LinkTaken, LinkBad, Refused,
     fsVars
<1> QED BY <1>4, <1>a, <1>b, <1>c, <1>d, <1>e, <1>f

\* Names come and go one at a time, for inodes that exist, a directory goes empty,
\* and a crash brings back the names of an earlier moment: the calls implement
\* NameTree.
THEOREM NamesImplementTree == Spec => TreeSpec
<1>1. Init => Tree!TInit
  <2>1. Init => Saved = [kind |-> type, names |-> ents]
    BY DEF Init, Saved, Volume
  <2> QED BY <2>1, TreeOps DEF Init, Tree!TInit, Saved
<1>2. NamesIInv /\ [Next]_vars => [Tree!TNext]_(Tree!tvars)
  <2> SUFFICES ASSUME NamesIInv, [Next]_vars PROVE [Tree!TNext]_(Tree!tvars)
    OBVIOUS
  <2>1. CASE \E p \in Procs : Step(p)
    BY <2>1, TreeStep
  <2>2. CASE Crash
    <3>1. Tree!TCrash
      BY <2>2 DEF Crash, Tree!TCrash
    <3> QED BY <3>1 DEF Tree!TNext
  <2>3. CASE UNCHANGED vars
    <3>1. type' = type /\ ents' = ents /\ durable' = durable
      BY <2>3 DEF vars, fsVars
    <3> QED BY <3>1 DEF Tree!tvars
  <2> QED BY <2>1, <2>2, <2>3 DEF Next
<1> QED BY <1>1, <1>2, NamesInvariant, PTL DEF Spec, TreeSpec, Tree!TSpec
=============================================================================
