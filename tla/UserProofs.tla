----------------------------- MODULE UserProofs -----------------------------
(***************************************************************************)
(* Proofs about the programs on top of the system: the allocator of the    *)
(* user library (Umalloc), the shell wish (Wish), wzip and wunzip (Zip)    *)
(* and grep (Grep).                                                        *)
(***************************************************************************)
EXTENDS Umalloc, Wish, Zip, Grep, FiniteSetTheorems, SequenceTheorems, WellFoundedInduction,
    TLAPS

\* Numbers have a least one among them.
LEMMA LeastIn ==
    ASSUME NEW S, S \subseteq Nat, S # {}
    PROVE  Min(S) \in S /\ \A y \in S : Min(S) <= y
<1>1. IsWellFoundedOn(OpToRel(<, Nat), Nat)
  BY NatLessThanWellFounded
<1>2. PICK x \in S : \A y \in S : ~ (<<y, x>> \in OpToRel(<, Nat))
  BY <1>1, WFMin
<1>3. \A y \in S : ~ (y < x)
  BY <1>2 DEF OpToRel
<1>4. \E z \in S : \A y \in S : z <= y
  BY <1>3
<1> QED BY <1>4 DEF Min

\* ... and a greatest one, when they are bounded.
LEMMA GreatestIn ==
    ASSUME NEW m \in Nat, NEW S, S \subseteq 0 .. m, S # {}
    PROVE  \E x \in S : \A y \in S : y <= x
<1> DEFINE T == {k \in 0 .. m : m - k \in S}
<1>1. T \subseteq Nat /\ T # {}
  <2>1. PICK s \in S : TRUE
    OBVIOUS
  <2>2. s \in 0 .. m /\ m - s \in 0 .. m /\ m - (m - s) = s
    BY <2>1
  <2> QED BY <2>1, <2>2
<1>2. PICK k \in T : \A y \in T : k <= y
  <2> HIDE DEF T
  <2> QED BY <1>1, LeastIn
<1>3. m - k \in S
  BY <1>2
<1>4. ASSUME NEW y \in S PROVE y <= m - k
  <2>1. y \in 0 .. m /\ m - y \in 0 .. m /\ m - (m - y) = y
    OBVIOUS
  <2>2. m - y \in T
    BY <2>1
  <2> QED BY <1>2, <2>1, <2>2
<1> QED BY <1>3, <1>4

-----------------------------------------------------------------------------
(***************************************************************************)
(* The shell wish.  A process has at most the children that it will still  *)
(* wait for, which is inductive: "none at the prompt" alone is not.        *)
(***************************************************************************)
LEMMA TaskFacts ==
    /\ Shell \in Tasks /\ InitTask \notin Tasks
    /\ Unused \subseteq Tasks
    /\ Unused # {} => Min(Unused) \in Tasks /\ at[Min(Unused)] = "free"
<1>1. Tasks \subseteq Nat /\ Tasks # {} /\ InitTask \notin Tasks
  BY WishAssumption DEF InitTask
<1>2. Unused \subseteq Tasks
  BY DEF Unused
<1>3. Unused # {} => Min(Unused) \in Unused
  BY <1>1, <1>2, LeastIn
<1> QED BY <1>1, <1>2, <1>3, LeastIn DEF Shell, Unused

Places == {"free", "prompt", "gone", "split", "run", "program", "wait", "wait again",
           "exit", "zombie"}

WTypes ==
    /\ at \in [Tasks -> Places]
    /\ mother \in [Tasks -> Tasks \cup {InitTask}]
    /\ line \in [Tasks -> Typed \cup {<<>>}]
    /\ cmd \in [Tasks -> Nat]
    /\ \A t \in Tasks : at[t] = "split" => cmd[t] >= 1 /\ cmd[t] <= Len(line[t])

\* The children that a process at x still waits for, at most.
Awaits(x) == IF x = "wait" THEN 2 ELSE IF x \in {"run", "wait again"} THEN 1 ELSE 0

Raised(t) == Cardinality(Children(t)) <= Awaits(at[t])

WInductive == WTypes /\ \A t \in Tasks : Raised(t)

LEMMA ChildrenFinite ==
    \A t : IsFiniteSet(Children(t)) /\ Cardinality(Children(t)) \in Nat
<1>1. \A t : Children(t) \in SUBSET Tasks
  BY DEF Children
<1> QED BY <1>1, WishAssumption, FS_Subset, FS_CardinalityType

LEMMA ChildrenFiniteNext ==
    \A t : IsFiniteSet(Children(t)') /\ Cardinality(Children(t)') \in Nat
<1>1. \A t : Children(t)' \in SUBSET Tasks
  BY DEF Children
<1> QED BY <1>1, WishAssumption, FS_Subset, FS_CardinalityType

LEMMA LineLength ==
    ASSUME WTypes
    PROVE  /\ \A t \in Tasks : Len(line[t]) \in Nat /\ DOMAIN line[t] = 1 .. Len(line[t])
           /\ \A l \in Typed : Len(l) \in Nat /\ Len(l) >= 1
<1> DEFINE T == Seq(STRING)
<1>1. /\ Typed \subseteq Seq(T)
      /\ \A l \in Typed : Len(l) > 0
  BY WishAssumption
<1> HIDE DEF T
<1>2. \A t \in Tasks : line[t] \in Seq(T)
  <2>1. <<>> \in Seq(T)
    OBVIOUS
  <2> QED BY <1>1, <2>1 DEF WTypes
<1> QED BY <1>1, <1>2

LEMMA ImpliesWish ==
    ASSUME WInductive
    PROVE  WishIInv
<1>1. WTypeOK
  <2>1. WTypes
    BY DEF WInductive
  <2>2. \A t \in Tasks : at[t] = "split" => cmd[t] \in DOMAIN line[t]
    BY <2>1, LineLength DEF WTypes
  <2> QED BY <2>1, <2>2 DEF WTypes, WTypeOK, Places
<1>2. ASSUME NEW t \in Tasks
      PROVE  /\ at[t] \in {"prompt", "exit"} => Children(t) = {}
             /\ Cardinality(Children(t)) <= 2
  <2>1. Cardinality(Children(t)) \in Nat /\ Cardinality(Children(t)) <= Awaits(at[t])
    BY ChildrenFinite DEF WInductive, Raised
  <2>2. at[t] \in {"prompt", "exit"} => Cardinality(Children(t)) = 0
    <3>1. at[t] \in {"prompt", "exit"} => Awaits(at[t]) = 0
      BY DEF Awaits
    <3> QED BY <2>1, <3>1
  <2>3. Awaits(at[t]) <= 2
    BY DEF Awaits
  <2>4. Cardinality(Children(t)) = 0 => Children(t) = {}
    BY ChildrenFinite, FS_EmptySet
  <2>5. Awaits(at[t]) \in Nat
    BY DEF Awaits
  <2> HIDE DEF Awaits
  <2> QED BY <2>1, <2>2, <2>3, <2>4, <2>5
<1> QED BY <1>1, <1>2 DEF WishIInv, PromptAfterAll, TwoChildren

-----------------------------------------------------------------------------
\* How the children of the processes change.
Living == {t \in Tasks : at[t] # "free"}

LEMMA SameChildren ==
    ASSUME mother' = mother, Living' = Living
    PROVE  \A u : Children(u)' = Children(u)
BY DEF Children, Living

\* fork(): c is a new child of t.
LEMMA Born ==
    ASSUME WTypes, NEW t \in Tasks, at[t] # "free", NEW c \in Tasks, at[c] = "free",
           \A u \in Tasks : Raised(u),
           mother' = [mother EXCEPT ![c] = t], Living' = Living \cup {c}
    PROVE  /\ \A u \in Tasks : Cardinality(Children(u)')
                 <= IF u = t THEN Awaits(at[t]) + 1 ELSE Awaits(at[u])
<1>1. c # t /\ c \notin Children(t)
  BY DEF Children
<1>2. /\ Children(t)' = Children(t) \cup {c}
      /\ \A u \in Tasks \ {t} : Children(u)' = Children(u)
  BY <1>1 DEF Children, Living, WTypes
<1>3. Cardinality(Children(t) \cup {c}) = Cardinality(Children(t)) + 1
  BY <1>1, ChildrenFinite, FS_AddElement
<1>4. \A u \in Tasks : Cardinality(Children(u)) \in Nat /\ Cardinality(Children(u)) <= Awaits(at[u])
  BY ChildrenFinite DEF Raised
<1>5. \A u \in Tasks : Awaits(at[u]) \in Nat
  BY DEF Awaits
<1>6. Cardinality(Children(t)') <= Awaits(at[t]) + 1
  BY <1>2, <1>3, <1>4, <1>5
<1>7. \A u \in Tasks \ {t} : Cardinality(Children(u)') <= Awaits(at[u])
  BY <1>2, <1>4
<1> QED BY <1>6, <1>7

\* wait(): the child c of t is no more.
LEMMA Reaped ==
    ASSUME WTypes, NEW c \in Tasks, Children(c) = {},
           mother' = [mother EXCEPT ![c] = InitTask], Living' = Living \ {c}
    PROVE  \A u \in Tasks : /\ Cardinality(Children(u)') <= Cardinality(Children(u))
                            /\ c \in Children(u) =>
                                  Cardinality(Children(u)') <= Cardinality(Children(u)) - 1
<1> TAKE u \in Tasks
<1>1. Children(u)' = Children(u) \ {c}
  BY TaskFacts DEF Children, Living, WTypes
<1>2. Cardinality(Children(u) \ {c})
         = IF c \in Children(u) THEN Cardinality(Children(u)) - 1 ELSE Cardinality(Children(u))
  BY ChildrenFinite, FS_RemoveElement
<1> QED BY <1>1, <1>2, ChildrenFinite

\* exit(): init has the children of t.
LEMMA Orphaned ==
    ASSUME WTypes, NEW t \in Tasks, Living' = Living,
           mother' = [c \in Tasks |-> IF c \in Children(t) THEN InitTask ELSE mother[c]]
    PROVE  /\ Children(t)' = {}
           /\ \A u \in Tasks \ {t} : Children(u)' = Children(u)
BY TaskFacts DEF Children, Living

\* The bound for a process that goes on, and for the others.
LEMMA RaisedNext ==
    ASSUME WTypes, \A u \in Tasks : Raised(u), NEW t \in Tasks,
           \A u \in Tasks \ {t} : Awaits(at'[u]) = Awaits(at[u]) /\ Children(u)' = Children(u),
           \/ Children(t)' = {}
           \/ Children(t)' = Children(t) /\ Awaits(at[t]) <= Awaits(at'[t])
    PROVE  \A u \in Tasks : Raised(u)'
<1>1. \A x : Awaits(x) \in Nat
  BY DEF Awaits
<1>2. \A u \in Tasks : Cardinality(Children(u)) \in Nat /\ Cardinality(Children(u)) <= Awaits(at[u])
  BY ChildrenFinite DEF Raised
<1>3. \A u \in Tasks \ {t} : Cardinality(Children(u)') <= Awaits(at'[u])
  BY <1>2
<1>4. Cardinality(Children(t)') <= Awaits(at'[t])
  <2>1. CASE Children(t)' = {}
    BY <1>1, <2>1, FS_EmptySet
  <2>2. CASE Children(t)' = Children(t) /\ Awaits(at[t]) <= Awaits(at'[t])
    BY <1>1, <1>2, <2>2
  <2> QED BY <2>1, <2>2
<1> QED BY <1>3, <1>4 DEF Raised

LEMMA WishInit == WInit => WInductive
<1> SUFFICES ASSUME WInit PROVE WInductive
  OBVIOUS
<1>1. WTypes
  BY TaskFacts DEF WInit, WTypes, Places
<1>2. ASSUME NEW t \in Tasks PROVE Raised(t)
  <2>1. Children(t) = {}
    BY TaskFacts DEF WInit, Children
  <2>2. Awaits(at[t]) \in Nat
    BY DEF Awaits
  <2> QED BY <2>1, <2>2, FS_EmptySet DEF Raised
<1> QED BY <1>1, <1>2 DEF WInductive

\* Types, each action.
LEMMA WishTypes ==
    ASSUME WTypes, [WNext]_wvars
    PROVE  WTypes'
<1> USE TaskFacts
<1>1. CASE Prompt
  <2>1. PICK l \in Typed : line' = [line EXCEPT ![Shell] = l]
    BY <1>1 DEF Prompt
  <2>2. Len(l) \in Nat /\ Len(l) >= 1
    BY LineLength
  <2>3. /\ at' = [at EXCEPT ![Shell] = "split"] /\ cmd' = [cmd EXCEPT ![Shell] = 1]
        /\ mother' = mother
    BY <1>1 DEF Prompt
  <2>4. cmd'[Shell] = 1 /\ line'[Shell] = l
    BY <2>1, <2>3 DEF WTypes
  <2>5. \A u \in Tasks : at'[u] = "split" => cmd'[u] >= 1 /\ cmd'[u] <= Len(line'[u])
    BY <2>1, <2>2, <2>3, <2>4 DEF WTypes
  <2> QED BY <2>1, <2>3, <2>5 DEF WTypes, Places
<1>2. CASE EndOfInput
  BY <1>2 DEF EndOfInput, WTypes, Places
<1>3. ASSUME NEW t \in Tasks, SplitFork(t) PROVE WTypes'
  <2> DEFINE c == Min(Unused)
  <2>1. c \in Tasks /\ at[c] = "free" /\ at[t] = "split" /\ c # t
    BY <1>3 DEF SplitFork, Splits
  <2>2. /\ at' = [at EXCEPT ![t] = "run", ![c] = "split"]
        /\ mother' = [mother EXCEPT ![c] = t]
        /\ line' = [line EXCEPT ![c] = line[t]]
        /\ cmd' = [cmd EXCEPT ![c] = cmd[t] + 1]
        /\ cmd[t] < Len(line[t])
    BY <1>3 DEF SplitFork, Splits
  <2>3. Len(line[t]) \in Nat
    BY LineLength
  <2> HIDE DEF c
  <2>4. line'[c] = line[t] /\ cmd'[c] = cmd[t] + 1 /\ cmd[t] \in Nat
    BY <2>1, <2>2 DEF WTypes
  <2>5. \A u \in Tasks \ {c} : /\ line'[u] = line[u] /\ cmd'[u] = cmd[u]
                               /\ at'[u] = "split" => at[u] = "split"
    BY <2>1, <2>2 DEF WTypes
  <2>6. \A u \in Tasks : at'[u] = "split" => cmd'[u] >= 1 /\ cmd'[u] <= Len(line'[u])
    BY <2>2, <2>3, <2>4, <2>5 DEF WTypes
  <2>7. at' \in [Tasks -> Places] /\ mother' \in [Tasks -> Tasks \cup {InitTask}]
    BY <2>1, <2>2 DEF WTypes, Places
  <2>8. line' \in [Tasks -> Typed \cup {<<>>}] /\ cmd' \in [Tasks -> Nat]
    BY <2>1, <2>2, <2>4 DEF WTypes
  <2> QED BY <2>6, <2>7, <2>8 DEF WTypes
<1>4. ASSUME NEW t \in Tasks, SplitFail(t) \/ SplitLast(t) PROVE WTypes'
  BY <1>4 DEF SplitFail, SplitLast, RunsIt, WTypes, Places
<1>5. ASSUME NEW t \in Tasks, Builtin(t) \/ Cleanup(t) PROVE WTypes'
  <2>1. /\ at' = [at EXCEPT ![t] = IF t = Shell THEN "gone" ELSE "zombie"]
        /\ mother' = [c \in Tasks |-> IF c \in Children(t) THEN InitTask ELSE mother[c]]
        /\ at[t] # "split"
    BY <1>5 DEF Builtin, Cleanup, Gone
  <2>2. \/ line' = line /\ cmd' = cmd
        \/ line' = [line EXCEPT ![t] = <<>>] /\ cmd' = [cmd EXCEPT ![t] = 0]
    BY <1>5 DEF Builtin, Cleanup, Spent
  <2>3. /\ at' \in [Tasks -> Places] /\ mother' \in [Tasks -> Tasks \cup {InitTask}]
        /\ line' \in [Tasks -> Typed \cup {<<>>}] /\ cmd' \in [Tasks -> Nat]
    <3>1. at' \in [Tasks -> Places]
      BY <2>1 DEF WTypes, Places
    <3>2. mother' \in [Tasks -> Tasks \cup {InitTask}]
      BY <2>1 DEF WTypes
    <3>3. line' \in [Tasks -> Typed \cup {<<>>}] /\ cmd' \in [Tasks -> Nat]
      BY <2>2 DEF WTypes
    <3> QED BY <3>1, <3>2, <3>3
  <2>4. \A u \in Tasks : at'[u] = "split" => u # t /\ at[u] = "split"
    BY <2>1 DEF WTypes
  <2>5. \A u \in Tasks : at'[u] = "split" => line'[u] = line[u] /\ cmd'[u] = cmd[u]
    BY <2>2, <2>4 DEF WTypes
  <2> QED BY <2>3, <2>4, <2>5 DEF WTypes
<1>6. ASSUME NEW t \in Tasks, Execute(t) PROVE WTypes'
  <2> DEFINE c == Min(Unused)
  <2>1. c \in Tasks /\ at[c] = "free" /\ at[t] = "run" /\ c # t
    BY <1>6 DEF Execute
  <2>2. PICK what \in {"program", "wait"} : at' = [at EXCEPT ![t] = "wait", ![c] = what]
    BY <1>6 DEF Execute
  <2>3. mother' = [mother EXCEPT ![c] = t]
    BY <1>6 DEF Execute
  <2>4. line' = [line EXCEPT ![t] = <<>>] /\ cmd' = [cmd EXCEPT ![t] = 0]
    BY <1>6 DEF Execute, Spent
  <2> HIDE DEF c
  <2>5. at' \in [Tasks -> Places] /\ mother' \in [Tasks -> Tasks \cup {InitTask}]
    BY <2>1, <2>2, <2>3 DEF WTypes, Places
  <2>6. \A u \in Tasks : at'[u] = "split" => at[u] = "split" /\ u # t
    BY <2>1, <2>2 DEF WTypes
  <2>7. line' \in [Tasks -> Typed \cup {<<>>}] /\ cmd' \in [Tasks -> Nat]
    BY <2>4 DEF WTypes
  <2>8. \A u \in Tasks : u # t => line'[u] = line[u] /\ cmd'[u] = cmd[u]
    BY <2>4 DEF WTypes
  <2> QED BY <2>5, <2>6, <2>7, <2>8 DEF WTypes
<1>7. ASSUME NEW t \in Tasks, ExecuteFail(t) PROVE WTypes'
  BY <1>7 DEF ExecuteFail, Spent, WTypes, Places
<1>8. ASSUME NEW t \in Tasks, ProgramEnds(t) PROVE WTypes'
  BY <1>8 DEF ProgramEnds, WTypes, Places
<1>9. ASSUME NEW t \in Tasks, Wait(t) PROVE WTypes'
  <2> DEFINE next == IF at[t] = "wait" THEN AfterWait(t) ELSE IF t = Shell THEN "prompt" ELSE "exit"
  <2>1. next \in Places /\ "free" \in Places /\ next # "split"
    BY DEF AfterWait, Places
  <2>2. line' = line /\ cmd' = cmd
    BY <1>9 DEF Wait
  <2>3. \/ \E c \in Tasks : /\ at' = [at EXCEPT ![c] = "free", ![t] = next]
                            /\ mother' = [mother EXCEPT ![c] = InitTask]
        \/ at' = [at EXCEPT ![t] = next] /\ mother' = mother
    BY <1>9 DEF Wait, Zombies, Children
  <2> HIDE DEF next
  <2>4. at' \in [Tasks -> Places]
    BY <2>1, <2>3 DEF WTypes
  <2>6. mother' \in [Tasks -> Tasks \cup {InitTask}]
    BY <2>3 DEF WTypes
  <2>5. \A u \in Tasks : at'[u] = "split" => at[u] = "split"
    BY <2>1, <2>3 DEF WTypes
  <2> QED BY <2>2, <2>4, <2>5, <2>6 DEF WTypes
<1>10. ASSUME NEW t \in Tasks, InitWaits(t) PROVE WTypes'
  BY <1>10 DEF InitWaits, WTypes, Places
<1>11. CASE UNCHANGED wvars
  BY <1>11 DEF wvars, WTypes
<1> QED BY <1>1, <1>2, <1>3, <1>4, <1>5, <1>6, <1>7, <1>8, <1>9, <1>10, <1>11 DEF WNext

-----------------------------------------------------------------------------
\* The bound on the children, each action.
LEMMA Awaiting ==
    /\ \A x : Awaits(x) \in Nat
    /\ \A x : x \notin {"run", "wait", "wait again"} => Awaits(x) = 0
BY DEF Awaits

LEMMA WishRaised ==
    ASSUME WInductive, [WNext]_wvars
    PROVE  \A u \in Tasks : Raised(u)'
<1> USE TaskFacts
<1>0. /\ WTypes /\ \A u \in Tasks : Raised(u)
      /\ \A u \in Tasks : /\ Cardinality(Children(u)) \in Nat
                          /\ Cardinality(Children(u)) <= Awaits(at[u])
  BY ChildrenFinite DEF WInductive, Raised
\* A process goes on, and the children stay.
<1>1. ASSUME NEW t \in Tasks, mother' = mother,
             NEW x, at' = [at EXCEPT ![t] = x], x # "free", at[t] # "free",
             Awaits(at[t]) <= Awaits(x)
      PROVE  \A u \in Tasks : Raised(u)'
  <2>1. Living' = Living
    BY <1>0, <1>1 DEF Living, WTypes
  <2>2. \A u : Children(u)' = Children(u)
    BY <1>1, <2>1, SameChildren
  <2>3. at'[t] = x /\ \A u \in Tasks \ {t} : at'[u] = at[u]
    BY <1>0, <1>1 DEF WTypes
  <2> QED BY <1>0, <1>1, <2>2, <2>3, RaisedNext
\* fork().
<1>2. ASSUME NEW t \in Tasks, NEW c \in Tasks, at[c] = "free", NEW x, NEW y,
             at[t] # "free", x # "free", y # "free",
             mother' = [mother EXCEPT ![c] = t],
             at' = [at EXCEPT ![t] = x, ![c] = y],
             Awaits(at[t]) + 1 <= Awaits(x)
      PROVE  \A u \in Tasks : Raised(u)'
  <2>1. c # t /\ at'[t] = x /\ at'[c] = y /\ \A u \in Tasks \ {t, c} : at'[u] = at[u]
    BY <1>0, <1>2 DEF WTypes
  <2>2. Living' = Living \cup {c}
    BY <1>2, <2>1 DEF Living
  <2>3. \A u \in Tasks : Cardinality(Children(u)')
           <= IF u = t THEN Awaits(at[t]) + 1 ELSE Awaits(at[u])
    BY <1>0, <1>2, <2>2, Born
  <2>4. \A u : Cardinality(Children(u)') \in Nat
    BY ChildrenFiniteNext
  <2>5. Cardinality(Children(t)') <= Awaits(x)
    <3>1. Cardinality(Children(t)') <= Awaits(at[t]) + 1 /\ Cardinality(Children(t)') \in Nat
      BY <2>3, <2>4
    <3>2. Awaits(at[t]) \in Nat /\ Awaits(x) \in Nat
      BY Awaiting
    <3> QED BY <1>2, <3>1, <3>2
  <2>6. \A u \in Tasks \ {t} : Cardinality(Children(u)') <= Awaits(at[u])
    BY <2>3
  <2>7. Cardinality(Children(c)') <= Awaits(y)
    <3>1. Cardinality(Children(c)') <= Awaits("free")
      BY <1>2, <2>1, <2>6
    <3>2. Cardinality(Children(c)') <= 0
      BY <3>1 DEF Awaits
    <3>3. Awaits(y) \in Nat
      BY Awaiting
    <3> QED BY <2>4, <3>2, <3>3
  <2> QED BY <2>1, <2>5, <2>6, <2>7 DEF Raised
\* exit().
<1>3. ASSUME NEW t \in Tasks, Gone(t), at[t] # "free"
      PROVE  \A u \in Tasks : Raised(u)'
  <2>1. /\ mother' = [c \in Tasks |-> IF c \in Children(t) THEN InitTask ELSE mother[c]]
        /\ \A u \in Tasks \ {t} : at'[u] = at[u]
        /\ at'[t] # "free"
    BY <1>0, <1>3 DEF Gone, WTypes
  <2>2. Living' = Living
    BY <1>3, <2>1 DEF Living
  <2>3. Children(t)' = {} /\ \A u \in Tasks \ {t} : Children(u)' = Children(u)
    BY <1>0, <2>1, <2>2, Orphaned
  <2> QED BY <1>0, <2>1, <2>3, RaisedNext
<1>4. CASE Prompt \/ EndOfInput
  <2>1. Shell \in Tasks
    BY TaskFacts
  <2>2. at[Shell] = "prompt" /\ mother' = mother
    BY <1>4 DEF Prompt, EndOfInput
  <2>3. PICK x \in {"split", "gone"} : at' = [at EXCEPT ![Shell] = x]
    BY <1>4 DEF Prompt, EndOfInput
  <2>4. Awaits(at[Shell]) <= Awaits(x) /\ x # "free" /\ at[Shell] # "free"
    BY <2>2 DEF Awaits
  <2> QED BY <1>1, <2>1, <2>2, <2>3, <2>4
<1>5. ASSUME NEW t \in Tasks, SplitFork(t) PROVE \A u \in Tasks : Raised(u)'
  <2> DEFINE c == Min(Unused)
  <2>1. c \in Tasks /\ at[c] = "free" /\ at[t] = "split"
    BY <1>5 DEF SplitFork, Splits
  <2>2. mother' = [mother EXCEPT ![c] = t] /\ at' = [at EXCEPT ![t] = "run", ![c] = "split"]
    BY <1>5 DEF SplitFork
  <2> HIDE DEF c
  <2>3. Awaits(at[t]) + 1 <= Awaits("run")
    BY <2>1 DEF Awaits
  <2> QED BY <1>2, <2>1, <2>2, <2>3
<1>6. ASSUME NEW t \in Tasks, SplitFail(t) \/ SplitLast(t) PROVE \A u \in Tasks : Raised(u)'
  <2>1. at[t] = "split" /\ mother' = mother /\ at' = [at EXCEPT ![t] = "run"]
    BY <1>6 DEF SplitFail, SplitLast, Splits, RunsIt
  <2>2. Awaits(at[t]) <= Awaits("run")
    BY <2>1 DEF Awaits
  <2> QED BY <1>1, <2>1, <2>2
<1>7. ASSUME NEW t \in Tasks, Builtin(t) \/ Cleanup(t) PROVE \A u \in Tasks : Raised(u)'
  BY <1>3, <1>7 DEF Builtin, Cleanup
<1>8. ASSUME NEW t \in Tasks, Execute(t) PROVE \A u \in Tasks : Raised(u)'
  <2> DEFINE c == Min(Unused)
  <2>1. c \in Tasks /\ at[c] = "free" /\ at[t] = "run"
    BY <1>8 DEF Execute
  <2>2. PICK what \in {"program", "wait"} : at' = [at EXCEPT ![t] = "wait", ![c] = what]
    BY <1>8 DEF Execute
  <2>3. mother' = [mother EXCEPT ![c] = t]
    BY <1>8 DEF Execute
  <2> HIDE DEF c
  <2>4. Awaits(at[t]) + 1 <= Awaits("wait") /\ what # "free"
    BY <2>1 DEF Awaits
  <2> QED BY <1>2, <2>1, <2>2, <2>3, <2>4
<1>9. ASSUME NEW t \in Tasks, ExecuteFail(t) PROVE \A u \in Tasks : Raised(u)'
  <2>1. at[t] = "run" /\ mother' = mother /\ at' = [at EXCEPT ![t] = "wait"]
    BY <1>9 DEF ExecuteFail
  <2>2. Awaits(at[t]) <= Awaits("wait")
    BY <2>1 DEF Awaits
  <2> QED BY <1>1, <2>1, <2>2
<1>10. ASSUME NEW t \in Tasks, ProgramEnds(t) PROVE \A u \in Tasks : Raised(u)'
  <2>1. at[t] = "program" /\ mother' = mother /\ at' = [at EXCEPT ![t] = "zombie"]
    BY <1>10 DEF ProgramEnds
  <2>2. Awaits(at[t]) <= Awaits("zombie")
    BY <2>1 DEF Awaits
  <2> QED BY <1>1, <2>1, <2>2
<1>11. ASSUME NEW t \in Tasks, Wait(t) PROVE \A u \in Tasks : Raised(u)'
  <2> DEFINE next == IF at[t] = "wait" THEN AfterWait(t) ELSE IF t = Shell THEN "prompt" ELSE "exit"
  <2>1. /\ at[t] \in {"wait", "wait again"} /\ next # "free"
        /\ Awaits(next) = Awaits(at[t]) - 1
    <3>1. at[t] \in {"wait", "wait again"}
      BY <1>11 DEF Wait
    <3>3. \/ at[t] = "wait" /\ next = "wait again"
          \/ at[t] = "wait again" /\ next \in {"prompt", "exit"}
      BY <3>1 DEF AfterWait
    <3> HIDE DEF next
    <3>4. CASE at[t] = "wait" /\ next = "wait again"
      <4>1. Awaits(at[t]) = 2
        BY <3>4 DEF Awaits
      <4>2. Awaits(next) = 1
        BY <3>4 DEF Awaits
      <4>3. next # "free"
        BY <3>4
      <4>4. Awaits(next) = Awaits(at[t]) - 1
        BY <4>1, <4>2
      <4> HIDE DEF Awaits
      <4> QED BY <3>1, <4>3, <4>4
    <3>5. CASE at[t] = "wait again" /\ next \in {"prompt", "exit"}
      <4>1. Awaits(at[t]) = 1
        BY <3>5 DEF Awaits
      <4>2. Awaits(next) = 0
        BY <3>5 DEF Awaits
      <4>3. next # "free"
        BY <3>5
      <4>4. Awaits(next) = Awaits(at[t]) - 1
        BY <4>1, <4>2
      <4> HIDE DEF Awaits
      <4> QED BY <3>1, <4>3, <4>4
    <3> QED BY <3>3, <3>4, <3>5
  <2>2. \/ \E c \in Zombies(t) : /\ at' = [at EXCEPT ![c] = "free", ![t] = next]
                                 /\ mother' = [mother EXCEPT ![c] = InitTask]
        \/ Children(t) = {} /\ at' = [at EXCEPT ![t] = next] /\ mother' = mother
    BY <1>11 DEF Wait
  <2> HIDE DEF next
  <2>3. ASSUME NEW c \in Zombies(t), at' = [at EXCEPT ![c] = "free", ![t] = next],
               mother' = [mother EXCEPT ![c] = InitTask]
        PROVE  \A u \in Tasks : Raised(u)'
    <3>1. c \in Tasks /\ c \in Children(t) /\ at[c] = "zombie" /\ c # t
      BY <2>1 DEF Zombies, Children
    <3>2. Children(c) = {}
      <4>1. Awaits(at[c]) = 0
        BY <3>1 DEF Awaits
      <4>2. Cardinality(Children(c)) \in Nat /\ Cardinality(Children(c)) <= Awaits(at[c])
        BY <1>0, <3>1
      <4>3. Cardinality(Children(c)) = 0
        BY <4>1, <4>2
      <4> QED BY <4>3, ChildrenFinite, FS_EmptySet
    <3>3. at'[c] = "free" /\ at'[t] = next /\ \A u \in Tasks \ {c, t} : at'[u] = at[u]
      BY <1>0, <2>3, <3>1 DEF WTypes
    <3>4. Living' = Living \ {c}
      BY <2>1, <3>1, <3>3 DEF Living
    <3>5. \A u \in Tasks : /\ Cardinality(Children(u)') <= Cardinality(Children(u))
                           /\ c \in Children(u) =>
                                 Cardinality(Children(u)') <= Cardinality(Children(u)) - 1
      BY <1>0, <2>3, <3>1, <3>2, <3>4, Reaped
    <3>6. \A u : Cardinality(Children(u)') \in Nat
      BY ChildrenFiniteNext
    <3>10. \A x : Awaits(x) \in Nat
      BY Awaiting
    <3>11. Cardinality(Children(t)') <= Cardinality(Children(t)) - 1
      BY <3>1, <3>5
    <3>7. Cardinality(Children(t)') <= Awaits(next)
      <4>1. Awaits(next) \in Nat /\ Awaits(at[t]) \in Nat
        BY <3>10
      <4>2. Cardinality(Children(t)) \in Nat /\ Cardinality(Children(t)) <= Awaits(at[t])
        BY <1>0
      <4>3. Cardinality(Children(t)') \in Nat
        BY <3>6
      <4>4. Awaits(next) = Awaits(at[t]) - 1
        BY <2>1
      <4> QED BY <3>11, <4>1, <4>2, <4>3, <4>4
    <3>8. ASSUME NEW u \in Tasks PROVE Cardinality(Children(u)') <= Awaits(at[u])
      <4>1. Cardinality(Children(u)) \in Nat /\ Cardinality(Children(u)) <= Awaits(at[u])
        BY <1>0
      <4>2. Cardinality(Children(u)') \in Nat /\ Awaits(at[u]) \in Nat
        BY <3>6, <3>10
      <4> QED BY <3>5, <4>1, <4>2
    <3>9. Cardinality(Children(c)') <= Awaits("free")
      BY <3>1, <3>8 DEF Awaits
    <3> QED BY <3>3, <3>7, <3>8, <3>9 DEF Raised
  <2>4. ASSUME Children(t) = {}, at' = [at EXCEPT ![t] = next], mother' = mother
        PROVE  \A u \in Tasks : Raised(u)'
    <3>1. at'[t] = next /\ \A u \in Tasks \ {t} : at'[u] = at[u]
      BY <1>0, <2>4 DEF WTypes
    <3>2. Living' = Living
      BY <2>1, <3>1 DEF Living
    <3>3. \A u : Children(u)' = Children(u)
      BY <2>4, <3>2, SameChildren
    <3> QED BY <1>0, <2>4, <3>1, <3>3, RaisedNext
  <2> QED BY <2>2, <2>3, <2>4
<1>12. ASSUME NEW t \in Tasks, InitWaits(t) PROVE \A u \in Tasks : Raised(u)'
  <2>1. at[t] = "zombie" /\ mother[t] = InitTask /\ mother' = mother
        /\ at' = [at EXCEPT ![t] = "free"]
    BY <1>12 DEF InitWaits
  <2>2. at'[t] = "free" /\ \A u \in Tasks \ {t} : at'[u] = at[u]
    BY <1>0, <2>1 DEF WTypes
  <2>3. \A u \in Tasks : Children(u)' = Children(u)
    BY <2>1, <2>2 DEF Children
  <2>4. Awaits(at[t]) <= Awaits(at'[t])
    BY <2>1, <2>2 DEF Awaits
  <2> QED BY <1>0, <2>2, <2>3, <2>4, RaisedNext
<1>13. CASE UNCHANGED wvars
  BY <1>0, <1>13 DEF wvars, Raised, Children
<1> QED BY <1>4, <1>5, <1>6, <1>7, <1>8, <1>9, <1>10, <1>11, <1>12, <1>13 DEF WNext

\* When the shell prompts again everything its line has started has been waited for,
\* whatever the lines and however many processes there are, with fork() and exec()
\* failing at any point: no process ever has a child more than it will wait for
\* (wish.c: executeCmd, cleanup, main).
THEOREM WishInvariant == WSpec => []WishIInv
<1>1. WInductive /\ [WNext]_wvars => WInductive'
  BY WishTypes, WishRaised DEF WInductive
<1>2. WInductive => WishIInv
  BY ImpliesWish
<1> QED BY <1>1, <1>2, WishInit, PTL DEF WSpec
-----------------------------------------------------------------------------
(***************************************************************************)
(* The allocator, in three parts: the pointers p and the sizes z of the    *)
(* headers, the blocks of the program, and where the heap ends.            *)
(***************************************************************************)
Listed(p) == {a \in Address : p[a] # NotFree}
Blocks(p, u) == (Listed(p) \ {0}) \cup u

\* n comes after a in the circle of S.
After(S, a, n) == IF n > a THEN n \in S /\ \A x \in S : x > a => n <= x
                           ELSE n = 0 /\ \A x \in S : x <= a

Types(p, z, u, top) ==
    /\ p \in [Address -> Address \cup {NotFree}]
    /\ z \in [Address -> Nat] /\ z[0] = 0
    /\ u \subseteq 1 .. HEAP /\ u \cap Listed(p) = {}
    /\ top \in 1 .. HEAP + 1

Circle(p) == 0 \in Listed(p) /\ \A a \in Listed(p) : After(Listed(p), a, p[a])

Tiling(B, z, top) ==
    /\ \A a \in B : a >= 1 /\ z[a] >= 1 /\ a + z[a] <= top
    /\ \A a, b \in B : a < b => a + z[a] <= b
    /\ \A x \in 1 .. top - 1 : \E a \in B : a <= x /\ x < a + z[a]

Sound(p, z, u, top) == Types(p, z, u, top) /\ Circle(p) /\ Tiling(Blocks(p, u), z, top)

\* What the operations do to the pointers and the sizes.
LinkP(p, b, q) == [p EXCEPT ![b] = p[q], ![q] = b]
DropP(p, q)    == [p EXCEPT ![q] = p[p[q]], ![p[q]] = NotFree]
JoinZ(z, a, c) == [z EXCEPT ![a] = z[a] + z[c], ![c] = 0]
CutZ(z, a, n)  == [z EXCEPT ![a] = z[a] - n, ![a + z[a] - n] = n]
Put(f, x, v)   == [f EXCEPT ![x] = v]

LEMMA HeapSize ==
    /\ HEAP \in Nat /\ NotFree = HEAP + 1 /\ NotFree \notin Address
    /\ Address \subseteq Nat /\ \A x \in Nat : x \in Address <=> x <= HEAP
BY UmallocAssumption DEF Address, NotFree

LEMMA BlocksAre ==
    ASSUME NEW p, NEW z, NEW u, NEW top, Types(p, z, u, top)
    PROVE  /\ Blocks(p, u) \subseteq Address /\ Blocks(p, u) \subseteq Nat
           /\ Listed(p) \subseteq Address /\ Listed(p) \subseteq Nat
           /\ top \in Nat /\ top <= HEAP + 1
<1>1. u \subseteq Address
  BY HeapSize DEF Types, Address
<1>2. Listed(p) \subseteq Address
  BY DEF Listed
<1>3. Blocks(p, u) \subseteq Address
  BY <1>1, <1>2 DEF Blocks
<1>4. top \in Nat /\ top <= HEAP + 1
  BY HeapSize DEF Types
<1> QED BY <1>2, <1>3, <1>4, HeapSize

\* A search goes through the whole circle: what has all its pointers in itself is all.
LEMMA ClosedIsAll ==
    ASSUME NEW p, NEW C, Circle(p), C \subseteq Listed(p), C # {}, \A a \in C : p[a] \in C
    PROVE  C = Listed(p)
<1>1. C \subseteq 0 .. HEAP /\ Listed(p) \subseteq Nat
  BY HeapSize DEF Listed, Address
<1>2. PICK x \in C : \A y \in C : y <= x
  BY <1>1, HeapSize, GreatestIn
<1>3. 0 \in C
  <2>1. After(Listed(p), x, p[x]) /\ p[x] \in C
    BY DEF Circle
  <2>2. p[x] <= x
    BY <1>2, <2>1
  <2>3. x \in Nat /\ p[x] \in Nat
    BY <1>1, <2>1
  <2>4. ~ (p[x] > x)
    BY <2>2, <2>3
  <2> QED BY <2>1, <2>4 DEF After
<1> DEFINE Missed == Listed(p) \ C
<1>4. SUFFICES ASSUME Missed # {} PROVE FALSE
  OBVIOUS
<1>5. PICK m \in Missed : \A y \in Missed : m <= y
  <2>1. Missed \subseteq Nat
    BY <1>1
  <2> HIDE DEF Missed
  <2> QED BY <1>4, <2>1, LeastIn
<1> DEFINE Below == {a \in C : a < m}
<1>6. PICK b \in Below : \A y \in Below : y <= b
  <2>1. Below \subseteq 0 .. HEAP
    BY <1>1
  <2>2. m # 0 /\ m \in Nat
    BY <1>1, <1>3
  <2>3. 0 \in Below
    BY <1>3, <2>2
  <2> HIDE DEF Below
  <2> QED BY <2>1, <2>3, HeapSize, GreatestIn
<1>7. After(Listed(p), b, p[b]) /\ p[b] \in C /\ b \in Nat /\ m \in Nat /\ p[b] \in Nat
  BY <1>1 DEF Circle
<1>8. m > b /\ m \in Listed(p) /\ m \notin C
  BY <1>7
<1>9. p[b] > b /\ p[b] <= m
  BY <1>7, <1>8 DEF After
<1>10. p[b] # m
  BY <1>7, <1>8
<1>11. p[b] \in Below
  BY <1>7, <1>9, <1>10
<1> QED BY <1>6, <1>7, <1>9, <1>11

-----------------------------------------------------------------------------
\* The search is defined: walk[k] is where it is after k steps.
LEMMA WalkIs ==
    ASSUME NEW h
    PROVE  /\ Walk(h)[0] = h.at
           /\ \A k \in 1 .. HEAP + 1 : Walk(h)[k] = h.ptr[Walk(h)[k - 1]]
           /\ DOMAIN Walk(h) = 0 .. HEAP + 1
<1> DEFINE Chained(w, n) == w = [k \in 0 .. n |-> IF k = 0 THEN h.at ELSE h.ptr[w[k - 1]]]
           Bad == {n \in Nat : ~ \E w : Chained(w, n)}
<1>1. Bad = {}
  <2> SUFFICES ASSUME Bad # {} PROVE FALSE
    OBVIOUS
  <2>1. PICK n \in Bad : \A y \in Bad : n <= y
    <3>1. Bad \subseteq Nat
      OBVIOUS
    <3> HIDE DEF Bad
    <3> QED BY <3>1, LeastIn
  <2>2. n # 0
    <3>1. Chained([k \in 0 .. 0 |-> h.at], 0)
      OBVIOUS
    <3> QED BY <3>1
  <2>3. n \in Nat /\ n - 1 \in Nat /\ ~ (n <= n - 1)
    BY <2>2
  <2>4. n - 1 \notin Bad
    <3> HIDE DEF Bad
    <3> QED BY <2>1, <2>3
  <2>5. PICK w : Chained(w, n - 1)
    BY <2>3, <2>4
  <2> DEFINE v == [k \in 0 .. n |-> IF k = n THEN h.ptr[w[n - 1]] ELSE w[k]]
  <2>6. Chained(v, n)
    <3>1. ASSUME NEW k \in 0 .. n
          PROVE  v[k] = IF k = 0 THEN h.at ELSE h.ptr[v[k - 1]]
      <4>1. CASE k = n
        <5>1. k - 1 \in 0 .. n /\ k - 1 # n /\ k # 0
          BY <2>3, <2>2, <4>1
        <5> QED BY <4>1, <5>1
      <4>2. CASE k # n
        <5>1. k \in 0 .. n - 1
          BY <2>3, <4>2
        <5>2. w[k] = IF k = 0 THEN h.at ELSE h.ptr[w[k - 1]]
          BY <2>5, <5>1
        <5>3. k # 0 => k - 1 \in 0 .. n /\ k - 1 # n
          BY <2>3, <5>1
        <5> QED BY <4>2, <5>2, <5>3
      <4> QED BY <4>1, <4>2
    <3>2. v = [k \in 0 .. n |-> v[k]]
      OBVIOUS
    <3> HIDE DEF v
    <3> QED BY <3>1, <3>2
  <2> QED BY <2>1, <2>6
<1>2. \E w : Chained(w, HEAP + 1)
  <2>1. HEAP + 1 \in Nat
    BY HeapSize
  <2> QED BY <1>1, <2>1
<1>3. Walk(h) = CHOOSE w : Chained(w, HEAP + 1)
  BY DEF Walk
<1> DEFINE r == Walk(h)
<1>4. Chained(r, HEAP + 1)
  <2> HIDE DEF Chained
  <2> QED BY <1>2, <1>3
<1> HIDE DEF r
<1>5. /\ r[0] = h.at
      /\ \A k \in 1 .. HEAP + 1 : r[k] = h.ptr[r[k - 1]]
      /\ DOMAIN r = 0 .. HEAP + 1
  <2>1. 0 \in 0 .. HEAP + 1 /\ \A k \in 1 .. HEAP + 1 : k \in 0 .. HEAP + 1 /\ k # 0
    BY HeapSize
  <2> QED BY <1>4, <2>1
<1> QED BY <1>5 DEF r

\* The search meets only blocks of the list, and each of them.
LEMMA Met ==
    ASSUME NEW h, Circle(h.ptr), h.at \in Listed(h.ptr)
    PROVE  /\ \A k \in 0 .. HEAP + 1 : Walk(h)[k] \in Listed(h.ptr)
           /\ \A a \in Listed(h.ptr) : \E k \in 1 .. Cardinality(Listed(h.ptr)) : Walk(h)[k] = a
           /\ Cardinality(Listed(h.ptr)) \in 0 .. HEAP + 1
<1> DEFINE w == Walk(h)
           p == h.ptr
           L == Listed(p)
           c == Cardinality(L)
<1>1. w[0] \in L /\ \A k \in 1 .. HEAP + 1 : w[k] = p[w[k - 1]]
  BY WalkIs
<1>2. Circle(p)
  OBVIOUS
<1>3. c \in Nat /\ c <= HEAP + 1 /\ IsFiniteSet(L)
  <2>1. L \in SUBSET (0 .. HEAP)
    BY DEF Listed, Address
  <2>2. IsFiniteSet(0 .. HEAP) /\ Cardinality(0 .. HEAP) = HEAP + 1
    BY HeapSize, FS_Interval
  <2>3. IsFiniteSet(L) /\ Cardinality(L) <= HEAP + 1
    BY <2>1, <2>2, FS_Subset
  <2> QED BY <2>3, FS_CardinalityType
<1>4. \A a \in L : p[a] \in L
  <2> SUFFICES ASSUME NEW a \in L PROVE p[a] \in L
    OBVIOUS
  <2>1. After(L, a, p[a]) /\ 0 \in L
    BY <1>2 DEF Circle
  <2> QED BY <2>1 DEF After
<1> HIDE DEF w, p, L, c
<1>5. \A k \in 0 .. HEAP + 1 : w[k] \in L
  <2> DEFINE Off == {k \in 0 .. HEAP + 1 : w[k] \notin L}
  <2> SUFFICES ASSUME Off # {} PROVE FALSE
    OBVIOUS
  <2>1. PICK k \in Off : \A y \in Off : k <= y
    <3>1. Off \subseteq Nat
      OBVIOUS
    <3> HIDE DEF Off
    <3> QED BY <3>1, LeastIn
  <2>2. k \in 1 .. HEAP + 1 /\ k - 1 \in 0 .. HEAP + 1 /\ ~ (k <= k - 1)
    <3>1. k # 0 /\ k \in 0 .. HEAP + 1
      BY <1>1
    <3> QED BY <3>1, HeapSize
  <2>3. w[k - 1] \in L
    BY <2>1, <2>2
  <2> QED BY <1>1, <1>4, <2>2, <2>3
\* c + 1 places of the walk, c blocks: it comes back to one.
<1>6. PICK i \in 0 .. c, j \in 0 .. c : i < j /\ w[i] = w[j]
  <2> DEFINE f == [k \in 0 .. c |-> w[k]]
  <2>1. f \in [0 .. c -> L]
    <3>1. \A k \in 0 .. c : k \in 0 .. HEAP + 1
      BY <1>3, HeapSize
    <3> QED BY <1>5, <3>1
  <2>2. IsFiniteSet(0 .. c) /\ Cardinality(0 .. c) = c + 1
    BY <1>3, FS_Interval
  <2>3. Cardinality(L) < Cardinality(0 .. c)
    BY <1>3, <2>2 DEF c
  <2> HIDE DEF f
  <2>4. \E x, y \in 0 .. c : x # y /\ f[x] = f[y]
    BY <1>3, <2>1, <2>2, <2>3, FS_PigeonHole
  <2>5. PICK x \in 0 .. c, y \in 0 .. c : x # y /\ f[x] = f[y]
    BY <2>4
  <2>6. w[x] = w[y]
    BY <2>5 DEF f
  <2>7. x < y \/ y < x
    BY <1>3, <2>5
  <2> QED BY <2>6, <2>7
<1> DEFINE C == {w[k] : k \in i + 1 .. j}
<1>7. \A k \in i + 1 .. j : k \in 1 .. c /\ k \in 1 .. HEAP + 1
  BY <1>3, HeapSize
<1>8. C \subseteq L /\ C # {}
  <2>1. j \in i + 1 .. j
    BY <1>3, <1>6
  <2> QED BY <1>5, <1>7, <2>1
<1>9. \A a \in C : p[a] \in C
  <2> SUFFICES ASSUME NEW k \in i + 1 .. j PROVE p[w[k]] \in C
    OBVIOUS
  <2>1. CASE k = j
    <3>1. i + 1 \in i + 1 .. j /\ (i + 1) - 1 = i /\ i + 1 \in 1 .. HEAP + 1
      BY <1>3, <1>6, <1>7
    <3>2. w[i + 1] = p[w[i]]
      BY <1>1, <3>1
    <3> QED BY <1>6, <2>1, <3>1, <3>2
  <2>2. CASE k # j
    <3>1. k + 1 \in i + 1 .. j /\ (k + 1) - 1 = k
      BY <1>3, <2>2
    <3>2. w[k + 1] = p[w[k]]
      BY <1>1, <1>7, <3>1
    <3> QED BY <3>1, <3>2
  <2> QED BY <2>1, <2>2
<1>10. C = L
  <2> HIDE DEF C
  <2> QED BY <1>2, <1>8, <1>9, ClosedIsAll DEF L
<1>11. \A a \in L : \E k \in 1 .. c : w[k] = a
  BY <1>7, <1>10
<1>12. c \in 0 .. HEAP + 1
  BY <1>3, HeapSize
<1> QED BY <1>5, <1>11, <1>12 DEF w, p, L, c

\* free() finds the last block of the list below the one it inserts.
LEMMA BeforeIs ==
    ASSUME NEW h, Circle(h.ptr), h.at \in Listed(h.ptr),
           NEW b \in 1 .. HEAP, b \notin Listed(h.ptr)
    PROVE  /\ Before(h, b) \in Listed(h.ptr) /\ Before(h, b) < b
           /\ \A x \in Listed(h.ptr) : x < b => x <= Before(h, b)
<1> DEFINE w == Walk(h)
           p == h.ptr
           L == Listed(p)
           K == {k \in DOMAIN w : Between(h, w[k], b)}
<1>1. Circle(p) /\ L \subseteq 0 .. HEAP /\ b \notin L
  BY DEF Listed, Address
<1>2. DOMAIN w = 0 .. HEAP + 1 /\ \A k \in 0 .. HEAP + 1 : w[k] \in L
  BY WalkIs, Met
<1>3. \A a \in L : After(L, a, p[a]) /\ p[a] \in Nat
  <2> SUFFICES ASSUME NEW a \in L PROVE After(L, a, p[a]) /\ p[a] \in Nat
    OBVIOUS
  <2>1. After(L, a, p[a])
    BY <1>1 DEF Circle
  <2> QED BY <1>1, <2>1 DEF After
<1>4. \A a \in L : \E k \in 1 .. HEAP + 1 : w[k] = a
  <2>1. \A a \in L : \E k \in 1 .. Cardinality(L) : w[k] = a
    BY Met
  <2>2. Cardinality(L) \in 0 .. HEAP + 1
    BY Met
  <2> HIDE DEF L, w
  <2> QED BY <2>1, <2>2, HeapSize
<1>5. 0 \in L
  BY <1>1 DEF Circle
<1> HIDE DEF L, w
<1>6. K # {}
  <2> DEFINE Below == {x \in L : x < b}
  <2>1. PICK q \in Below : \A y \in Below : y <= q
    <3>1. Below \subseteq 0 .. HEAP
      BY <1>1
    <3>2. 0 \in Below
      BY <1>5
    <3> HIDE DEF Below
    <3> QED BY <3>1, <3>2, HeapSize, GreatestIn
  <2>2. After(L, q, p[q]) /\ p[q] \in Nat /\ q \in Nat /\ q < b /\ q \in L
    BY <1>1, <1>3
  <2>3. Between(h, q, b)
    <3>1. CASE p[q] > q
      <4>1. p[q] \in L /\ p[q] # b
        BY <1>1, <2>2, <3>1 DEF After
      <4>2. ~ (p[q] < b)
        BY <2>1, <2>2, <3>1, <4>1
      <4>3. b < p[q]
        BY <2>2, <4>1, <4>2
      <4> QED BY <2>2, <4>3 DEF Between
    <3>2. CASE ~ (p[q] > q)
      BY <2>2, <3>2 DEF Between
    <3> QED BY <3>1, <3>2
  <2>4. PICK k \in 1 .. HEAP + 1 : w[k] = q
    BY <1>4, <2>2
  <2>5. k \in DOMAIN w
    BY <1>2, HeapSize
  <2> QED BY <2>3, <2>4, <2>5
<1>7. Min(K) \in K
  <2>1. K \subseteq Nat
    BY <1>2, HeapSize
  <2> HIDE DEF K
  <2> QED BY <1>6, <2>1, LeastIn
<1> DEFINE q == w[Min(K)]
<1>8. q \in L /\ Between(h, q, b)
  BY <1>2, <1>7
<1>9. q = Before(h, b)
  BY DEF Before, FirstStep, w
<1> HIDE DEF q
<1>10. q < b /\ \A x \in L : x < b => x <= q
  <2>1. After(L, q, p[q]) /\ p[q] \in Nat /\ q \in Nat
    BY <1>1, <1>3, <1>8
  <2>2. CASE p[q] > q
    <3>1. p[q] \in L /\ \A x \in L : x > q => p[q] <= x
      BY <2>1, <2>2 DEF After
    <3>2. q < b /\ b < p[q]
      BY <1>8, <2>1, <2>2 DEF Between
    <3> QED BY <1>1, <2>1, <3>1, <3>2
  <2>3. CASE ~ (p[q] > q)
    <3>1. p[q] = 0 /\ \A x \in L : x <= q
      BY <2>1, <2>3 DEF After
    <3>2. b > q
      BY <1>8, <2>1, <2>3, <3>1 DEF Between
    <3> QED BY <3>1, <3>2
  <2> QED BY <2>2, <2>3
<1> QED BY <1>8, <1>9, <1>10 DEF L

-----------------------------------------------------------------------------
\* A block of the program goes on the list.
LEMMA Linked ==
    ASSUME NEW p, NEW z, NEW u, NEW top, Sound(p, z, u, top),
           NEW b \in u, NEW q \in Listed(p), q < b,
           \A x \in Listed(p) : x < b => x <= q
    PROVE  /\ Sound(LinkP(p, b, q), z, u \ {b}, top)
           /\ Listed(LinkP(p, b, q)) = Listed(p) \cup {b}
           /\ LinkP(p, b, q)[b] = p[q] /\ LinkP(p, b, q)[q] = b
<1> DEFINE L == Listed(p)
           r == LinkP(p, b, q)
<1>0. r = [p EXCEPT ![b] = p[q], ![q] = b]
  BY DEF LinkP
<1> HIDE DEF r
<1>1. Types(p, z, u, top) /\ Circle(p) /\ Tiling(Blocks(p, u), z, top)
  BY DEF Sound
<1>2. /\ L \subseteq Address /\ b \in Address /\ b # 0 /\ b \notin L /\ b \in Nat
      /\ p[q] \in Address /\ q # b /\ q \in Nat /\ p[q] \in Nat
  <2>1. b \in 1 .. HEAP /\ b \notin L /\ L \subseteq Address /\ q \in Address
    BY <1>1 DEF Types, Listed
  <2>2. p[q] \in Address
    BY <1>1, HeapSize DEF Types, Listed
  <2>3. b \in Address /\ b # 0 /\ b \in Nat
    BY <2>1, HeapSize
  <2>5. q \in Nat /\ p[q] \in Nat
    BY <2>1, <2>2, HeapSize
  <2>4. q # b
    BY <2>1
  <2> QED BY <2>1, <2>2, <2>3, <2>4, <2>5
<1>3. /\ r \in [Address -> Address \cup {NotFree}] /\ r[b] = p[q] /\ r[q] = b
      /\ \A x \in Address \ {b, q} : r[x] = p[x]
  BY <1>0, <1>1, <1>2, HeapSize DEF Types
<1>4. Listed(r) = L \cup {b}
  <2>1. \A x \in Address : x \in L <=> p[x] # NotFree
    BY DEF Listed
  <2>2. \A x \in Address : r[x] # NotFree <=> x \in L \cup {b}
    BY <1>2, <1>3, <2>1, HeapSize
  <2> QED BY <1>2, <2>2 DEF Listed
<1>5. Blocks(r, u \ {b}) = Blocks(p, u)
  BY <1>1, <1>2, <1>4 DEF Blocks
<1>6. Types(r, z, u \ {b}, top)
  BY <1>1, <1>3, <1>4 DEF Types
<1>7. Circle(r)
  <2>1. 0 \in L /\ L \subseteq Nat /\ After(L, q, p[q])
    BY <1>1, <1>2, HeapSize DEF Circle
  <2>2. ASSUME NEW a \in L \cup {b} PROVE After(L \cup {b}, a, r[a])
    <3>1. CASE a = b
      <4>1. CASE p[q] > q
        <5>1. p[q] \in L /\ \A x \in L : x > q => p[q] <= x
          BY <2>1, <4>1 DEF After
        <5>2. p[q] > b
          BY <1>2, <2>1, <4>1, <5>1
        <5>3. \A x \in L \cup {b} : x > b => p[q] <= x
          BY <1>2, <2>1, <5>1
        <5> QED BY <1>3, <3>1, <5>1, <5>2, <5>3 DEF After
      <4>2. CASE ~ (p[q] > q)
        <5>1. p[q] = 0 /\ \A x \in L : x <= q
          BY <2>1, <4>2 DEF After
        <5>2. \A x \in L \cup {b} : x <= b
          BY <1>2, <2>1, <5>1
        <5> QED BY <1>2, <1>3, <3>1, <5>1, <5>2 DEF After
      <4> QED BY <4>1, <4>2
    <3>2. CASE a = q
      <4>1. \A x \in L \cup {b} : x > q => b <= x
        BY <1>2, <2>1
      <4> QED BY <1>2, <1>3, <3>2, <4>1 DEF After
    <3>3. CASE a \in L \ {q, b}
      <4>1. r[a] = p[a] /\ After(L, a, p[a]) /\ a \in Nat /\ p[a] \in Nat
        <5>1. After(L, a, p[a])
          BY <1>1, <3>3 DEF Circle
        <5> QED BY <1>2, <1>3, <2>1, <3>3, <5>1 DEF After
      <4>2. CASE p[a] > a
        <5>1. p[a] \in L /\ \A x \in L : x > a => p[a] <= x
          BY <4>1, <4>2 DEF After
        <5>2. b > a => p[a] <= b
          <6>1. ASSUME b > a PROVE p[a] <= q
            <7>1. a <= q /\ a # q
              BY <3>3, <6>1, <4>1
            <7>2. q > a
              BY <1>2, <4>1, <7>1
            <7> QED BY <5>1, <7>2
          <6> QED BY <1>2, <4>1, <6>1
        <5> QED BY <4>1, <4>2, <5>1, <5>2 DEF After
      <4>3. CASE ~ (p[a] > a)
        <5>1. p[a] = 0 /\ \A x \in L : x <= a
          BY <4>1, <4>3 DEF After
        <5>2. q <= a /\ q # a
          BY <3>3, <5>1
        <5>3. ~ (a < b)
          BY <1>2, <3>3, <4>1, <5>2
        <5> QED BY <1>2, <4>1, <4>3, <5>1, <5>3 DEF After
      <4> QED BY <4>2, <4>3
    <3> QED BY <3>1, <3>2, <3>3
  <2> QED BY <1>4, <2>1, <2>2 DEF Circle
<1> QED BY <1>1, <1>3, <1>4, <1>5, <1>6, <1>7 DEF Sound, r

\* A block of the list goes off it, q being the one before.
LEMMA Dropped ==
    ASSUME NEW p, Circle(p), p \in [Address -> Address \cup {NotFree}],
           NEW q \in Listed(p), p[q] # 0
    PROVE  /\ Circle(DropP(p, q)) /\ DropP(p, q) \in [Address -> Address \cup {NotFree}]
           /\ Listed(DropP(p, q)) = Listed(p) \ {p[q]} /\ p[q] \in Listed(p) /\ p[q] > q
           /\ \A x \in Address \ {p[q], q} : DropP(p, q)[x] = p[x]
<1> DEFINE L == Listed(p)
           r == DropP(p, q)
           a == p[q]
<1>0. r = [p EXCEPT ![q] = p[a], ![a] = NotFree] /\ a = p[q] /\ a # 0
  BY DEF DropP
<1> HIDE DEF r, a
<1>1. L \subseteq Address /\ L \subseteq Nat /\ 0 \in L
  BY HeapSize DEF Listed, Circle
<1>2. \A x \in L : After(L, x, p[x]) /\ p[x] \in Nat /\ p[x] \in L
  <2> SUFFICES ASSUME NEW x \in L PROVE After(L, x, p[x]) /\ p[x] \in Nat /\ p[x] \in L
    OBVIOUS
  <2>1. After(L, x, p[x])
    BY DEF Circle
  <2> QED BY <1>1, <2>1 DEF After
<1>3. a > q /\ a \in L /\ \A x \in L : x > q => a <= x
  BY <1>0, <1>2 DEF After
<1>4. a \in Address /\ q \in Address /\ a # q /\ a \in Nat /\ q \in Nat /\ p[a] \in Address
  BY <1>1, <1>2, <1>3
<1>5. /\ r \in [Address -> Address \cup {NotFree}] /\ r[q] = p[a] /\ r[a] = NotFree
      /\ \A x \in Address \ {a, q} : r[x] = p[x]
  BY <1>0, <1>4, HeapSize
<1>6. Listed(r) = L \ {a}
  <2>1. \A x \in Address : x \in L <=> p[x] # NotFree
    BY DEF Listed
  <2>2. \A x \in Address : r[x] # NotFree <=> x \in L \ {a}
    BY <1>1, <1>4, <1>5, <2>1, HeapSize
  <2> QED BY <1>1, <2>2 DEF Listed
<1>7. ASSUME NEW x \in L \ {a} PROVE After(L \ {a}, x, r[x])
  <2>1. CASE x = q
    <3>1. After(L, a, p[a]) /\ p[a] \in L /\ p[a] \in Nat
      BY <1>2, <1>3
    <3>2. CASE p[a] > a
      <4>1. p[a] > q /\ p[a] \in L \ {a}
        BY <1>3, <1>4, <3>1, <3>2
      <4>2. \A y \in L \ {a} : y > q => p[a] <= y
        <5> SUFFICES ASSUME NEW y \in L \ {a}, y > q PROVE p[a] <= y
          OBVIOUS
        <5>1. a <= y /\ y # a /\ y \in Nat
          BY <1>1, <1>3
        <5>2. y > a
          BY <1>4, <5>1
        <5> QED BY <3>1, <3>2, <5>2 DEF After
      <4> QED BY <1>5, <2>1, <4>1, <4>2 DEF After
    <3>3. CASE ~ (p[a] > a)
      <4>1. p[a] = 0 /\ \A y \in L : y <= a
        BY <3>1, <3>3 DEF After
      <4>2. \A y \in L \ {a} : y <= q
        <5> SUFFICES ASSUME NEW y \in L \ {a} PROVE y <= q
          OBVIOUS
        <5>1. y \in Nat /\ y <= a /\ y # a /\ (y > q => a <= y)
          BY <1>1, <1>3, <4>1
        <5> QED BY <1>4, <5>1
      <4>3. ~ (r[x] > x) /\ r[x] = 0
        BY <1>4, <1>5, <2>1, <4>1
      <4> QED BY <2>1, <4>2, <4>3 DEF After
    <3> QED BY <3>2, <3>3
  <2>2. CASE x # q
    <3>1. r[x] = p[x] /\ After(L, x, p[x]) /\ p[x] \in L /\ p[x] \in Nat /\ x \in Nat /\ x \in L
      BY <1>1, <1>2, <1>5, <2>2
    <3>2. CASE p[x] > x
      <4>1. \A y \in L : y > x => p[x] <= y
        BY <3>1, <3>2 DEF After
      <4>2. p[x] # a
        <5> SUFFICES ASSUME p[x] = a PROVE FALSE
          OBVIOUS
        <5>1. x < a /\ (q > x => a <= q)
          BY <3>1, <3>2, <4>1
        <5>2. q < x
          BY <1>3, <1>4, <2>2, <3>1, <5>1
        <5>3. a <= x
          BY <1>3, <3>1, <5>2
        <5> QED BY <1>4, <3>1, <5>1, <5>3
      <4> QED BY <3>1, <3>2, <4>1, <4>2 DEF After
    <3>3. CASE ~ (p[x] > x)
      BY <3>1, <3>3 DEF After
    <3> QED BY <3>2, <3>3
  <2> QED BY <2>1, <2>2
<1>8. Circle(r)
  <2> DEFINE M == L \ {a}
  <2>1. 0 \in M /\ Listed(r) = M /\ \A x \in M : After(M, x, r[x])
    BY <1>0, <1>1, <1>6, <1>7
  <2> HIDE DEF M
  <2>2. 0 \in Listed(r) /\ \A x \in Listed(r) : After(Listed(r), x, r[x])
    BY <2>1
  <2> QED BY <2>2 DEF Circle
<1> QED BY <1>3, <1>5, <1>6, <1>8 DEF r, a

\* Two blocks of the list that touch become one.
LEMMA Merged ==
    ASSUME NEW p, NEW z, NEW u, NEW top, Sound(p, z, u, top),
           NEW a \in Listed(p), a # 0, NEW c, c = p[a], a + z[a] = c
    PROVE  /\ Sound(DropP(p, a), JoinZ(z, a, c), u, top)
           /\ Listed(DropP(p, a)) = Listed(p) \ {c}
           /\ c \in Listed(p) /\ c # a /\ c # 0
           /\ \A x \in Address \ {a, c} : DropP(p, a)[x] = p[x] /\ JoinZ(z, a, c)[x] = z[x]
           /\ JoinZ(z, a, c)[a] = z[a] + z[c]
<1> DEFINE L == Listed(p)
           B == Blocks(p, u)
           r == DropP(p, a)
           y == JoinZ(z, a, c)
<1>0. y = [z EXCEPT ![a] = z[a] + z[c], ![c] = 0]
  BY DEF JoinZ
<1> HIDE DEF y
<1>1. Types(p, z, u, top) /\ Circle(p) /\ Tiling(B, z, top)
  BY DEF Sound
<1>2. L \subseteq Address /\ a \in Address /\ a \in Nat /\ z[a] \in Nat /\ a \in B
  BY <1>1, HeapSize DEF Types, Listed, Blocks
<1>3. c > a /\ c # 0
  <2>1. z[a] >= 1
    BY <1>1, <1>2 DEF Tiling
  <2> QED BY <1>2, <2>1
<1>4. /\ Circle(r) /\ r \in [Address -> Address \cup {NotFree}] /\ Listed(r) = L \ {c} /\ c \in L
      /\ \A x \in Address \ {a, c} : r[x] = p[x]
  BY <1>1, <1>3, Dropped DEF Types
<1> HIDE DEF r
<1>5. c \in Address /\ c \in Nat /\ z[c] \in Nat /\ c # a /\ c \in B
  <2>1. c \in Address /\ c \in Nat /\ c # a
    BY <1>2, <1>3, <1>4, HeapSize
  <2>2. c \in B
    BY <1>3, <1>4 DEF Blocks
  <2> QED BY <1>1, <2>1, <2>2 DEF Types
<1>6. /\ y \in [Address -> Nat] /\ y[a] = z[a] + z[c] /\ y[c] = 0
      /\ \A x \in Address \ {a, c} : y[x] = z[x]
  BY <1>0, <1>1, <1>2, <1>5 DEF Types
<1>7. Types(r, y, u, top)
  <2>1. 0 \in Address /\ z[0] = 0
    BY <1>1, HeapSize DEF Types
  <2>2. y[0] = 0
    BY <1>3, <1>6, <2>1
  <2> QED BY <1>1, <1>4, <1>6, <2>2 DEF Types
<1>8. Blocks(r, u) = B \ {c}
  <2>1. c \notin u
    BY <1>1, <1>4 DEF Types
  <2> QED BY <1>4, <2>1 DEF Blocks
<1>9. B \subseteq Address /\ B \subseteq Nat /\ top \in Nat
  BY <1>1, BlocksAre
<1>10. Tiling(B \ {c}, y, top)
  <2>1. c >= 1 /\ z[c] >= 1 /\ c + z[c] <= top
    BY <1>1, <1>5 DEF Tiling
  <2>2. ASSUME NEW x \in B \ {c} PROVE x >= 1 /\ y[x] >= 1 /\ x + y[x] <= top
    <3>1. x >= 1 /\ z[x] >= 1 /\ x + z[x] <= top /\ x \in Nat /\ x \in Address
      BY <1>1, <1>9 DEF Tiling
    <3>2. CASE x = a
      BY <1>2, <1>5, <1>6, <2>1, <3>1, <3>2
    <3>3. CASE x # a
      BY <1>6, <3>1, <3>3
    <3> QED BY <3>2, <3>3
  <2>3. ASSUME NEW x \in B \ {c}, NEW w \in B \ {c}, x < w PROVE x + y[x] <= w
    <3>1. x + z[x] <= w /\ x \in Address /\ x \in Nat /\ w \in Nat
      BY <1>1, <1>9, <2>3 DEF Tiling
    <3>2. CASE x = a
      <4>1. c < w
        <5>1. c <= w /\ c # w
          BY <3>1, <3>2
        <5> QED BY <1>5, <3>1, <5>1
      <4>2. c + z[c] <= w
        BY <1>1, <1>5, <4>1 DEF Tiling
      <4> QED BY <1>2, <1>5, <1>6, <3>1, <3>2, <4>2
    <3>3. CASE x # a
      BY <1>6, <3>1, <3>3
    <3> QED BY <3>2, <3>3
  <2>4. ASSUME NEW x \in 1 .. top - 1 PROVE \E e \in B \ {c} : e <= x /\ x < e + y[e]
    <3>1. PICK e \in B : e <= x /\ x < e + z[e]
      BY <1>1 DEF Tiling
    <3>2. e \in Nat /\ e \in Address /\ z[e] \in Nat /\ x \in Nat
      BY <1>1, <1>9 DEF Types
    <3>3. CASE e = c
      <4>1. a <= x /\ x < a + y[a]
        BY <1>2, <1>3, <1>5, <1>6, <3>1, <3>2, <3>3
      <4> QED BY <1>2, <1>5, <4>1
    <3>4. CASE e = a
      <4>1. x < a + y[a]
        BY <1>2, <1>5, <1>6, <3>1, <3>2, <3>4
      <4> QED BY <1>5, <3>1, <3>4, <4>1
    <3>5. CASE e # a /\ e # c
      BY <1>6, <3>1, <3>2, <3>5
    <3> QED BY <3>3, <3>4, <3>5
  <2> QED BY <2>2, <2>3, <2>4 DEF Tiling
<1> QED BY <1>3, <1>4, <1>5, <1>6, <1>7, <1>8, <1>10 DEF Sound, r, y

\* A block of the list is given whole.
LEMMA GivenWhole ==
    ASSUME NEW p, NEW z, NEW u, NEW top, Sound(p, z, u, top),
           NEW q \in Listed(p), NEW a, a = p[q], a # 0
    PROVE  /\ Sound(DropP(p, q), z, u \cup {a}, top)
           /\ Listed(DropP(p, q)) = Listed(p) \ {a}
           /\ a \in Listed(p) /\ q # a
<1> DEFINE r == DropP(p, q)
<1>1. Types(p, z, u, top) /\ Circle(p) /\ Tiling(Blocks(p, u), z, top)
  BY DEF Sound
<1>2. /\ Circle(r) /\ r \in [Address -> Address \cup {NotFree}]
      /\ Listed(r) = Listed(p) \ {a} /\ a \in Listed(p) /\ a > q
  BY <1>1, Dropped DEF Types
<1>3. a \in 1 .. HEAP /\ q \in Nat
  BY <1>2, HeapSize DEF Listed, Address
<1>4. Types(r, z, u \cup {a}, top)
  BY <1>1, <1>2, <1>3 DEF Types
<1> HIDE DEF r
<1>5. Blocks(r, u \cup {a}) = Blocks(p, u)
  BY <1>2, <1>3 DEF Blocks
<1>6. q # a
  BY <1>2, <1>3
<1> QED BY <1>1, <1>2, <1>4, <1>5, <1>6 DEF Sound, r

\* The upper part of a block of the list is given.
LEMMA GivenPart ==
    ASSUME NEW p, NEW z, NEW u, NEW top, Sound(p, z, u, top),
           NEW a \in Listed(p), a # 0, NEW n \in Nat, n >= 1, z[a] > n,
           NEW b, b = a + z[a] - n
    PROVE  /\ Sound(p, CutZ(z, a, n), u \cup {b}, top)
           /\ \A x \in Listed(p) : \/ CutZ(z, a, n)[x] = z[x]
                                   \/ x + CutZ(z, a, n)[x] = b
           /\ b \notin Listed(p)
<1> DEFINE L == Listed(p)
           B == Blocks(p, u)
           y == CutZ(z, a, n)
<1>0. y = [z EXCEPT ![a] = z[a] - n, ![b] = n]
  BY DEF CutZ
<1> HIDE DEF y
<1>1. Types(p, z, u, top) /\ Circle(p) /\ Tiling(B, z, top)
  BY DEF Sound
<1>2. B \subseteq Address /\ B \subseteq Nat /\ top \in Nat /\ top <= HEAP + 1
  BY <1>1, BlocksAre
<1>3. /\ a \in Address /\ a \in Nat /\ z[a] \in Nat /\ a \in B /\ a >= 1 /\ a + z[a] <= top
      /\ L \subseteq Address
  <2>1. a \in B /\ L \subseteq Address
    BY DEF Blocks, Listed
  <2> QED BY <1>1, <1>2, <2>1 DEF Types, Tiling
<1>4. b \in Nat /\ b > a /\ b + n = a + z[a] /\ b \in Address /\ b \in 1 .. HEAP
  <2>1. b \in Nat /\ b > a /\ b + n = a + z[a]
    BY <1>3
  <2>2. b <= HEAP
    BY <1>2, <1>3, <2>1, HeapSize
  <2> QED BY <1>3, <2>1, <2>2, HeapSize
<1>5. /\ y \in [Address -> Nat] /\ y[a] = z[a] - n /\ y[b] = n
      /\ \A x \in Address \ {a, b} : y[x] = z[x]
  <2>1. z[a] - n \in Nat
    BY <1>3
  <2> QED BY <1>0, <1>1, <1>3, <1>4, <2>1 DEF Types
<1>6. b \notin B
  <2> SUFFICES ASSUME b \in B PROVE FALSE
    OBVIOUS
  <2>1. a + z[a] <= b
    BY <1>1, <1>3, <1>4 DEF Tiling
  <2> QED BY <1>3, <1>4, <2>1
<1>7. b \notin L
  BY <1>4, <1>6 DEF Blocks
<1>8. Types(p, y, u \cup {b}, top)
  <2>1. y[0] = 0
    BY <1>1, <1>3, <1>4, <1>5, HeapSize DEF Types
  <2> QED BY <1>1, <1>4, <1>5, <1>7, <2>1 DEF Types
<1>9. Blocks(p, u \cup {b}) = B \cup {b}
  BY DEF Blocks
<1>10. Tiling(B \cup {b}, y, top)
  <2>1. ASSUME NEW x \in B \cup {b} PROVE x >= 1 /\ y[x] >= 1 /\ x + y[x] <= top
    <3>1. CASE x = b
      BY <1>2, <1>3, <1>4, <1>5, <3>1
    <3>2. CASE x = a
      BY <1>2, <1>3, <1>4, <1>5, <3>2
    <3>3. CASE x \in B \ {a, b}
      BY <1>1, <1>2, <1>5, <3>3 DEF Tiling
    <3> QED BY <3>1, <3>2, <3>3
  <2>2. ASSUME NEW x \in B \cup {b}, NEW w \in B \cup {b}, x < w PROVE x + y[x] <= w
    <3>1. CASE x = b
      <4>1. w \in B /\ a < w
        <5>1. w # b
          BY <1>4, <2>2, <3>1
        <5>2. w \in B /\ w \in Nat
          BY <1>2, <5>1
        <5> QED BY <1>3, <1>4, <2>2, <3>1, <5>2
      <4>2. a + z[a] <= w
        BY <1>1, <1>3, <4>1 DEF Tiling
      <4> QED BY <1>4, <1>5, <3>1, <4>2
    <3>2. CASE x = a
      <4>1. CASE w = b
        BY <1>3, <1>4, <1>5, <3>2, <4>1
      <4>2. CASE w # b
        <5>1. a + z[a] <= w /\ w \in Nat
          BY <1>1, <1>2, <1>3, <2>2, <3>2, <4>2 DEF Tiling
        <5> QED BY <1>3, <1>5, <3>2, <5>1
      <4> QED BY <4>1, <4>2
    <3>3. CASE x \in B \ {a, b}
      <4>1. x \in Nat /\ y[x] = z[x] /\ z[x] \in Nat /\ x \in Address
        BY <1>1, <1>2, <1>5, <3>3 DEF Types
      <4>2. CASE w = b
        <5>1. x < a
          <6> SUFFICES ASSUME a < x PROVE FALSE
            BY <1>3, <3>3, <4>1
          <6>1. a + z[a] <= x
            BY <1>1, <1>3, <3>3 DEF Tiling
          <6> QED BY <1>3, <1>4, <2>2, <4>1, <4>2, <6>1
        <5>2. x + z[x] <= a
          BY <1>1, <1>3, <3>3, <5>1 DEF Tiling
        <5> QED BY <1>3, <1>4, <4>1, <4>2, <5>2
      <4>3. CASE w # b
        BY <1>1, <2>2, <3>3, <4>1, <4>3 DEF Tiling
      <4> QED BY <4>2, <4>3
    <3> QED BY <3>1, <3>2, <3>3
  <2>3. ASSUME NEW x \in 1 .. top - 1 PROVE \E e \in B \cup {b} : e <= x /\ x < e + y[e]
    <3>1. PICK e \in B : e <= x /\ x < e + z[e]
      BY <1>1 DEF Tiling
    <3>2. CASE e = a
      <4>1. CASE x < b
        BY <1>3, <1>4, <1>5, <3>1, <3>2, <4>1
      <4>2. CASE ~ (x < b)
        BY <1>2, <1>3, <1>4, <1>5, <3>1, <3>2, <4>2
      <4> QED BY <4>1, <4>2
    <3>3. CASE e # a
      BY <1>2, <1>5, <1>6, <3>1, <3>3
    <3> QED BY <3>2, <3>3
  <2> QED BY <2>1, <2>2, <2>3 DEF Tiling
<1>11. \A x \in L : y[x] = z[x] \/ x + y[x] = b
  <2>1. a + (z[a] - n) = b
    BY <1>3, <1>4
  <2>2. \A x \in L \ {a} : y[x] = z[x]
    BY <1>3, <1>5, <1>7
  <2>3. a + y[a] = b
    BY <1>5, <2>1
  <2> QED BY <2>2, <2>3
<1> QED BY <1>1, <1>7, <1>8, <1>9, <1>10, <1>11 DEF Sound, y

\* morecore() adds a block, which is the program's until free() gets it.
RoomFor(p, z, u, top, m) ==
    Sound(p, z, u, top) /\ m \in Nat /\ m >= 1 /\ top + m <= HEAP

GrownBy(p, z, u, top, m) ==
    /\ Sound(p, Put(z, top, m), u \cup {top}, top + m)
    /\ top \notin Listed(p) /\ top \notin u /\ top \in Address
    /\ \A x \in Listed(p) : Put(z, top, m)[x] = z[x]
    /\ Put(z, top, m)[top] = m

LEMMA Grown ==
    ASSUME NEW p, NEW z, NEW u, NEW top, NEW m, RoomFor(p, z, u, top, m)
    PROVE  GrownBy(p, z, u, top, m)
<1> SUFFICES ASSUME Sound(p, z, u, top), m \in Nat, m >= 1, top + m <= HEAP
             PROVE  GrownBy(p, z, u, top, m)
  BY DEF RoomFor
<1> DEFINE B == Blocks(p, u)
           y == Put(z, top, m)
<1>0. y = [z EXCEPT ![top] = m]
  BY DEF Put
<1> HIDE DEF y
<1>1. Types(p, z, u, top) /\ Circle(p) /\ Tiling(B, z, top)
  BY DEF Sound
<1>2. B \subseteq Address /\ B \subseteq Nat /\ top \in Nat /\ top \in 1 .. HEAP /\ top \in Address
  <2>1. B \subseteq Address /\ B \subseteq Nat /\ top \in Nat
    BY <1>1, BlocksAre
  <2>2. top >= 1
    BY <1>1, HeapSize DEF Types
  <2>3. top <= HEAP
    BY <2>1, HeapSize
  <2> QED BY <2>1, <2>2, <2>3, HeapSize
<1>3. top \notin B
  <2> SUFFICES ASSUME top \in B PROVE FALSE
    OBVIOUS
  <2>1. z[top] >= 1 /\ top + z[top] <= top /\ z[top] \in Nat
    BY <1>1, <1>2 DEF Tiling, Types
  <2> QED BY <1>2, <2>1
<1>4. /\ y \in [Address -> Nat] /\ y[top] = m
      /\ \A x \in Address \ {top} : y[x] = z[x]
  BY <1>0, <1>1, <1>2 DEF Types
<1>5. top \notin Listed(p) /\ top \notin u /\ Blocks(p, u \cup {top}) = B \cup {top}
  BY <1>2, <1>3 DEF Blocks
<1>6. Types(p, y, u \cup {top}, top + m)
  <2>1. y[0] = 0 /\ top + m \in 1 .. HEAP + 1
    BY <1>1, <1>2, <1>4, HeapSize DEF Types
  <2> QED BY <1>1, <1>2, <1>4, <1>5, <2>1 DEF Types
<1>7. \A x \in B : y[x] = z[x] /\ z[x] \in Nat /\ x \in Nat /\ x + z[x] <= top /\ z[x] >= 1 /\ x >= 1
  BY <1>1, <1>2, <1>3, <1>4 DEF Types, Tiling
<1>8. Tiling(B \cup {top}, y, top + m)
  <2>1. ASSUME NEW x \in B \cup {top} PROVE x >= 1 /\ y[x] >= 1 /\ x + y[x] <= top + m
    <3>1. CASE x = top
      BY <1>2, <1>4, <3>1
    <3>2. CASE x \in B
      BY <1>2, <1>7, <3>2
    <3> QED BY <3>1, <3>2
  <2>2. ASSUME NEW x \in B \cup {top}, NEW w \in B \cup {top}, x < w PROVE x + y[x] <= w
    <3>1. CASE x = top
      <4>1. w \in B /\ w + z[w] <= top
        BY <1>2, <1>7, <2>2, <3>1
      <4> QED BY <1>2, <1>7, <2>2, <3>1, <4>1
    <3>2. CASE x \in B /\ w \in B
      BY <1>1, <1>7, <2>2, <3>2 DEF Tiling
    <3>3. CASE x \in B /\ w = top
      BY <1>7, <3>3
    <3> QED BY <3>1, <3>2, <3>3
  <2>3. ASSUME NEW x \in 1 .. (top + m) - 1
        PROVE  \E e \in B \cup {top} : e <= x /\ x < e + y[e]
    <3>1. CASE x < top
      <4>1. x \in 1 .. top - 1
        BY <1>2, <3>1
      <4>2. PICK e \in B : e <= x /\ x < e + z[e]
        BY <1>1, <4>1 DEF Tiling
      <4> QED BY <1>7, <4>2
    <3>2. CASE ~ (x < top)
      BY <1>2, <1>4, <3>2
    <3> QED BY <3>1, <3>2
  <2> QED BY <2>1, <2>2, <2>3 DEF Tiling
<1>9. \A x \in Listed(p) : y[x] = z[x] /\ x # top /\ x + z[x] <= top
  <2> SUFFICES ASSUME NEW x \in Listed(p)
               PROVE  y[x] = z[x] /\ x # top /\ x + z[x] <= top
    OBVIOUS
  <2>1. x \in Address /\ x # top
    BY <1>5 DEF Listed
  <2>2. CASE x = 0
    BY <1>1, <1>2, <1>4, <2>1, <2>2 DEF Types
  <2>3. CASE x # 0
    BY <1>7, <2>1, <2>3 DEF Blocks
  <2> QED BY <2>2, <2>3
<1> QED BY <1>1, <1>2, <1>4, <1>5, <1>6, <1>8, <1>9 DEF GrownBy, Sound, y

-----------------------------------------------------------------------------
\* The blocks of the list that touch.
Touching(p, z) == {e \in (Listed(p) \ {0}) \X (Listed(p) \ {0}) : e[1] + z[e[1]] = e[2]}

\* A block put on the list touches the one before and the one after, at most.
LEMMA LinkTouches ==
    ASSUME NEW p, NEW z, NEW u, NEW top, Sound(p, z, u, top), Touching(p, z) = {},
           NEW b \in u, NEW q \in Listed(p), q < b,
           \A x \in Listed(p) : x < b => x <= q,
           NEW r, Listed(r) = Listed(p) \cup {b}
    PROVE  \A e \in Touching(r, z) : e = <<q, b>> \/ e = <<b, p[q]>>
<1> DEFINE L == Listed(p)
           B == Blocks(p, u)
<1>1. Types(p, z, u, top) /\ Circle(p) /\ Tiling(B, z, top)
  BY DEF Sound
<1>2. /\ L \subseteq Nat /\ L \subseteq Address /\ B \subseteq Nat /\ B \subseteq Address
      /\ L \ {0} \subseteq B /\ b \in B /\ b \in Nat /\ q \in Nat /\ b \notin L /\ b > 0
      /\ \A x \in B : z[x] \in Nat /\ z[x] >= 1
  <2>1. L \ {0} \subseteq B /\ b \in B /\ b \notin L /\ b \in 1 .. HEAP
    BY <1>1 DEF Blocks, Types
  <2>2. L \subseteq Nat /\ L \subseteq Address /\ B \subseteq Nat /\ B \subseteq Address
    BY <1>1, BlocksAre
  <2>3. \A x \in B : z[x] \in Nat /\ z[x] >= 1
    BY <1>1, <2>2 DEF Types, Tiling
  <2> QED BY <2>1, <2>2, <2>3
<1>3. SUFFICES ASSUME NEW x \in (L \cup {b}) \ {0}, NEW y \in (L \cup {b}) \ {0}, x + z[x] = y
               PROVE  (x = q /\ y = b) \/ (x = b /\ y = p[q])
  BY DEF Touching
<1>4. x \in B /\ y \in B /\ x \in Nat /\ y \in Nat /\ x < y
  <2>1. x \in B /\ y \in B
    BY <1>2
  <2> QED BY <1>2, <1>3, <2>1
<1>5. CASE y = b
  <2>1. x \in L /\ x <= q
    BY <1>4, <1>5
  <2>2. CASE x < q
    <3>1. q \in B
      BY <1>2, <1>4, <2>2
    <3>2. x + z[x] <= q
      BY <1>1, <1>4, <2>2, <3>1 DEF Tiling
    <3> QED BY <1>2, <1>3, <1>5, <3>2
  <2>3. CASE ~ (x < q)
    BY <1>2, <1>4, <1>5, <2>1, <2>3
  <2> QED BY <2>2, <2>3
<1>6. CASE x = b
  <2>1. y \in L /\ y > q
    BY <1>2, <1>4, <1>6
  <2>2. After(L, q, p[q])
    BY <1>1 DEF Circle
  <2>3. p[q] > q /\ p[q] \in L /\ p[q] <= y
    <3>1. ~ (y <= q)
      BY <1>2, <1>4, <2>1
    <3> QED BY <2>1, <2>2, <3>1 DEF After
  <2>4. p[q] > b /\ p[q] \in B /\ p[q] \in Nat
    <3>1. p[q] \in Nat /\ p[q] # 0 /\ p[q] # b
      BY <1>2, <2>3
    <3>2. ~ (p[q] < b)
      BY <1>2, <2>3, <3>1
    <3> QED BY <1>2, <2>3, <3>1, <3>2
  <2>5. b + z[b] <= p[q]
    BY <1>1, <1>2, <2>4 DEF Tiling
  <2> QED BY <1>3, <1>4, <1>6, <2>3, <2>4, <2>5
<1>7. CASE x \in L /\ y \in L
  <2>1. <<x, y>> \in Touching(p, z)
    BY <1>3, <1>7 DEF Touching
  <2> QED BY <2>1
<1> QED BY <1>5, <1>6, <1>7

\* Joined, the two touch what the second has touched.
LEMMA MergeTouches ==
    ASSUME NEW p, NEW z, NEW u, NEW top, Sound(p, z, u, top),
           NEW a \in Listed(p), a # 0, NEW c \in Listed(p), a + z[a] = c, c # a, c # 0,
           NEW r, Listed(r) = Listed(p) \ {c}
    PROVE  \A e \in Touching(r, JoinZ(z, a, c)) :
              \/ e \in Touching(p, z) /\ e[1] # a
              \/ e[1] = a /\ <<c, e[2]>> \in Touching(p, z)
<1> DEFINE y == JoinZ(z, a, c)
<1>0. y = [z EXCEPT ![a] = z[a] + z[c], ![c] = 0]
  BY DEF JoinZ
<1> HIDE DEF y
<1>1. Types(p, z, u, top)
  BY DEF Sound
<1>2. Listed(p) \subseteq Address /\ Listed(p) \subseteq Nat /\ \A x \in Address : z[x] \in Nat
  BY <1>1, BlocksAre DEF Types
<1>3. y[a] = z[a] + z[c] /\ \A x \in Address \ {a, c} : y[x] = z[x]
  BY <1>0, <1>1, <1>2 DEF Types
<1>4. SUFFICES ASSUME NEW x \in Listed(p) \ {0, c}, NEW w \in Listed(p) \ {0, c}, x + y[x] = w
               PROVE  \/ <<x, w>> \in Touching(p, z) /\ x # a
                      \/ x = a /\ <<c, w>> \in Touching(p, z)
  BY DEF Touching, y
<1>5. CASE x = a
  <2>1. a + (z[a] + z[c]) = w /\ z[a] \in Nat /\ z[c] \in Nat /\ a \in Nat /\ c \in Nat
    BY <1>2, <1>3, <1>4, <1>5
  <2>2. c + z[c] = w
    BY <2>1
  <2> QED BY <1>5, <2>2 DEF Touching
<1>6. CASE x # a
  <2>1. x + z[x] = w
    BY <1>2, <1>3, <1>4, <1>6
  <2> QED BY <1>6, <2>1 DEF Touching
<1> QED BY <1>5, <1>6

-----------------------------------------------------------------------------
(***************************************************************************)
(* free() and malloc() on a heap that is sound.                            *)
(***************************************************************************)
Heaped(h) == DOMAIN h = {"ptr", "size", "at"}

\* free() is: put the block on the list, join it with the one after, join both with
\* the one before.
LEMMA WithoutIs ==
    ASSUME NEW h, Heaped(h), NEW a
    PROVE  /\ Heaped(Without(h, a)) /\ Without(h, a).at = h.at
           /\ Without(h, a).ptr = Put(h.ptr, a, NotFree)
           /\ Without(h, a).size = Put(h.size, a, 0)
BY DEF Without, Heaped, Put

LEMMA InsertIs ==
    ASSUME NEW h, Heaped(h), NEW p, NEW z, p = h.ptr, z = h.size,
           p \in [Address -> Address \cup {NotFree}], z \in [Address -> Nat],
           NEW b, NEW q, NEW n, q = Before(h, b), n = p[q],
           b \in Address, q \in Address, n \in Address, b # q, b # n, b + z[b] = n => n # q,
           NEW r, r = (IF b + z[b] = n THEN DropP(LinkP(p, b, q), b) ELSE LinkP(p, b, q)),
           NEW y, y = (IF b + z[b] = n THEN JoinZ(z, b, n) ELSE z)
    PROVE  /\ Heaped(Insert(h, b)) /\ Insert(h, b).at = q
           /\ Insert(h, b).ptr = IF q + z[q] = b THEN DropP(r, q) ELSE r
           /\ Insert(h, b).size = IF q + z[q] = b THEN JoinZ(y, q, b) ELSE y
<1> DEFINE up == IF b + z[b] = n
                 THEN Without([h EXCEPT !.size[b] = @ + h.size[n], !.ptr[b] = h.ptr[n]], n)
                 ELSE [h EXCEPT !.ptr[b] = n]
           g == Insert(h, b)
           R == Address \cup {NotFree}
<1>1. g = IF q + z[q] = b
          THEN Without([up EXCEPT !.size[q] = @ + up.size[b], !.ptr[q] = up.ptr[b], !.at = q], b)
          ELSE [up EXCEPT !.ptr[q] = b, !.at = q]
  BY DEF Insert, Touches
<1> HIDE DEF g, R
\* The list above the block.
<1>2. \E x \in [Address -> R] : /\ Heaped(up) /\ up.ptr = x /\ up.size = y
                               /\ r = [x EXCEPT ![q] = b]
  <2>1. CASE b + z[b] = n
    <3> DEFINE j == [h EXCEPT !.size[b] = @ + h.size[n], !.ptr[b] = h.ptr[n]]
               x == [p EXCEPT ![b] = p[n], ![n] = NotFree]
    <3>1. /\ Heaped(j) /\ j.ptr = [p EXCEPT ![b] = p[n]]
          /\ j.size = [z EXCEPT ![b] = z[b] + z[n]]
      BY DEF Heaped
    <3>2. up = Without(j, n)
      BY <2>1
    <3> HIDE DEF j, up
    <3>3. Heaped(up) /\ up.ptr = Put(j.ptr, n, NotFree) /\ up.size = Put(j.size, n, 0)
      BY <3>1, <3>2, WithoutIs
    <3>4. up.ptr = x
      BY <3>1, <3>3 DEF Put
    <3>5. up.size = y
      BY <2>1, <3>1, <3>3 DEF Put, JoinZ
    <3>6. x \in [Address -> R]
      BY DEF R
    <3>7. r = [x EXCEPT ![q] = b]
      <4> DEFINE l == LinkP(p, b, q)
      <4>1. l = [p EXCEPT ![b] = n, ![q] = b]
        BY DEF LinkP
      <4>2. l[b] = n /\ l[n] = p[n]
        BY <2>1, <4>1
      <4>3. r = [l EXCEPT ![b] = l[n], ![n] = NotFree]
        BY <2>1, <4>2 DEF DropP
      <4> HIDE DEF l
      <4> QED BY <2>1, <4>1, <4>2, <4>3
    <3> HIDE DEF x
    <3> QED BY <3>3, <3>4, <3>5, <3>6, <3>7
  <2>2. CASE b + z[b] # n
    <3> DEFINE x == [p EXCEPT ![b] = n]
    <3>1. x \in [Address -> R] /\ r = [x EXCEPT ![q] = b] /\ y = z
      BY <2>2 DEF R, LinkP
    <3>2. Heaped(up) /\ up.ptr = x /\ up.size = y
      BY <2>2 DEF Heaped
    <3> HIDE DEF x, up
    <3> QED BY <3>1, <3>2
  <2> QED BY <2>1, <2>2
<1> HIDE DEF up
<1>3. PICK x \in [Address -> R] : /\ Heaped(up) /\ up.ptr = x /\ up.size = y
                                 /\ r = [x EXCEPT ![q] = b]
  BY <1>2
<1>4. CASE q + z[q] = b
  <2> DEFINE j == [up EXCEPT !.size[q] = @ + up.size[b], !.ptr[q] = up.ptr[b], !.at = q]
  <2>1. /\ Heaped(j) /\ j.ptr = [x EXCEPT ![q] = x[b]] /\ j.at = q
        /\ j.size = [y EXCEPT ![q] = y[q] + y[b]]
    BY <1>3 DEF Heaped
  <2>2. g = Without(j, b)
    BY <1>1, <1>4
  <2> HIDE DEF j
  <2>3. Heaped(g) /\ g.at = q /\ g.ptr = Put(j.ptr, b, NotFree) /\ g.size = Put(j.size, b, 0)
    BY <2>1, <2>2, WithoutIs
  <2>4. g.size = JoinZ(y, q, b)
    BY <2>1, <2>3 DEF Put, JoinZ
  <2>5. g.ptr = [x EXCEPT ![q] = x[b], ![b] = NotFree]
    BY <2>1, <2>3 DEF Put
  <2>6. r[q] = b /\ r[b] = x[b]
    BY <1>3
  <2>7. DropP(r, q) = [r EXCEPT ![q] = r[b], ![b] = NotFree]
    BY <2>6 DEF DropP
  <2>8. DropP(r, q) = [x EXCEPT ![q] = x[b], ![b] = NotFree]
    BY <1>3, <2>6, <2>7
  <2> QED BY <1>4, <2>3, <2>4, <2>5, <2>8 DEF g
<1>5. CASE q + z[q] # b
  BY <1>1, <1>3, <1>5 DEF Heaped, g
<1> QED BY <1>4, <1>5

\* A sound heap with all joined that can be joined.
HeapOf(h, u, top) ==
    /\ Heaped(h) /\ h.at \in Listed(h.ptr)
    /\ Sound(h.ptr, h.size, u, top) /\ Touching(h.ptr, h.size) = {}

LEMMA FreeKeeps ==
    ASSUME NEW h, NEW u, NEW top, NEW b \in u,
           Heaped(h), h.at \in Listed(h.ptr), Sound(h.ptr, h.size, u, top),
           Touching(h.ptr, h.size) = {}
    PROVE  /\ HeapOf(Insert(h, b), u \ {b}, top)
           /\ \E x \in Listed(Insert(h, b).ptr) : Insert(h, b).size[x] >= h.size[b]
<1> DEFINE p == h.ptr
           z == h.size
           q == Before(h, b)
           n == p[q]
           L == Listed(p)
           g == Insert(h, b)
<1>1. Types(p, z, u, top) /\ Circle(p) /\ Sound(p, z, u, top) /\ h.at \in L
      /\ Touching(p, z) = {}
  BY DEF Sound
<1>2. b \in 1 .. HEAP /\ b \notin L /\ b \in Address /\ z[b] \in Nat /\ b \in Nat
  <2>1. b \in 1 .. HEAP /\ b \notin L
    BY <1>1 DEF Types
  <2>2. b \in Address
    BY <2>1, HeapSize
  <2> QED BY <1>1, <2>1, <2>2 DEF Types
<1>3. q \in L /\ q < b /\ \A x \in L : x < b => x <= q
  BY <1>1, <1>2, BeforeIs
<1>4. L \subseteq Address /\ L \subseteq Nat /\ n \in L /\ (n > q \/ n = 0)
  <2>1. L \subseteq Address /\ L \subseteq Nat
    BY <1>1, BlocksAre
  <2>2. After(L, q, n) /\ 0 \in L
    BY <1>1, <1>3 DEF Circle
  <2> QED BY <2>1, <2>2 DEF After
<1>5. z[b] >= 1
  <2>1. b \in Blocks(p, u)
    BY DEF Blocks
  <2> QED BY <1>1, <2>1 DEF Sound, Tiling
<1>6. b # q /\ b # n /\ (b + z[b] = n => n # q)
  <2>1. b # q /\ b # n /\ q \in Nat
    BY <1>2, <1>3, <1>4
  <2>2. b + z[b] # q
    BY <1>2, <1>3, <1>5, <2>1
  <2> QED BY <2>1, <2>2
<1> DEFINE r  == LinkP(p, b, q)
           rr == IF b + z[b] = n THEN DropP(r, b) ELSE r
           y  == IF b + z[b] = n THEN JoinZ(z, b, n) ELSE z
           v  == u \ {b}
<1>7. /\ Heaped(g) /\ g.at = q
      /\ g.ptr = IF q + z[q] = b THEN DropP(rr, q) ELSE rr
      /\ g.size = IF q + z[q] = b THEN JoinZ(y, q, b) ELSE y
  <2>1. p \in [Address -> Address \cup {NotFree}] /\ z \in [Address -> Nat]
    BY <1>1 DEF Types
  <2>2. q \in Address /\ n \in Address
    BY <1>3, <1>4
  <2>3. rr = (IF b + z[b] = n THEN DropP(LinkP(p, b, q), b) ELSE LinkP(p, b, q))
    OBVIOUS
  <2>4. y = (IF b + z[b] = n THEN JoinZ(z, b, n) ELSE z)
    OBVIOUS
  <2>5. p = h.ptr /\ z = h.size /\ q = Before(h, b) /\ n = p[q] /\ g = Insert(h, b)
    OBVIOUS
  <2> HIDE DEF p, z, q, n, L, g, r, rr, y
  <2> QED BY <1>2, <1>6, <2>1, <2>2, <2>3, <2>4, <2>5, InsertIs
<1>8. n = p[q]
  OBVIOUS
<1> HIDE DEF p, z, q, n, g
\* The block is put on the list,
<1>9. Sound(r, z, v, top) /\ Listed(r) = L \cup {b} /\ r[b] = n /\ r[q] = b
  BY <1>1, <1>3, <1>8, Linked
<1>10. \A e \in Touching(r, z) : e = <<q, b>> \/ e = <<b, n>>
  BY <1>1, <1>3, <1>8, <1>9, LinkTouches
<1> HIDE DEF r
\* joined with the next,
<1>12. /\ Sound(rr, y, v, top) /\ q \in Listed(rr) /\ b \in Listed(rr)
       /\ \A e \in Touching(rr, y) : e = <<q, b>>
       /\ y[b] >= z[b] /\ y[q] = z[q] /\ rr[q] = b /\ y[b] \in Nat
  <2>1. CASE b + z[b] = n
    <3>1. rr = DropP(r, b) /\ y = JoinZ(z, b, n)
      BY <2>1
    <3> HIDE DEF rr, y
    <3>2. b \in Listed(r) /\ b # 0 /\ n = r[b]
      BY <1>2, <1>9
    <3>3. /\ Sound(rr, y, v, top) /\ Listed(rr) = Listed(r) \ {n} /\ n \in Listed(r)
          /\ n # b /\ n # 0 /\ y[b] = z[b] + z[n]
          /\ \A x \in Address \ {b, n} : rr[x] = r[x] /\ y[x] = z[x]
      BY <1>9, <2>1, <3>1, <3>2, Merged
    <3>4. \A e \in Touching(rr, y) : \/ e \in Touching(r, z) /\ e[1] # b
                                     \/ e[1] = b /\ <<n, e[2]>> \in Touching(r, z)
      BY <1>9, <2>1, <3>1, <3>2, <3>3, MergeTouches
    <3>5. q # n
      BY <1>6, <2>1
    <3>6. \A e \in Touching(rr, y) : e = <<q, b>>
      <4> SUFFICES ASSUME NEW e \in Touching(rr, y) PROVE e = <<q, b>>
        OBVIOUS
      <4>1. CASE e \in Touching(r, z) /\ e[1] # b
        BY <1>10, <4>1
      <4>2. ASSUME <<n, e[2]>> \in Touching(r, z) PROVE FALSE
        <5>1. <<n, e[2]>> = <<q, b>> \/ <<n, e[2]>> = <<b, n>>
          BY <1>10, <4>2
        <5> QED BY <3>3, <3>5, <5>1
      <4> QED BY <3>4, <4>1, <4>2
    <3>7. z \in [Address -> Nat] /\ n \in Address /\ q \in Address
      BY <1>1, <1>3, <1>4 DEF Types
    <3>8. y[q] = z[q] /\ z[n] \in Nat /\ rr[q] = r[q]
      BY <1>6, <3>3, <3>5, <3>7
    <3>10. q \in Listed(rr) /\ b \in Listed(rr)
      BY <1>3, <1>9, <3>3, <3>5
    <3>11. y[b] >= z[b] /\ y[b] \in Nat
      BY <1>2, <3>3, <3>8
    <3> QED BY <1>9, <3>3, <3>6, <3>8, <3>10, <3>11
  <2>2. CASE b + z[b] # n
    <3>1. rr = r /\ y = z
      BY <2>2
    <3>2. \A e \in Touching(r, z) : e = <<q, b>>
      <4> SUFFICES ASSUME <<b, n>> \in Touching(r, z) PROVE FALSE
        BY <1>10
      <4> QED BY <2>2 DEF Touching
    <3> HIDE DEF rr, y
    <3> QED BY <1>2, <1>3, <1>9, <3>1, <3>2
  <2> QED BY <2>1, <2>2
<1> HIDE DEF rr, y
\* and with the one before.
<1>13. /\ Sound(g.ptr, g.size, v, top) /\ q \in Listed(g.ptr) /\ Touching(g.ptr, g.size) = {}
       /\ \E x \in Listed(g.ptr) : g.size[x] >= z[b]
  <2>1. CASE q + z[q] = b
    <3> DEFINE d == g.ptr
               w == g.size
    <3>1. d = DropP(rr, q) /\ w = JoinZ(y, q, b)
      BY <1>7, <2>1
    <3> HIDE DEF d, w
    <3>2. q # 0
      <4>1. z[0] = 0
        BY <1>1 DEF Types
      <4> QED BY <1>2, <2>1, <4>1
    <3>3. q + y[q] = b /\ rr[q] = b
      BY <1>12, <2>1
    <3>4. /\ Sound(d, w, v, top) /\ Listed(d) = Listed(rr) \ {b} /\ b # q /\ b # 0
          /\ w[q] = y[q] + y[b]
      BY <1>12, <3>1, <3>2, <3>3, Merged
    <3>5. \A e \in Touching(d, w) : \/ e \in Touching(rr, y) /\ e[1] # q
                                    \/ e[1] = q /\ <<b, e[2]>> \in Touching(rr, y)
      BY <1>12, <3>1, <3>2, <3>3, <3>4, MergeTouches
    <3>6. Touching(d, w) = {}
      <4> SUFFICES ASSUME NEW e \in Touching(d, w) PROVE FALSE
        OBVIOUS
      <4>1. CASE e \in Touching(rr, y) /\ e[1] # q
        BY <1>12, <4>1
      <4>2. ASSUME <<b, e[2]>> \in Touching(rr, y) PROVE FALSE
        <5>1. <<b, e[2]>> = <<q, b>>
          BY <1>12, <4>2
        <5> QED BY <3>4, <5>1
      <4> QED BY <3>5, <4>1, <4>2
    <3>7. w[q] >= z[b]
      <4>1. y \in [Address -> Nat] /\ q \in Address
        BY <1>3, <1>4, <1>12 DEF Sound, Types
      <4>2. w[q] = y[q] + y[b] /\ y[q] \in Nat
        BY <3>4, <4>1
      <4> QED BY <1>2, <1>12, <4>2
    <3>8. q \in Listed(d)
      BY <1>12, <3>4
    <3> QED BY <3>4, <3>6, <3>7, <3>8 DEF d, w
  <2>2. CASE q + z[q] # b
    <3>1. g.ptr = rr /\ g.size = y
      BY <1>7, <2>2
    <3>2. Touching(rr, y) = {}
      <4> SUFFICES ASSUME <<q, b>> \in Touching(rr, y) PROVE FALSE
        BY <1>12
      <4>1. q + y[q] = b
        BY DEF Touching
      <4> QED BY <1>12, <2>2, <4>1
    <3> QED BY <1>12, <3>1, <3>2
  <2> QED BY <2>1, <2>2
<1> QED BY <1>7, <1>13 DEF HeapOf, g, z

\* malloc() from a list that has a block large enough.
LEMMA MallocKeeps ==
    ASSUME NEW h, NEW u, NEW top, HeapOf(h, u, top),
           NEW n \in Nat, n >= 1, Fits(h, n) # {}
    PROVE  HeapOf(Taken(h, n), u \cup {Given(h, n)}, top)
<1> DEFINE p == h.ptr
           z == h.size
           w == Walk(h)
           k == Min(Fits(h, n))
           q == w[k - 1]
           a == w[k]
           L == Listed(p)
           g == Taken(h, n)
           b == a + z[a] - n
<1>1. /\ Types(p, z, u, top) /\ Circle(p) /\ Sound(p, z, u, top) /\ h.at \in L
      /\ Touching(p, z) = {} /\ Heaped(h)
  BY DEF Sound, HeapOf
<1>2. Fits(h, n) = {i \in 1 .. Cardinality(L) : z[w[i]] >= n}
  BY DEF Fits, Nodes, Listed
<1>3. k \in 1 .. HEAP + 1 /\ z[w[k]] >= n
  <2>1. Cardinality(L) \in 0 .. HEAP + 1
    BY <1>1, Met
  <2>2. Fits(h, n) \subseteq Nat
    BY <1>2
  <2>3. k \in Fits(h, n)
    BY <2>2, LeastIn
  <2> QED BY <1>2, <2>1, <2>3, HeapSize
<1>4. q \in L /\ a \in L /\ a = p[q]
  <2>1. k - 1 \in 0 .. HEAP + 1 /\ k \in 0 .. HEAP + 1
    BY <1>3, HeapSize
  <2>2. a = p[q]
    BY <1>3, WalkIs
  <2>3. \A i \in 0 .. HEAP + 1 : w[i] \in L
    BY <1>1, Met
  <2> QED BY <2>1, <2>2, <2>3
<1>5. Given(h, n) = b
  BY DEF Given, FirstStep
<1>6. g = IF z[a] = n
          THEN [h EXCEPT !.ptr[q] = p[a], !.ptr[a] = NotFree, !.at = q]
          ELSE [h EXCEPT !.size[a] = @ - n, !.size[b] = n, !.at = q]
  BY DEF Taken, FirstStep
<1> HIDE DEF p, z, w, k, q, a, g
<1>7. a # 0 /\ z[a] \in Nat /\ z[a] >= n /\ a \in Nat /\ a \in Address
  <2>1. a \in Address /\ a \in Nat /\ z[0] = 0 /\ z[a] \in Nat
    BY <1>1, <1>4, BlocksAre DEF Types
  <2> QED BY <1>3, <2>1 DEF a
<1>8. CASE z[a] = n
  <2>1. g.ptr = DropP(p, q) /\ g.size = z /\ g.at = q /\ Heaped(g)
    <3>1. g = [h EXCEPT !.ptr[q] = p[a], !.ptr[a] = NotFree, !.at = q]
      BY <1>6, <1>8
    <3>2. Heaped(g) /\ g.at = q /\ g.size = z /\ g.ptr = [p EXCEPT ![q] = p[a], ![a] = NotFree]
      BY <1>1, <3>1 DEF Heaped, p, z
    <3> QED BY <1>4, <3>2 DEF DropP
  <2>2. b = a
    BY <1>7, <1>8
  <2>3. /\ Sound(DropP(p, q), z, u \cup {a}, top) /\ Listed(DropP(p, q)) = L \ {a} /\ q # a
    BY <1>1, <1>4, <1>7, GivenWhole
  <2>4. Touching(DropP(p, q), z) = {}
    BY <1>1, <2>3 DEF Touching
  <2> HIDE DEF b
  <2> QED BY <1>4, <1>5, <2>1, <2>2, <2>3, <2>4 DEF HeapOf, g
<1>9. CASE z[a] # n
  <2>1. g.ptr = p /\ g.size = CutZ(z, a, n) /\ g.at = q /\ Heaped(g)
    <3>1. g = [h EXCEPT !.size[a] = @ - n, !.size[b] = n, !.at = q]
      BY <1>6, <1>9
    <3>2. Heaped(g) /\ g.at = q /\ g.ptr = p /\ g.size = [z EXCEPT ![a] = z[a] - n, ![b] = n]
      BY <1>1, <3>1 DEF Heaped, p, z
    <3> QED BY <3>2 DEF CutZ
  <2>2. z[a] > n
    BY <1>7, <1>9
  <2> DEFINE y == CutZ(z, a, n)
  <2>3. /\ Sound(p, y, u \cup {b}, top) /\ b \notin L
        /\ \A x \in L : y[x] = z[x] \/ x + y[x] = b
    BY <1>1, <1>4, <1>7, <2>2, GivenPart
  <2> HIDE DEF y, b
  <2>4. Touching(p, y) = {}
    BY <1>1, <2>3 DEF Touching
  <2> QED BY <1>4, <1>5, <2>1, <2>3, <2>4 DEF HeapOf, g, y
<1> QED BY <1>8, <1>9

\* malloc() when morecore() has put a block on the list: it is large enough.
LEMMA MoreFits ==
    ASSUME NEW h, NEW u, NEW top, HeapOf(h, u, top), NEW n,
           \E x \in Listed(h.ptr) : h.size[x] >= n
    PROVE  Fits(h, n) # {}
<1>1. PICK x \in Listed(h.ptr) : h.size[x] >= n
  OBVIOUS
<1>2. PICK k \in 1 .. Cardinality(Listed(h.ptr)) : Walk(h)[k] = x
  BY Met DEF HeapOf, Sound
<1> QED BY <1>1, <1>2 DEF Fits, Nodes, Listed

LEMMA MoreIs ==
    \A n \in Nat : More(n) \in Nat /\ More(n) >= n /\ More(n) >= 1
BY UmallocAssumption DEF More, LargerOf

LEMMA MorecoreKeeps ==
    ASSUME NEW h, HeapOf(h, used, brk), NEW n \in Nat, brk + More(n) <= HEAP
    PROVE  /\ HeapOf(Morecore(h, n), used, brk + More(n))
           /\ Fits(Morecore(h, n), n) # {}
<1> DEFINE m == More(n)
           top == brk + m
           p == h.ptr
           y == Put(h.size, brk, m)
           j == [h EXCEPT !.size[brk] = m]
           g == Insert(j, brk)
<1>1. m \in Nat /\ m >= n /\ m >= 1 /\ brk + m <= HEAP
  BY MoreIs
<1>2. /\ Heaped(h) /\ h.at \in Listed(p) /\ Sound(p, h.size, used, brk)
      /\ Touching(p, h.size) = {}
  BY DEF HeapOf
<1>3. Heaped(j) /\ j.ptr = p /\ j.size = y /\ j.at = h.at
  BY <1>2 DEF Heaped, Put
<1> HIDE DEF j, y, m
<1>4. /\ Sound(p, y, used \cup {brk}, top) /\ brk \notin used
      /\ \A x \in Listed(p) : y[x] = h.size[x]
      /\ y[brk] = m
  <2> DEFINE z == h.size
  <2>1. m \in Nat /\ m >= 1 /\ brk + m <= HEAP /\ Sound(p, z, used, brk)
    BY <1>1, <1>2
  <2> HIDE DEF p, z
  <2>2. RoomFor(p, z, used, brk, m)
    BY <2>1 DEF RoomFor
  <2>3. GrownBy(p, z, used, brk, m)
    BY <2>2, Grown
  <2> QED BY <2>3 DEF GrownBy, y, z
<1>5. Touching(p, y) = {}
  BY <1>2, <1>4 DEF Touching
<1>6. /\ HeapOf(g, (used \cup {brk}) \ {brk}, top)
      /\ \E x \in Listed(g.ptr) : g.size[x] >= y[brk]
  <2>1. brk \in used \cup {brk}
    OBVIOUS
  <2> QED BY <1>2, <1>3, <1>4, <1>5, <2>1, FreeKeeps
<1>7. (used \cup {brk}) \ {brk} = used
  BY <1>4
<1>8. HeapOf(g, used, top)
  BY <1>6, <1>7
<1>9. \E x \in Listed(g.ptr) : g.size[x] >= n
  <2>1. PICK x \in Listed(g.ptr) : g.size[x] >= m
    BY <1>4, <1>6
  <2>2. g.size[x] \in Nat
    <3>1. g.size \in [Address -> Nat] /\ Listed(g.ptr) \subseteq Address
      BY <1>8 DEF HeapOf, Sound, Types, Listed
    <3> QED BY <3>1
  <2> QED BY <1>1, <2>1, <2>2
<1>10. Fits(g, n) # {}
  BY <1>8, <1>9, MoreFits
<1>11. g = Morecore(h, n)
  BY DEF Morecore, g, j, m
<1> QED BY <1>8, <1>10, <1>11 DEF m

-----------------------------------------------------------------------------
(***************************************************************************)
(* The inductive invariant.                                                *)
(***************************************************************************)
HeapInductive ==
    IF freep = NotFree
    THEN /\ ptr = [a \in Address |-> NotFree] /\ usize = [a \in Address |-> 0]
         /\ used = {} /\ brk = 1
    ELSE HeapOf(Heap, used, brk)

\* The first call makes the list.
LEMMA BasedHeap ==
    ASSUME HeapInductive
    PROVE  HeapOf(Based(Heap), used, brk)
<1>1. CASE freep # NotFree
  BY <1>1 DEF Based, Heap, HeapInductive
<1>2. CASE freep = NotFree
  <2> DEFINE h == Based(Heap)
  <2>0. /\ ptr = [a \in Address |-> NotFree] /\ usize = [a \in Address |-> 0]
        /\ used = {} /\ brk = 1
    BY <1>2 DEF HeapInductive
  <2>1. /\ Heaped(h) /\ h.at = 0 /\ h.ptr = [ptr EXCEPT ![0] = 0]
        /\ h.size = [usize EXCEPT ![0] = 0]
    BY <1>2 DEF Based, Heap, Heaped
  <2> HIDE DEF h
  <2> DEFINE p == [a \in Address |-> IF a = 0 THEN 0 ELSE NotFree]
             z == [a \in Address |-> 0]
  <2>2. 0 \in Address /\ 0 # NotFree /\ NotFree \in Nat
    BY HeapSize
  <2>3. h.ptr = p /\ h.size = z
    BY <2>0, <2>1, <2>2
  <2>4. Listed(p) = {0}
    BY <2>2 DEF Listed
  <2>5. Types(p, z, used, brk)
    <3>1. p \in [Address -> Address \cup {NotFree}]
      BY <2>2
    <3>2. z \in [Address -> Nat] /\ z[0] = 0
      BY <2>2
    <3>3. brk \in 1 .. HEAP + 1
      BY <2>0, HeapSize
    <3> HIDE DEF p, z
    <3> QED BY <2>0, <3>1, <3>2, <3>3 DEF Types
  <2>6. Circle(p)
    <3>1. p[0] = 0
      BY <2>2
    <3> HIDE DEF p
    <3> QED BY <2>4, <3>1 DEF Circle, After
  <2>7. Blocks(p, used) = {}
    BY <2>0, <2>4 DEF Blocks
  <2>8. Tiling({}, z, brk)
    BY <2>0 DEF Tiling
  <2>9. Touching(p, z) = {}
    BY <2>4 DEF Touching
  <2> HIDE DEF p, z
  <2> QED BY <2>1, <2>3, <2>4, <2>5, <2>6, <2>7, <2>8, <2>9 DEF HeapOf, Sound, h
<1> QED BY <1>1, <1>2

\* What an operation leaves is what the variables then say.
LEMMA Becoming ==
    ASSUME NEW h, Becomes(h), HeapOf(h, used', brk')
    PROVE  HeapInductive'
<1>1. ptr' = h.ptr /\ usize' = h.size /\ freep' = h.at
  BY DEF Becomes
<1>2. h.at \in Address
  BY DEF HeapOf, Listed
<1>3. freep' # NotFree
  BY <1>1, <1>2, HeapSize
<1>4. Heap' = [ptr |-> ptr', size |-> usize', at |-> freep']
  BY DEF Heap
<1>5. Heaped(Heap') /\ Heap'.ptr = h.ptr /\ Heap'.size = h.size /\ Heap'.at = h.at
  BY <1>1, <1>4 DEF Heaped
<1>6. HeapOf(Heap', used', brk')
  BY <1>5 DEF HeapOf
<1> QED BY <1>3, <1>6 DEF HeapInductive

LEMMA HeapStep ==
    ASSUME HeapInductive, [UNext]_uvars
    PROVE  HeapInductive'
<1>1. ASSUME NEW n \in Requests, Malloc(n) PROVE HeapInductive'
  <2> DEFINE h == Based(Heap)
  <2>1. HeapOf(h, used, brk)
    BY BasedHeap
  <2>2. n \in Nat /\ n >= 1
    BY UmallocAssumption
  <2>3. \/ /\ Fits(h, n) # {} /\ Becomes(Taken(h, n))
           /\ used' = used \cup {Given(h, n)} /\ brk' = brk
        \/ /\ brk + More(n) <= HEAP /\ Becomes(Taken(Morecore(h, n), n))
           /\ used' = used \cup {Given(Morecore(h, n), n)} /\ brk' = brk + More(n)
        \/ Becomes(h) /\ used' = used /\ brk' = brk
    BY <1>1 DEF Malloc
  <2> HIDE DEF h
  <2>4. CASE /\ Fits(h, n) # {} /\ Becomes(Taken(h, n))
             /\ used' = used \cup {Given(h, n)} /\ brk' = brk
    <3>1. HeapOf(Taken(h, n), used', brk')
      BY <2>1, <2>2, <2>4, MallocKeeps
    <3> QED BY <2>4, <3>1, Becoming
  <2>5. CASE /\ brk + More(n) <= HEAP /\ Becomes(Taken(Morecore(h, n), n))
             /\ used' = used \cup {Given(Morecore(h, n), n)} /\ brk' = brk + More(n)
    <3>1. HeapOf(Morecore(h, n), used, brk') /\ Fits(Morecore(h, n), n) # {}
      BY <2>1, <2>2, <2>5, MorecoreKeeps
    <3>2. HeapOf(Taken(Morecore(h, n), n), used', brk')
      BY <2>2, <2>5, <3>1, MallocKeeps
    <3> QED BY <2>5, <3>2, Becoming
  <2>6. CASE Becomes(h) /\ used' = used /\ brk' = brk
    <3>1. HeapOf(h, used', brk')
      BY <2>1, <2>6
    <3> QED BY <2>6, <3>1, Becoming
  <2> QED BY <2>3, <2>4, <2>5, <2>6
<1>2. ASSUME NEW b \in Address, Free(b) PROVE HeapInductive'
  <2>1. b \in used /\ Becomes(Insert(Heap, b)) /\ used' = used \ {b} /\ brk' = brk
    BY <1>2 DEF Free
  <2>2. HeapOf(Heap, used, brk)
    BY <2>1 DEF HeapInductive
  <2>3. HeapOf(Insert(Heap, b), used', brk')
    BY <2>1, <2>2, FreeKeeps DEF HeapOf
  <2> QED BY <2>1, <2>3, Becoming
<1>3. CASE UNCHANGED uvars
  BY <1>3 DEF uvars, HeapInductive, Heap
<1> QED BY <1>1, <1>2, <1>3 DEF UNext

LEMMA HeapInit == UInit => HeapInductive
BY DEF UInit, HeapInductive

LEMMA ImpliesHeap ==
    ASSUME HeapInductive
    PROVE  UmallocIInv
<1> DEFINE L == Nodes(Heap)
           B == FreeNodes \cup used
<1>1. L = Listed(ptr) /\ B = Blocks(ptr, used)
  BY DEF Nodes, Heap, Listed, FreeNodes, Blocks
<1>2. CASE freep = NotFree
  <2>1. L = {} /\ used = {} /\ brk = 1
    BY <1>2 DEF HeapInductive, Nodes, Heap
  <2>2. OneLap /\ Joined
    BY <1>2, <2>1 DEF OneLap, Joined, FreeNodes
  <2>3. Tiles
    BY <2>1 DEF Tiles, FreeNodes
  <2> QED BY <2>2, <2>3 DEF UmallocIInv
<1>3. CASE freep # NotFree
  <2>1. /\ Types(ptr, usize, used, brk) /\ Circle(ptr) /\ Tiling(B, usize, brk)
        /\ freep \in L /\ Touching(ptr, usize) = {}
    BY <1>1, <1>3 DEF HeapInductive, HeapOf, Heap, Sound
  <2>2. L \subseteq Nat /\ B \subseteq Nat /\ B \subseteq Address /\ brk \in Nat
    BY <1>1, <2>1, BlocksAre
  <2>3. OneLap
    <3>1. ASSUME NEW a \in L
          PROVE  ptr[a] = LET above == {b \in L : b > a} IN IF above = {} THEN 0 ELSE Min(above)
      <4> DEFINE above == {b \in L : b > a}
      <4>1. After(L, a, ptr[a]) /\ a \in Nat /\ 0 \in L
        BY <1>1, <2>1, <2>2 DEF Circle
      <4>2. ptr[a] \in Nat
        BY <2>2, <4>1 DEF After
      <4>3. CASE ptr[a] > a
        <5>1. ptr[a] \in above /\ \A x \in above : ptr[a] <= x
          BY <4>1, <4>3 DEF After
        <5>2. Min(above) \in above /\ \A x \in above : Min(above) <= x
          <6>1. above \subseteq Nat /\ above # {}
            BY <2>2, <5>1
          <6> HIDE DEF above
          <6> QED BY <6>1, LeastIn
        <5>3. Min(above) = ptr[a]
          <6>1. Min(above) <= ptr[a] /\ ptr[a] <= Min(above) /\ Min(above) \in Nat
            <7>1. above \subseteq Nat
              BY <2>2
            <7> HIDE DEF above
            <7> QED BY <5>1, <5>2, <7>1
          <6> HIDE DEF above
          <6> QED BY <4>2, <6>1
        <5> HIDE DEF above
        <5>4. ptr[a] = IF above = {} THEN 0 ELSE Min(above)
          BY <5>1, <5>3
        <5> QED BY <5>4 DEF above
      <4>4. CASE ~ (ptr[a] > a)
        <5>1. ptr[a] = 0 /\ \A x \in L : x <= a
          BY <4>1, <4>4 DEF After
        <5>2. above = {}
          BY <2>2, <4>1, <5>1
        <5> QED BY <5>1, <5>2
      <4> QED BY <4>3, <4>4
    <3> QED BY <1>1, <2>1, <3>1 DEF OneLap, Circle
  <2>4. Tiles
    <3>1. \A a \in B : usize[a] \in Nat /\ usize[a] >= 1
      BY <2>1, <2>2 DEF Types, Tiling
    <3>2. UNION {Held(a) : a \in B} = 1 .. brk - 1
      <4>1. ASSUME NEW a \in B, NEW x \in Held(a) PROVE x \in 1 .. brk - 1
        <5>1. a >= 1 /\ a + usize[a] <= brk /\ a \in Nat /\ x \in a .. a + usize[a] - 1
          BY <2>1, <2>2 DEF Tiling, Held
        <5> QED BY <2>2, <3>1, <5>1
      <4>2. ASSUME NEW x \in 1 .. brk - 1 PROVE \E a \in B : x \in Held(a)
        <5>1. PICK a \in B : a <= x /\ x < a + usize[a]
          BY <2>1 DEF Tiling
        <5>2. x \in a .. a + usize[a] - 1
          BY <2>2, <3>1, <5>1
        <5> QED BY <5>2 DEF Held
      <4> QED BY <4>1, <4>2
    <3>3. ASSUME NEW a \in B, NEW b \in B, a < b PROVE Held(a) \cap Held(b) = {}
      <4>1. a + usize[a] <= b
        BY <2>1, <3>3 DEF Tiling
      <4> QED BY <2>2, <3>1, <4>1 DEF Held
    <3>4. \A a, b \in B : a # b => Held(a) \cap Held(b) = {}
      <4> SUFFICES ASSUME NEW a \in B, NEW b \in B, a # b PROVE Held(a) \cap Held(b) = {}
        OBVIOUS
      <4>1. a < b \/ b < a
        BY <2>2
      <4> QED BY <3>3, <4>1
    <3>5. FreeNodes \cap used = {}
      BY <1>1, <2>1 DEF Types, FreeNodes
    <3> QED BY <3>2, <3>4, <3>5 DEF Tiles
  <2>5. Joined
    <3> SUFFICES ASSUME NEW a \in FreeNodes, NEW b \in FreeNodes, a + usize[a] = b PROVE FALSE
      BY DEF Joined
    <3>1. <<a, b>> \in Touching(ptr, usize)
      BY <1>1 DEF Touching, FreeNodes
    <3> QED BY <2>1, <3>1
  <2> QED BY <2>3, <2>4, <2>5 DEF UmallocIInv
<1> QED BY <1>2, <1>3

\* malloc() and free() keep the free list one circle in the order of the addresses, the
\* free blocks and those of the program tile the heap, and what free() can join is
\* joined: for a heap of any size and requests of any sizes (umalloc.c: malloc, free,
\* morecore).
THEOREM HeapInvariant == USpec => []UmallocIInv
BY HeapInit, HeapStep, ImpliesHeap, PTL DEF USpec

-----------------------------------------------------------------------------
\* wzip and wunzip.  Both are sums over a sequence: what each makes of a sequence with
\* one more element follows from what it makes of the sequence, and a claim about all
\* lengths from there being no least one at which it fails.
\*
\* What holds first, and of a number when of the one before it, holds of all.
LEMMA Upward ==
    ASSUME NEW m \in Nat, NEW n \in Nat, NEW P, m \in P,
           \A k \in m + 1 .. n : k - 1 \in P => k \in P
    PROVE  \A k \in m .. n : k \in P
<1> DEFINE Bad == {k \in m .. n : k \notin P}
<1> SUFFICES ASSUME Bad # {} PROVE FALSE
  OBVIOUS
<1>1. PICK k \in Bad : \A y \in Bad : k <= y
  <2>1. Bad \subseteq Nat
    OBVIOUS
  <2> HIDE DEF Bad
  <2> QED BY <2>1, LeastIn
<1>2. k \in m + 1 .. n /\ k - 1 \in m .. n /\ ~ (k <= k - 1)
  <2>1. k \in m .. n /\ k # m
    OBVIOUS
  <2> QED BY <2>1
<1>3. k - 1 \in P
  BY <1>1, <1>2
<1> QED BY <1>2, <1>3

\* There is a function that begins with c and goes on with the functions of D.
Goes(f, n, c, D) == f[1] = c /\ \A k \in 2 .. n : f[k] = D[k][f[k - 1]]

LEMMA Iterate ==
    ASSUME NEW n \in Nat, NEW S, NEW c \in S, NEW D \in [2 .. n -> [S -> S]], n >= 1
    PROVE  \E f \in [1 .. n -> S] : Goes(f, n, c, D)
<1> DEFINE Is(f, k) == Goes(f, k, c, D)
           P == {k \in 1 .. n : \E f \in [1 .. k -> S] : Is(f, k)}
<1>1. 1 \in P
  <2>1. [j \in 1 .. 1 |-> c] \in [1 .. 1 -> S] /\ Is([j \in 1 .. 1 |-> c], 1)
    BY DEF Goes
  <2>2. 1 \in 1 .. n
    OBVIOUS
  <2> HIDE DEF Is
  <2> QED BY <2>1, <2>2
<1>2. ASSUME NEW k \in 1 + 1 .. n, k - 1 \in P PROVE k \in P
  <2>1. PICK f \in [1 .. k - 1 -> S] : Is(f, k - 1)
    BY <1>2
  <2>2. k - 1 \in 1 .. k - 1 /\ k \in 2 .. n /\ k \in 1 .. n /\ k \in Int
    BY <1>2
  <2> DEFINE v == D[k][f[k - 1]]
             g == [j \in 1 .. k |-> IF j = k THEN v ELSE f[j]]
  <2>3. v \in S
    BY <2>2
  <2>4. \A j \in 1 .. k : j # k => j \in 1 .. k - 1
    BY <2>2
  <2>5. g \in [1 .. k -> S]
    <3> HIDE DEF v
    <3> QED BY <2>3, <2>4
  <2>6. g[1] = c
    BY <2>1, <2>2 DEF Goes
  <2>7. ASSUME NEW j \in 2 .. k PROVE g[j] = D[j][g[j - 1]]
    <3>1. j - 1 \in 1 .. k /\ j - 1 # k /\ g[j - 1] = f[j - 1]
      BY <2>2
    <3>2. CASE j = k
      BY <3>1, <3>2
    <3>3. CASE j # k
      <4>1. j \in 2 .. k - 1 /\ j \in 1 .. k
        BY <2>2, <3>3
      <4>2. g[j] = f[j]
        BY <4>1, <3>3
      <4>3. f[j] = D[j][f[j - 1]]
        BY <2>1, <4>1 DEF Goes
      <4> HIDE DEF g
      <4> QED BY <4>2, <4>3, <3>1
    <3> QED BY <3>2, <3>3
  <2>8. Is(g, k)
    <3> HIDE DEF g, v
    <3> QED BY <2>6, <2>7 DEF Goes
  <2> HIDE DEF g, Is
  <2> QED BY <2>2, <2>5, <2>8
<1>3. \A k \in 1 .. n : k \in P
  <2> HIDE DEF P
  <2> QED BY <1>1, <1>2, Upward, 1 \in Nat
<1>4. n \in P
  <2> HIDE DEF P
  <2> QED BY <1>3
<1> QED BY <1>4 DEF Is

-----------------------------------------------------------------------------
\* FlattenSeq() is the sequences one after the other.
LEMMA FlattenNil == FlattenSeq(<<>>) = <<>>
BY DEF FlattenSeq

Flattens(f, s) ==
    /\ f[1] = s[1]
    /\ \A k \in 2 .. Len(s) : f[k] = f[k - 1] \o s[k]
    /\ FlattenSeq(s) = f[Len(s)]

LEMMA FlattenIs ==
    ASSUME NEW T, NEW s \in Seq(Seq(T)), Len(s) >= 1
    PROVE  \E f \in [1 .. Len(s) -> Seq(T)] : Flattens(f, s)
<1> DEFINE n == Len(s)
           Is(f) == f = [k \in 1 .. n |-> IF k = 1 THEN s[k] ELSE f[k - 1] \o s[k]]
           F == CHOOSE f : Is(f)
           D == [k \in 2 .. n |-> [a \in Seq(T) |-> a \o s[k]]]
<1>1. n \in Nat /\ n >= 1 /\ \A k \in 1 .. n : s[k] \in Seq(T)
  BY ElementOfSeq
<1>2. D \in [2 .. n -> [Seq(T) -> Seq(T)]]
  <2>1. ASSUME NEW a \in Seq(T), NEW k \in 2 .. n PROVE a \o s[k] \in Seq(T)
    <3>1. s[k] \in Seq(T)
      BY <1>1
    <3> QED BY <3>1, ConcatProperties
  <2> QED BY <2>1
<1>3. PICK f \in [1 .. n -> Seq(T)] : Goes(f, n, s[1], D)
  <2>1. s[1] \in Seq(T)
    BY <1>1
  <2> HIDE DEF D, n
  <2> QED BY <1>1, <1>2, <2>1, Iterate
<1>4. f[1] = s[1] /\ \A k \in 2 .. n : f[k] = f[k - 1] \o s[k]
  <2>1. f[1] = s[1]
    BY <1>3 DEF Goes
  <2>2. ASSUME NEW k \in 2 .. n PROVE f[k] = f[k - 1] \o s[k]
    <3>1. k - 1 \in 1 .. n
      BY <1>1
    <3>2. f[k - 1] \in Seq(T)
      BY <3>1
    <3>3. f[k] = D[k][f[k - 1]]
      BY <1>3 DEF Goes
    <3> QED BY <3>2, <3>3
  <2> QED BY <2>1, <2>2
<1>5. Is(f)
  <2>1. ASSUME NEW k \in 1 .. n
        PROVE  f[k] = IF k = 1 THEN s[k] ELSE f[k - 1] \o s[k]
    <3>1. k = 1 \/ k \in 2 .. n
      BY <1>1
    <3> QED BY <3>1, <1>4
  <2>2. f = [k \in 1 .. n |-> f[k]]
    OBVIOUS
  <2> QED BY <2>1, <2>2
<1>6. Is(F)
  <2> HIDE DEF Is
  <2> QED BY <1>5
<1>7. FlattenSeq(s) = F[n]
  BY <1>1 DEF FlattenSeq
<1>8. F[1] = s[1] /\ \A k \in 2 .. n : F[k] = F[k - 1] \o s[k]
  <2> HIDE DEF F
  <2>1. 1 \in 1 .. n /\ \A k \in 2 .. n : k \in 1 .. n /\ k # 1
    BY <1>1
  <2>2. F[1] = s[1]
    BY <1>6, <2>1
  <2>3. ASSUME NEW k \in 2 .. n PROVE F[k] = F[k - 1] \o s[k]
    <3>1. k \in 1 .. n /\ k # 1
      BY <2>1
    <3> QED BY <1>6, <3>1
  <2> QED BY <2>2, <2>3
<1> HIDE DEF F
<1>9. F \in [1 .. n -> Seq(T)]
  <2> DEFINE P == {k \in 1 .. n : F[k] \in Seq(T)}
  <2>1. 1 \in P
    <3>1. F[1] \in Seq(T) /\ 1 \in 1 .. n
      BY <1>1, <1>8
    <3> QED BY <3>1
  <2>2. ASSUME NEW k \in 1 + 1 .. n, k - 1 \in P PROVE k \in P
    <3>1. k \in 2 .. n /\ k \in 1 .. n
      BY <1>1
    <3>2. F[k] = F[k - 1] \o s[k] /\ s[k] \in Seq(T)
      BY <1>8, <1>1, <3>1
    <3>3. F[k - 1] \in Seq(T)
      BY <2>2
    <3>4. F[k] \in Seq(T)
      <4> HIDE DEF P
      <4> QED BY <3>2, <3>3, ConcatProperties
    <3> QED BY <3>1, <3>4
  <2>3. \A k \in 1 .. n : k \in P
    <3> HIDE DEF P
    <3> QED BY <2>1, <2>2, <1>1, Upward, 1 \in Nat
  <2>4. DOMAIN F = 1 .. n /\ F = [k \in 1 .. n |-> F[k]]
    BY <1>6
  <2> QED BY <2>3, <2>4
<1> QED BY <1>7, <1>8, <1>9 DEF Flattens

LEMMA FlattenAppend ==
    ASSUME NEW T, NEW s \in Seq(Seq(T)), NEW x \in Seq(T)
    PROVE  /\ FlattenSeq(s) \in Seq(T)
           /\ FlattenSeq(Append(s, x)) = FlattenSeq(s) \o x
<1> DEFINE n == Len(s)
           t == Append(s, x)
<1>1. /\ t \in Seq(Seq(T)) /\ n \in Nat /\ Len(t) = n + 1
      /\ \A i \in 1 .. n : t[i] = s[i]
      /\ t[n + 1] = x
  BY AppendProperties, LenProperties
<1>2. PICK g \in [1 .. n + 1 -> Seq(T)] :
              /\ g[1] = t[1]
              /\ \A k \in 2 .. n + 1 : g[k] = g[k - 1] \o t[k]
              /\ FlattenSeq(t) = g[n + 1]
  <2> HIDE DEF t, n
  <2>1. Len(t) >= 1
    BY <1>1
  <2>2. PICK g \in [1 .. Len(t) -> Seq(T)] : Flattens(g, t)
    BY <1>1, <2>1, FlattenIs
  <2> QED BY <1>1, <2>2 DEF Flattens
<1>3. CASE n = 0
  <2>1. s = <<>>
    BY <1>3, EmptySeq
  <2>2. FlattenSeq(s) = <<>>
    BY <2>1, FlattenNil
  <2>3. FlattenSeq(t) = x
    BY <1>1, <1>2, <1>3
  <2>4. <<>> \in Seq(T) /\ <<>> \o x = x
    BY EmptySeq, ConcatEmptySeq
  <2> QED BY <2>2, <2>3, <2>4
<1>4. CASE n # 0
  <2>1. n >= 1
    BY <1>1, <1>4
  <2>2. PICK f \in [1 .. n -> Seq(T)] :
              /\ f[1] = s[1]
              /\ \A k \in 2 .. n : f[k] = f[k - 1] \o s[k]
              /\ FlattenSeq(s) = f[n]
    <3>1. PICK f \in [1 .. n -> Seq(T)] : Flattens(f, s)
      BY <2>1, FlattenIs
    <3> QED BY <3>1 DEF Flattens
  <2> DEFINE P == {k \in 1 .. n : g[k] = f[k]}
  <2>3. 1 \in P
    BY <1>1, <1>2, <2>1, <2>2
  <2>4. ASSUME NEW k \in 1 + 1 .. n, k - 1 \in P PROVE k \in P
    <3>1. k \in 2 .. n /\ k \in 2 .. n + 1 /\ k \in 1 .. n
      BY <1>1
    <3>2. g[k] = g[k - 1] \o t[k] /\ f[k] = f[k - 1] \o s[k] /\ t[k] = s[k]
      BY <1>1, <1>2, <2>2, <3>1
    <3>3. g[k - 1] = f[k - 1]
      BY <2>4
    <3> QED BY <3>1, <3>2, <3>3
  <2>5. \A k \in 1 .. n : k \in P
    <3> HIDE DEF P, n
    <3> QED BY <2>3, <2>4, <1>1, Upward, 1 \in Nat
  <2>6. g[n] = f[n]
    <3>1. n \in 1 .. n
      BY <1>1, <2>1
    <3> QED BY <3>1, <2>5
  <2>7. g[n + 1] = g[n] \o x
    <3>1. n + 1 \in 2 .. n + 1 /\ (n + 1) - 1 = n
      BY <1>1, <2>1
    <3> HIDE DEF t, n
    <3> QED BY <1>1, <1>2, <3>1
  <2>8. f[n] \in Seq(T)
    BY <1>1, <2>1
  <2> QED BY <1>2, <2>2, <2>6, <2>7, <2>8
<1> QED BY <1>3, <1>4

\* A sequence grows by one element at a time.
LEMMA Prefix ==
    ASSUME NEW T, NEW s \in Seq(T)
    PROVE  /\ SubSeq(s, 1, 0) = <<>>
           /\ SubSeq(s, 1, Len(s)) = s
           /\ \A k \in 0 .. Len(s) : SubSeq(s, 1, k) \in Seq(T) /\ Len(SubSeq(s, 1, k)) = k
           /\ \A k \in 1 .. Len(s) :
                s[k] \in T /\ SubSeq(s, 1, k) = Append(SubSeq(s, 1, k - 1), s[k])
<1>1. Len(s) \in Nat /\ \A k \in 1 .. Len(s) : s[k] \in T
  BY ElementOfSeq, LenProperties
<1>2. SubSeq(s, 1, 0) = <<>>
  BY SubSeqEmpty
<1>3. SubSeq(s, 1, Len(s)) = s
  BY SubSeqFull
<1>4. ASSUME NEW k \in 0 .. Len(s)
      PROVE  SubSeq(s, 1, k) \in Seq(T) /\ Len(SubSeq(s, 1, k)) = k
  <2>1. k \in Int /\ \A i \in 1 .. k : s[i] \in T
    BY <1>1
  <2>2. /\ SubSeq(s, 1, k) \in Seq(T)
        /\ Len(SubSeq(s, 1, k)) = IF 1 <= k THEN k - 1 + 1 ELSE 0
    BY <2>1, SubSeqProperties, 1 \in Int
  <2> QED BY <2>2
<1>5. ASSUME NEW k \in 1 .. Len(s)
      PROVE  SubSeq(s, 1, k) = Append(SubSeq(s, 1, k - 1), s[k])
  <2>1. 1 \in 1 .. Len(s) /\ k \in 1 .. Len(s) /\ k - 1 \in 0 .. Len(s)
    BY <1>1
  <2>2. SubSeq(s, 1, k) = SubSeq(s, 1, k - 1) \o <<s[k]>>
    BY <2>1, SubSeqRecursiveSecond
  <2>3. SubSeq(s, 1, k - 1) \in Seq(T) /\ s[k] \in T
    BY <2>1, <1>1, <1>4
  <2>4. Append(SubSeq(s, 1, k - 1), s[k]) = SubSeq(s, 1, k - 1) \o <<s[k]>>
    BY <2>3, AppendIsConcat
  <2> QED BY <2>2, <2>4
<1> QED BY <1>1, <1>2, <1>3, <1>4, <1>5

LEMMA FlattenConcat ==
    ASSUME NEW T, NEW y \in Seq(Seq(T)), NEW z \in Seq(Seq(T))
    PROVE  FlattenSeq(y \o z) = FlattenSeq(y) \o FlattenSeq(z)
<1> DEFINE pre(k) == SubSeq(z, 1, k)
           P == {k \in 0 .. Len(z) : FlattenSeq(y \o pre(k)) = FlattenSeq(y) \o FlattenSeq(pre(k))}
<1>1. /\ Len(z) \in Nat /\ pre(0) = <<>> /\ pre(Len(z)) = z
      /\ \A k \in 0 .. Len(z) : pre(k) \in Seq(Seq(T))
      /\ \A k \in 1 .. Len(z) : z[k] \in Seq(T) /\ pre(k) = Append(pre(k - 1), z[k])
  BY Prefix, LenProperties
<1> HIDE DEF pre
<1> DEFINE V == FlattenSeq(y)
<1>2. V \in Seq(T)
  <2>1. <<>> \in Seq(T)
    BY EmptySeq
  <2> QED BY <2>1, FlattenAppend
<1>3. 0 \in P
  <2>1. y \o <<>> = y /\ V \o <<>> = V
    BY <1>2, ConcatEmptySeq
  <2>2. FlattenSeq(y \o pre(0)) = FlattenSeq(y) \o FlattenSeq(pre(0))
    BY <1>1, <2>1, FlattenNil
  <2> QED BY <1>1, <2>2
<1>4. ASSUME NEW k \in 0 + 1 .. Len(z), k - 1 \in P PROVE k \in P
  <2> DEFINE w == pre(k - 1)
             e == z[k]
             W == FlattenSeq(w)
  <2>1. /\ k \in 1 .. Len(z) /\ k \in 0 .. Len(z) /\ k - 1 \in 0 .. Len(z)
        /\ FlattenSeq(y \o w) = V \o W
    <3>1. k \in 1 .. Len(z) /\ k \in 0 .. Len(z) /\ k - 1 \in 0 .. Len(z)
      BY <1>1
    <3>2. FlattenSeq(y \o w) = V \o W
      BY <1>4
    <3> QED BY <3>1, <3>2
  <2>2. w \in Seq(Seq(T)) /\ e \in Seq(T) /\ pre(k) = Append(w, e)
    BY <1>1, <2>1
  <2> HIDE DEF w, e
  <2>3. y \o Append(w, e) = Append(y \o w, e)
    <3> DEFINE E == <<e>>
               sw == y \o w
    <3>1. E \in Seq(Seq(T)) /\ sw \in Seq(Seq(T))
      BY <2>2, ConcatProperties
    <3>2. Append(w, e) = w \o E /\ Append(sw, e) = sw \o E
      <4> HIDE DEF sw
      <4> QED BY <2>2, <3>1, AppendIsConcat
    <3>3. (y \o w) \o E = y \o (w \o E)
      <4> DEFINE X == Seq(T)
      <4>1. y \in Seq(X) /\ w \in Seq(X) /\ E \in Seq(X)
        BY <2>2, <3>1
      <4> HIDE DEF E, X
      <4> QED BY <4>1, ConcatAssociative, SMTT(60)
    <3> QED BY <3>2, <3>3
  <2>4. /\ FlattenSeq(Append(y \o w, e)) = FlattenSeq(y \o w) \o e
        /\ FlattenSeq(Append(w, e)) = W \o e
        /\ W \in Seq(T)
    <3> DEFINE sw == y \o w
    <3>1. sw \in Seq(Seq(T))
      BY <2>2, ConcatProperties
    <3>2. FlattenSeq(Append(sw, e)) = FlattenSeq(sw) \o e
      <4> HIDE DEF sw
      <4> QED BY <3>1, <2>2, FlattenAppend
    <3>3. FlattenSeq(Append(w, e)) = W \o e /\ W \in Seq(T)
      BY <2>2, FlattenAppend
    <3> QED BY <3>2, <3>3
  <2> HIDE DEF W, V
  <2>5. (V \o W) \o e = V \o (W \o e)
    <3> DEFINE a == V
               b == W
               c == e
    <3>1. a \in Seq(T) /\ b \in Seq(T) /\ c \in Seq(T)
      BY <1>2, <2>2, <2>4
    <3>2. (a \o b) \o c = a \o (b \o c)
      <4> HIDE DEF a, b, c
      <4> QED BY <3>1, ConcatAssociative, SMTT(60)
    <3> QED BY <3>2
  <2>6. FlattenSeq(y \o pre(k)) = V \o FlattenSeq(pre(k))
    BY <2>1, <2>2, <2>3, <2>4, <2>5
  <2> QED BY <2>1, <2>6 DEF V
<1>5. \A k \in 0 .. Len(z) : k \in P
  <2> HIDE DEF P
  <2> QED BY <1>1, <1>3, <1>4, Upward, 0 \in Nat
<1>6. FlattenSeq(y \o pre(Len(z))) = FlattenSeq(y) \o FlattenSeq(pre(Len(z)))
  <2>1. Len(z) \in 0 .. Len(z)
    BY <1>1
  <2> QED BY <2>1, <1>5
<1> QED BY <1>1, <1>6

-----------------------------------------------------------------------------
\* What wunzip makes of the pairs z.
Unzip(z) == FlattenSeq([k \in DOMAIN z |-> Repeat(z[k])])
Pairs    == Nat \X Symbols

LEMMA RepeatIs ==
    ASSUME NEW p \in Pairs
    PROVE  Repeat(p) \in Seq(Symbols) /\ Len(Repeat(p)) = p[1]
BY DEF Repeat, Pairs

LEMMA UnzipNil == Unzip(<<>>) = <<>>
<1>1. [k \in DOMAIN <<>> |-> Repeat(<<>>[k])] = <<>>
  OBVIOUS
<1> QED BY <1>1, FlattenNil DEF Unzip

LEMMA UnzipAppend ==
    ASSUME NEW z \in Seq(Pairs), NEW p \in Pairs
    PROVE  /\ Unzip(z) \in Seq(Symbols)
           /\ Unzip(Append(z, p)) = Unzip(z) \o Repeat(p)
<1> DEFINE n == Len(z)
           t == Append(z, p)
           R == [k \in DOMAIN z |-> Repeat(z[k])]
           Q == [k \in DOMAIN t |-> Repeat(t[k])]
<1>1. /\ n \in Nat /\ DOMAIN z = 1 .. n /\ \A k \in 1 .. n : z[k] \in Pairs
      /\ t \in Seq(Pairs) /\ Len(t) = n + 1 /\ DOMAIN t = 1 .. n + 1
      /\ \A i \in 1 .. n : t[i] = z[i]
      /\ t[n + 1] = p
  BY AppendProperties, LenProperties, ElementOfSeq
<1>2. R \in Seq(Seq(Symbols)) /\ Len(R) = n /\ \A k \in 1 .. n : R[k] = Repeat(z[k])
  <2>1. \A k \in 1 .. n : Repeat(z[k]) \in Seq(Symbols)
    BY <1>1, RepeatIs
  <2>2. R = [k \in 1 .. n |-> Repeat(z[k])]
    BY <1>1
  <2> HIDE DEF n
  <2> QED BY <2>1, <2>2, <1>1
<1>3. Q \in Seq(Seq(Symbols)) /\ Len(Q) = n + 1 /\ \A k \in 1 .. n + 1 : Q[k] = Repeat(t[k])
  <2>1. \A k \in 1 .. n + 1 : Repeat(t[k]) \in Seq(Symbols)
    <3>1. \A k \in 1 .. n + 1 : t[k] \in Pairs
      BY <1>1, ElementOfSeq
    <3> QED BY <3>1, RepeatIs
  <2>2. Q = [k \in 1 .. n + 1 |-> Repeat(t[k])]
    BY <1>1
  <2>3. n + 1 \in Nat
    BY <1>1
  <2> DEFINE m == n + 1
             S == Seq(Symbols)
  <2>4. m \in Nat /\ Q \in [1 .. m -> S] /\ \A k \in 1 .. m : Q[k] = Repeat(t[k])
    BY <2>1, <2>2, <2>3
  <2> HIDE DEF m, Q, S
  <2>5. Q \in Seq(S) /\ Len(Q) = m
    BY <2>4
  <2> QED BY <2>4, <2>5 DEF m, S
<1>4. Repeat(p) \in Seq(Symbols)
  BY RepeatIs
<1>5. Q = Append(R, Repeat(p))
  <2> DEFINE A == Append(R, Repeat(p))
  <2>1. /\ A \in Seq(Seq(Symbols)) /\ Len(A) = n + 1
        /\ \A k \in 1 .. n : A[k] = R[k]
        /\ A[n + 1] = Repeat(p)
    <3> HIDE DEF R
    <3> QED BY <1>2, <1>4, AppendProperties
  <2>2. ASSUME NEW k \in 1 .. n + 1 PROVE Q[k] = A[k]
    <3>1. k = n + 1 \/ k \in 1 .. n
      BY <1>1
    <3> HIDE DEF R, Q, A
    <3> QED BY <3>1, <1>1, <1>2, <1>3, <2>1, <2>2
  <2> HIDE DEF A, Q, n
  <2>3. Len(Q) = Len(A) /\ \A k \in 1 .. Len(Q) : Q[k] = A[k]
    BY <1>3, <2>1, <2>2
  <2>4. Q \in Seq(Seq(Symbols)) /\ A \in Seq(Seq(Symbols))
    BY <1>3, <2>1
  <2>5. Q = A
    BY <2>3, <2>4, SeqEqual
  <2> QED BY <2>5 DEF A
<1>6. FlattenSeq(R) \in Seq(Symbols) /\ FlattenSeq(Append(R, Repeat(p))) = FlattenSeq(R) \o Repeat(p)
  <2> HIDE DEF R
  <2> QED BY <1>2, <1>4, FlattenAppend
<1> QED BY <1>5, <1>6 DEF Unzip

LEMMA UnzipConcat ==
    ASSUME NEW y \in Seq(Pairs), NEW z \in Seq(Pairs)
    PROVE  Unzip(y \o z) = Unzip(y) \o Unzip(z)
<1> DEFINE m == Len(y)
           n == Len(z)
           t == y \o z
           R == [k \in DOMAIN y |-> Repeat(y[k])]
           Q == [k \in DOMAIN z |-> Repeat(z[k])]
           B == [k \in DOMAIN t |-> Repeat(t[k])]
<1>1. /\ m \in Nat /\ DOMAIN y = 1 .. m /\ \A k \in 1 .. m : y[k] \in Pairs
      /\ n \in Nat /\ DOMAIN z = 1 .. n /\ \A k \in 1 .. n : z[k] \in Pairs
  BY LenProperties, ElementOfSeq
<1>2. /\ t \in Seq(Pairs) /\ Len(t) = m + n /\ DOMAIN t = 1 .. m + n
      /\ \A k \in 1 .. m + n : t[k] = IF k <= m THEN y[k] ELSE z[k - m]
      /\ \A k \in 1 .. m + n : t[k] \in Pairs
  BY ConcatProperties, LenProperties, ElementOfSeq
<1>3. R \in Seq(Seq(Symbols)) /\ Len(R) = m /\ \A k \in 1 .. m : R[k] = Repeat(y[k])
  <2>1. \A k \in 1 .. m : Repeat(y[k]) \in Seq(Symbols)
    BY <1>1, RepeatIs
  <2>2. R = [k \in 1 .. m |-> Repeat(y[k])]
    BY <1>1
  <2> HIDE DEF m
  <2> QED BY <1>1, <2>1, <2>2
<1>4. Q \in Seq(Seq(Symbols)) /\ Len(Q) = n /\ \A k \in 1 .. n : Q[k] = Repeat(z[k])
  <2>1. \A k \in 1 .. n : Repeat(z[k]) \in Seq(Symbols)
    BY <1>1, RepeatIs
  <2>2. Q = [k \in 1 .. n |-> Repeat(z[k])]
    BY <1>1
  <2> HIDE DEF n
  <2> QED BY <1>1, <2>1, <2>2
<1> HIDE DEF m, n, t, R, Q
<1>5. B \in Seq(Seq(Symbols)) /\ Len(B) = m + n /\ \A k \in 1 .. m + n : B[k] = Repeat(t[k])
  <2>1. \A k \in 1 .. m + n : Repeat(t[k]) \in Seq(Symbols)
    BY <1>2, RepeatIs
  <2>2. B = [k \in 1 .. m + n |-> Repeat(t[k])]
    BY <1>2
  <2> DEFINE q == m + n
  <2>3. q \in Nat
    BY <1>1
  <2>4. B = [k \in 1 .. q |-> Repeat(t[k])] /\ \A k \in 1 .. q : Repeat(t[k]) \in Seq(Symbols)
    BY <2>1, <2>2
  <2> HIDE DEF q, B
  <2>5. B \in Seq(Seq(Symbols)) /\ Len(B) = q /\ \A k \in 1 .. q : B[k] = Repeat(t[k])
    BY <2>3, <2>4
  <2> QED BY <2>5 DEF q
<1> HIDE DEF B
<1> DEFINE A == R \o Q
<1>6. /\ A \in Seq(Seq(Symbols)) /\ Len(A) = m + n
      /\ \A k \in 1 .. m + n : A[k] = IF k <= m THEN R[k] ELSE Q[k - m]
  BY <1>3, <1>4, ConcatProperties
<1> HIDE DEF A
<1>7. ASSUME NEW k \in 1 .. m + n PROVE B[k] = A[k]
  <2>1. CASE k <= m
    <3>1. k \in 1 .. m
      BY <1>1, <2>1
    <3> QED BY <1>2, <1>3, <1>5, <1>6, <2>1, <3>1
  <2>2. CASE ~ (k <= m)
    <3>1. k - m \in 1 .. n
      BY <1>1, <2>2
    <3> QED BY <1>2, <1>4, <1>5, <1>6, <2>2, <3>1
  <2> QED BY <2>1, <2>2
<1>8. B = A
  <2>1. Len(B) = Len(A) /\ \A k \in 1 .. Len(B) : B[k] = A[k]
    BY <1>5, <1>6, <1>7
  <2> QED BY <1>5, <1>6, <2>1, SeqEqual
<1>9. FlattenSeq(R \o Q) = FlattenSeq(R) \o FlattenSeq(Q)
  BY <1>3, <1>4, FlattenConcat
<1> QED BY <1>8, <1>9 DEF Unzip, A, B, R, Q, t

\* One more of a run is one more of its letter.
LEMMA RepeatMore ==
    ASSUME NEW n \in Nat, NEW c \in Symbols
    PROVE  Repeat(<<n + 1, c>>) = Repeat(<<n, c>>) \o <<c>>
<1> DEFINE R == Repeat(<<n, c>>)
           Q == Repeat(<<n + 1, c>>)
<1>1. R = [k \in 1 .. n |-> c] /\ Q = [k \in 1 .. n + 1 |-> c]
  BY DEF Repeat
<1>2. R \in Seq(Symbols) /\ Len(R) = n /\ Q \in Seq(Symbols) /\ Len(Q) = n + 1
  BY <1>1
<1>3. <<c>> \in Seq(Symbols) /\ Len(<<c>>) = 1 /\ <<c>>[1] = c
  OBVIOUS
<1> DEFINE A == R \o <<c>>
<1>4. /\ A \in Seq(Symbols) /\ Len(A) = n + 1
      /\ \A i \in 1 .. n + 1 : A[i] = IF i <= n THEN R[i] ELSE <<c>>[i - n]
  <2> HIDE DEF R
  <2> QED BY <1>2, <1>3, ConcatProperties
<1>5. ASSUME NEW i \in 1 .. n + 1 PROVE A[i] = Q[i]
  <2>1. CASE i <= n
    <3>1. i \in 1 .. n
      BY <2>1
    <3> HIDE DEF R, Q, A
    <3> QED BY <3>1, <1>1, <1>4, <2>1
  <2>2. CASE ~ (i <= n)
    <3>1. i = n + 1 /\ i - n = 1
      BY <2>2
    <3> HIDE DEF R, Q, A
    <3> QED BY <3>1, <1>1, <1>3, <1>4, <2>2
  <2> QED BY <2>1, <2>2
<1>6. A = Q
  <2> HIDE DEF A, Q
  <2>1. Len(A) = Len(Q) /\ \A i \in 1 .. Len(A) : A[i] = Q[i]
    BY <1>2, <1>4, <1>5
  <2>2. A \in Seq(Symbols) /\ Q \in Seq(Symbols)
    BY <1>2, <1>4
  <2> QED BY <2>1, <2>2, SeqEqual
<1> QED BY <1>6 DEF A, Q, R

LEMMA RepeatOne == ASSUME NEW c \in Symbols PROVE Repeat(<<1, c>>) = <<c>>
<1>1. Repeat(<<1, c>>) = [k \in 1 .. 1 |-> c]
  BY DEF Repeat
<1> QED BY <1>1

-----------------------------------------------------------------------------
\* A space is what came before it.
LEMMA UnspacedIs ==
    ASSUME NEW l \in Seq(Symbols), Len(l) >= 1
    PROVE  /\ Unspaced(l) \in Seq(Symbols) /\ Len(Unspaced(l)) = Len(l)
           /\ Unspaced(l)[1] = l[1]
           /\ \A k \in 2 .. Len(l) :
                 Unspaced(l)[k] = IF l[k] = Blank THEN Unspaced(l)[k - 1] ELSE l[k]
<1> DEFINE n == Len(l)
           Is(f) == f = [k \in DOMAIN l |->
                           IF k > 1 /\ l[k] = Blank THEN f[k - 1] ELSE l[k]]
           F == CHOOSE f : Is(f)
           D == [k \in 2 .. n |-> [a \in Symbols |-> IF l[k] = Blank THEN a ELSE l[k]]]
<1>1. n \in Nat /\ n >= 1 /\ DOMAIN l = 1 .. n /\ \A k \in 1 .. n : l[k] \in Symbols
  BY ElementOfSeq, LenProperties
<1>2. D \in [2 .. n -> [Symbols -> Symbols]]
  <2>1. \A k \in 2 .. n : l[k] \in Symbols
    BY <1>1
  <2> QED BY <2>1
<1>3. PICK f \in [1 .. n -> Symbols] : Goes(f, n, l[1], D)
  <2>1. l[1] \in Symbols
    BY <1>1
  <2> HIDE DEF D, n
  <2> QED BY <1>1, <1>2, <2>1, Iterate
<1>4. f[1] = l[1] /\ \A k \in 2 .. n : f[k] = IF l[k] = Blank THEN f[k - 1] ELSE l[k]
  <2>1. f[1] = l[1]
    BY <1>3 DEF Goes
  <2>2. ASSUME NEW k \in 2 .. n PROVE f[k] = IF l[k] = Blank THEN f[k - 1] ELSE l[k]
    <3>1. k - 1 \in 1 .. n
      BY <1>1
    <3>2. f[k - 1] \in Symbols
      BY <3>1
    <3>3. f[k] = D[k][f[k - 1]]
      BY <1>3 DEF Goes
    <3> QED BY <3>2, <3>3
  <2> QED BY <2>1, <2>2
<1>5. Is(f)
  <2>1. ASSUME NEW k \in 1 .. n
        PROVE  f[k] = IF k > 1 /\ l[k] = Blank THEN f[k - 1] ELSE l[k]
    <3>1. (k = 1 /\ ~ (k > 1)) \/ (k \in 2 .. n /\ k > 1)
      BY <1>1
    <3> QED BY <3>1, <1>4
  <2>2. f = [k \in 1 .. n |-> f[k]]
    OBVIOUS
  <2> HIDE DEF n
  <2> QED BY <2>1, <2>2, <1>1
<1>6. Is(F)
  <2> HIDE DEF Is
  <2> QED BY <1>5
<1>7. Unspaced(l) = F
  BY DEF Unspaced
<1> HIDE DEF F
<1>8. F = [k \in 1 .. n |-> IF k > 1 /\ l[k] = Blank THEN F[k - 1] ELSE l[k]]
  BY <1>1, <1>6
<1> HIDE DEF Is
<1>9. F[1] = l[1] /\ \A k \in 2 .. n : F[k] = IF l[k] = Blank THEN F[k - 1] ELSE l[k]
  <2>1. 1 \in 1 .. n /\ \A k \in 2 .. n : k \in 1 .. n /\ k > 1
    BY <1>1
  <2> QED BY <1>8, <2>1
<1>10. F \in [1 .. n -> Symbols]
  <2> DEFINE P == {k \in 1 .. n : F[k] \in Symbols}
  <2>1. 1 \in P
    BY <1>1, <1>9
  <2>2. ASSUME NEW k \in 1 + 1 .. n, k - 1 \in P PROVE k \in P
    <3>1. k \in 2 .. n /\ k \in 1 .. n
      BY <1>1
    <3>2. F[k] = (IF l[k] = Blank THEN F[k - 1] ELSE l[k]) /\ l[k] \in Symbols
      BY <1>1, <1>9, <3>1
    <3>3. F[k - 1] \in Symbols
      BY <2>2
    <3>4. F[k] \in Symbols
      BY <3>2, <3>3
    <3> QED BY <3>1, <3>4
  <2>3. \A k \in 1 .. n : k \in P
    <3> HIDE DEF P
    <3> QED BY <2>1, <2>2, <1>1, Upward, 1 \in Nat
  <2> QED BY <2>3, <1>8
<1>11. F \in Seq(Symbols) /\ Len(F) = n
  <2> HIDE DEF n
  <2> QED BY <1>1, <1>10
<1> QED BY <1>7, <1>9, <1>11

\* The states of the loop.
Loop == [out : Seq(Pairs), curr : Symbols, num : Nat]

LEMMA LoopKeeps ==
    ASSUME NEW z \in Loop, NEW c \in Symbols
    PROVE  Push(z) \in Seq(Pairs) /\ Onward(z, c) \in Loop
<1>1. z.out \in Seq(Pairs) /\ z.curr \in Symbols /\ z.num \in Nat
  BY DEF Loop
<1>2. <<z.num, z.curr>> \in Pairs
  BY <1>1 DEF Pairs
<1>3. Push(z) \in Seq(Pairs)
  BY <1>1, <1>2, AppendProperties DEF Push
<1>4. z.num + 1 \in Nat /\ 1 \in Nat
  BY <1>1
<1> QED BY <1>1, <1>3, <1>4 DEF Loop, Onward

LEMMA RunsIs ==
    ASSUME NEW l \in Seq(Symbols), Len(l) >= 1
    PROVE  \E f \in [1 .. Len(l) -> Loop] :
              /\ f[1] = Begun(l[1])
              /\ \A k \in 2 .. Len(l) : f[k] = Onward(f[k - 1], l[k])
              /\ Runs(l) = Push(f[Len(l)])
<1> DEFINE n == Len(l)
           Is(f) == f = [k \in 1 .. Len(l) |->
                           IF k = 1 THEN Begun(l[1]) ELSE Onward(f[k - 1], l[k])]
           F == CHOOSE f : Is(f)
           D == [k \in 2 .. n |-> [a \in Loop |-> Onward(a, l[k])]]
<1>1. n \in Nat /\ n >= 1 /\ \A k \in 1 .. n : l[k] \in Symbols
  BY ElementOfSeq, LenProperties
<1>2. D \in [2 .. n -> [Loop -> Loop]]
  <2>1. ASSUME NEW k \in 2 .. n, NEW a \in Loop PROVE Onward(a, l[k]) \in Loop
    <3>1. l[k] \in Symbols
      BY <1>1
    <3> QED BY <3>1, LoopKeeps
  <2> QED BY <2>1
<1>3. Begun(l[1]) \in Loop
  <2>1. l[1] \in Symbols /\ 1 \in Nat /\ <<>> \in Seq(Pairs)
    BY <1>1
  <2> QED BY <2>1 DEF Begun, Loop
<1>4. PICK f \in [1 .. n -> Loop] : Goes(f, n, Begun(l[1]), D)
  <2> HIDE DEF D, n
  <2> QED BY <1>1, <1>2, <1>3, Iterate
<1>5. f[1] = Begun(l[1]) /\ \A k \in 2 .. n : f[k] = Onward(f[k - 1], l[k])
  <2>1. f[1] = Begun(l[1])
    BY <1>4 DEF Goes
  <2>2. ASSUME NEW k \in 2 .. n PROVE f[k] = Onward(f[k - 1], l[k])
    <3>1. k - 1 \in 1 .. n
      BY <1>1
    <3>2. f[k - 1] \in Loop
      BY <3>1
    <3>3. f[k] = D[k][f[k - 1]]
      BY <1>4 DEF Goes
    <3> QED BY <3>2, <3>3
  <2> QED BY <2>1, <2>2
<1>6. Is(f)
  <2>1. ASSUME NEW k \in 1 .. n
        PROVE  f[k] = IF k = 1 THEN Begun(l[1]) ELSE Onward(f[k - 1], l[k])
    <3>1. k = 1 \/ (k # 1 /\ k \in 2 .. n)
      BY <1>1
    <3> QED BY <3>1, <1>5
  <2>2. f = [k \in 1 .. n |-> f[k]]
    OBVIOUS
  <2> QED BY <2>1, <2>2
<1>7. Is(F)
  <2> HIDE DEF Is
  <2> QED BY <1>6
<1>8. Runs(l) = Push(F[n])
  BY DEF Runs
<1> HIDE DEF F
<1>9. F[1] = Begun(l[1]) /\ \A k \in 2 .. n : F[k] = Onward(F[k - 1], l[k])
  <2>1. 1 \in 1 .. n /\ \A k \in 2 .. n : k \in 1 .. n /\ k # 1
    BY <1>1
  <2>2. F[1] = Begun(l[1])
    BY <1>7, <2>1
  <2>3. ASSUME NEW k \in 2 .. n PROVE F[k] = Onward(F[k - 1], l[k])
    <3>1. k \in 1 .. n /\ k # 1
      BY <2>1
    <3> QED BY <1>7, <3>1
  <2> QED BY <2>2, <2>3
<1>10. F = [k \in 1 .. n |-> F[k]]
  BY <1>7
<1> HIDE DEF Is
<1>11. F \in [1 .. n -> Loop]
  <2> DEFINE P == {k \in 1 .. n : F[k] \in Loop}
  <2>1. 1 \in P
    BY <1>1, <1>3, <1>9
  <2>2. ASSUME NEW k \in 1 + 1 .. n, k - 1 \in P PROVE k \in P
    <3>1. k \in 2 .. n /\ k \in 1 .. n
      BY <1>1
    <3>2. F[k] = Onward(F[k - 1], l[k]) /\ l[k] \in Symbols
      BY <1>1, <1>9, <3>1
    <3>3. F[k - 1] \in Loop
      BY <2>2
    <3>4. F[k] \in Loop
      BY <3>2, <3>3, LoopKeeps
    <3> QED BY <3>1, <3>4
  <2>3. \A k \in 1 .. n : k \in P
    <3> HIDE DEF P
    <3> QED BY <2>1, <2>2, <1>1, Upward, 1 \in Nat
  <2> QED BY <2>3, <1>10
<1> QED BY <1>8, <1>9, <1>11

Alternate(z) == \A i \in 1 .. Len(z) - 1 : z[i][2] # z[i + 1][2]

\* A pair of another letter than the last keeps the letters alternating.
LEMMA AlternateAppend ==
    ASSUME NEW z \in Seq(Pairs), NEW p \in Pairs, Alternate(z),
           Len(z) >= 1 => z[Len(z)][2] # p[2]
    PROVE  Alternate(Append(z, p))
<1> DEFINE t == Append(z, p)
           n == Len(z)
<1>1. n \in Nat /\ Len(t) = n + 1 /\ (\A i \in 1 .. n : t[i] = z[i]) /\ t[n + 1] = p
  BY AppendProperties, LenProperties
<1>2. ASSUME NEW i \in 1 .. n PROVE t[i][2] # t[i + 1][2]
  <2>1. CASE i = n
    BY <1>1, <2>1
  <2>2. CASE i # n
    <3>1. i \in 1 .. n - 1 /\ i + 1 \in 1 .. n
      BY <1>1, <2>2
    <3>2. z[i][2] # z[i + 1][2]
      BY <3>1 DEF Alternate
    <3> HIDE DEF t, n
    <3> QED BY <1>1, <3>1, <3>2
  <2> QED BY <2>1, <2>2
<1>3. Len(t) - 1 = n
  BY <1>1
<1> HIDE DEF t, n
<1>4. Alternate(t)
  BY <1>2, <1>3 DEF Alternate
<1> QED BY <1>4 DEF t

\* The runs of a line are its letters, and no shorter ones would be.
LEMMA RunsAre ==
    ASSUME NEW l \in Seq(Symbols), Len(l) >= 1
    PROVE  /\ Runs(l) \in Seq(Pairs)
           /\ Unzip(Runs(l)) = Unspaced(l)
           /\ Alternate(Runs(l))
<1> DEFINE n == Len(l)
           u == Unspaced(l)
<1>1. PICK f \in [1 .. n -> Loop] :
              /\ f[1] = Begun(l[1])
              /\ \A k \in 2 .. n : f[k] = Onward(f[k - 1], l[k])
              /\ Runs(l) = Push(f[n])
  BY RunsIs
<1>2. /\ u \in Seq(Symbols) /\ Len(u) = n /\ u[1] = l[1]
      /\ \A k \in 2 .. n : u[k] = IF l[k] = Blank THEN u[k - 1] ELSE l[k]
  BY UnspacedIs
<1>3. n \in Nat /\ n >= 1 /\ \A k \in 1 .. n : l[k] \in Symbols /\ u[k] \in Symbols
  <2>1. \A k \in 1 .. n : u[k] \in Symbols
    <3> HIDE DEF u
    <3> QED BY <1>2, ElementOfSeq
  <2> QED BY <2>1, ElementOfSeq, LenProperties
<1> HIDE DEF u
<1> DEFINE pre(k) == SubSeq(u, 1, k)
           Good(z, k) ==
               /\ z.curr = u[k]
               /\ Unzip(Push(z)) = pre(k)
               /\ Alternate(Push(z))
<1>4. /\ pre(0) = <<>> /\ pre(n) = u
      /\ \A k \in 0 .. n : pre(k) \in Seq(Symbols)
      /\ \A k \in 1 .. n : pre(k) = Append(pre(k - 1), u[k])
  BY <1>2, Prefix
<1> HIDE DEF pre
<1>5. Good(f[1], 1)
  <2> DEFINE c == l[1]
             z == Begun(c)
  <2>1. c \in Symbols /\ u[1] = c
    BY <1>2, <1>3
  <2> HIDE DEF c
  <2>2. z.out = <<>> /\ z.curr = c /\ z.num = 1
    BY DEF Begun
  <2>3. Push(z) = Append(<<>>, <<1, c>>)
    BY <2>2 DEF Push
  <2>4. <<1, c>> \in Pairs /\ <<>> \in Seq(Pairs) /\ Len(<<>>) = 0
    BY <2>1 DEF Pairs
  <2>5. Unzip(Push(z)) = <<>> \o Repeat(<<1, c>>)
    BY <2>3, <2>4, UnzipAppend, UnzipNil
  <2>6. <<>> \o Repeat(<<1, c>>) = <<c>>
    BY <2>1, RepeatOne
  <2>7. pre(1) = <<c>>
    <3>1. 1 \in 1 .. n
      BY <1>3
    <3>2. pre(1) = Append(pre(0), u[1])
      <4>1. pre(1) = Append(pre(1 - 1), u[1])
        BY <1>4, <3>1
      <4> QED BY <4>1, 1 - 1 = 0
    <3>3. Append(<<>>, c) = <<c>>
      OBVIOUS
    <3> QED BY <1>4, <2>1, <3>2, <3>3
  <2>8. Alternate(Push(z))
    <3>1. Alternate(<<>>)
      BY DEF Alternate
    <3> DEFINE e == <<1, c>>
               o == <<>>
    <3>2. o \in Seq(Pairs) /\ e \in Pairs /\ Alternate(o) /\ ~ (Len(o) >= 1)
      BY <2>4, <3>1
    <3>3. Alternate(Append(o, e))
      <4> HIDE DEF e, o
      <4> QED BY <3>2, AlternateAppend
    <3> QED BY <2>3, <3>3
  <2> QED BY <1>1, <2>1, <2>2, <2>5, <2>6, <2>7, <2>8 DEF c
<1>6. ASSUME NEW k \in 2 .. n, Good(f[k - 1], k - 1) PROVE Good(f[k], k)
  <2> DEFINE z == f[k - 1]
             c == l[k]
             y == f[k]
  <2>1. /\ k \in 1 .. n /\ k - 1 \in 1 .. n
    BY <1>3
  <2>2. z \in Loop /\ c \in Symbols /\ y = Onward(z, c) /\ z.curr = u[k - 1]
    BY <1>1, <1>3, <1>6, <2>1
  <2>3. Unzip(Push(z)) = pre(k - 1) /\ Alternate(Push(z))
    BY <1>6
  <2>4. u[k] = (IF c = Blank THEN z.curr ELSE c) /\ pre(k) = Append(pre(k - 1), u[k])
    BY <1>2, <1>4, <2>1, <2>2
  <2>5. pre(k - 1) \in Seq(Symbols) /\ u[k] \in Symbols
    <3>1. k - 1 \in 0 .. n
      BY <2>1
    <3> QED BY <1>3, <1>4, <2>1, <3>1
  <2>6. pre(k) = pre(k - 1) \o <<u[k]>>
    BY <2>4, <2>5, AppendIsConcat
  <2> HIDE DEF z, c, y
  <2>7. z.out \in Seq(Pairs) /\ z.curr \in Symbols /\ z.num \in Nat /\ Push(z) \in Seq(Pairs)
    BY <2>2, LoopKeeps DEF Loop
  <2>8. CASE NewRun(c, z.curr)
    <3>1. c # z.curr /\ c # Blank /\ u[k] = c
      BY <2>4, <2>8 DEF NewRun
    <3>2. y = [out |-> Push(z), curr |-> c, num |-> 1]
      BY <2>2, <2>8 DEF Onward
    <3>3. y.out = Push(z) /\ y.curr = c /\ y.num = 1
      BY <3>2
    <3>4. Push(y) = Append(Push(z), <<1, c>>)
      BY <3>3 DEF Push
    <3>5. <<1, c>> \in Pairs
      BY <2>2 DEF Pairs
    <3>6. Unzip(Push(y)) = pre(k - 1) \o <<c>>
      BY <2>2, <2>3, <2>7, <3>4, <3>5, UnzipAppend, RepeatOne
    <3>7. Push(z)[Len(Push(z))][2] = z.curr
      <4>1. <<z.num, z.curr>> \in Pairs
        BY <2>7 DEF Pairs
      <4>2. Push(z)[Len(z.out) + 1] = <<z.num, z.curr>> /\ Len(Push(z)) = Len(z.out) + 1
        BY <2>7, <4>1, AppendProperties DEF Push
      <4> QED BY <4>2
    <3>8. Alternate(Push(y))
      <4>1. <<1, c>>[2] = c
        OBVIOUS
      <4> DEFINE w == Push(z)
                 e == <<1, c>>
      <4>2. w \in Seq(Pairs) /\ e \in Pairs /\ Alternate(w) /\ w[Len(w)][2] # e[2]
        BY <2>3, <2>7, <3>1, <3>5, <3>7, <4>1
      <4>3. Alternate(Append(w, e))
        <5> HIDE DEF w, e
        <5> QED BY <4>2, AlternateAppend
      <4> QED BY <3>4, <4>3
    <3>9. Unzip(Push(y)) = pre(k) /\ y.curr = u[k]
      BY <2>6, <3>1, <3>3, <3>6
    <3> QED BY <3>8, <3>9 DEF y
  <2>9. CASE ~ NewRun(c, z.curr)
    <3>1. u[k] = z.curr
      BY <2>4, <2>9 DEF NewRun
    <3>2. y = [out |-> z.out, curr |-> z.curr, num |-> z.num + 1]
      BY <2>2, <2>9 DEF Onward
    <3> DEFINE o == z.out
               m == z.num
               d == z.curr
               R == Repeat(<<m, d>>)
    <3>3. y.out = o /\ y.curr = d /\ y.num = m + 1
      BY <3>2
    <3>4. o \in Seq(Pairs) /\ m \in Nat /\ d \in Symbols
      BY <2>7
    <3>5. Push(z) = Append(o, <<m, d>>) /\ Push(y) = Append(o, <<m + 1, d>>)
      BY <3>3 DEF Push
    <3> HIDE DEF o, m, d
    <3>6. <<m, d>> \in Pairs /\ <<m + 1, d>> \in Pairs
      BY <3>4 DEF Pairs
    <3>7. /\ Unzip(Push(z)) = Unzip(o) \o R
          /\ Unzip(Push(y)) = Unzip(o) \o (R \o <<d>>)
          /\ Unzip(o) \in Seq(Symbols)
      BY <3>4, <3>5, <3>6, UnzipAppend, RepeatMore
    <3>8. R \in Seq(Symbols) /\ <<d>> \in Seq(Symbols)
      BY <3>4, <3>6, RepeatIs
    <3>9. Unzip(o) \o (R \o <<d>>) = (Unzip(o) \o R) \o <<d>>
      <4> DEFINE a == Unzip(o)
                 b == <<d>>
                 r == R
      <4>1. a \in Seq(Symbols) /\ r \in Seq(Symbols) /\ b \in Seq(Symbols)
        BY <3>7, <3>8
      <4> HIDE DEF a, b, r
      <4>2. (a \o r) \o b = a \o (r \o b)
        BY <4>1, ConcatAssociative, SMTT(60)
      <4> QED BY <4>2 DEF a, b, r
    <3>10. Unzip(Push(y)) = pre(k) /\ y.curr = u[k]
      <4>1. d = u[k]
        BY <3>1 DEF d
      <4> HIDE DEF R
      <4> QED BY <2>3, <2>6, <3>3, <3>7, <3>9, <4>1
    <3>11. Alternate(Push(y))
      <4> DEFINE A == Push(z)
                 B == Push(y)
                 q == Len(o)
      <4>1. /\ q \in Nat /\ Len(A) = q + 1 /\ Len(B) = q + 1
            /\ A[q + 1] = <<m, d>> /\ B[q + 1] = <<m + 1, d>>
            /\ \A i \in 1 .. q : A[i] = o[i] /\ B[i] = o[i]
        BY <3>4, <3>5, <3>6, AppendProperties, LenProperties
      <4>2. Alternate(A)
        BY <2>3
      <4> HIDE DEF A, B, q
      <4>3. \A i \in 1 .. q + 1 : B[i][2] = A[i][2]
        <5>1. ASSUME NEW i \in 1 .. q + 1 PROVE B[i][2] = A[i][2]
          <6>1. i = q + 1 \/ i \in 1 .. q
            BY <4>1
          <6>2. <<m, d>>[2] = <<m + 1, d>>[2]
            OBVIOUS
          <6> QED BY <4>1, <6>1, <6>2
        <5> QED BY <5>1
      <4>4. \A i \in 1 .. Len(B) - 1 : B[i][2] # B[i + 1][2]
        <5>1. ASSUME NEW i \in 1 .. Len(B) - 1 PROVE B[i][2] # B[i + 1][2]
          <6>1. i \in 1 .. Len(A) - 1 /\ i \in 1 .. q + 1 /\ i + 1 \in 1 .. q + 1
            BY <4>1
          <6> QED BY <4>2, <4>3, <6>1 DEF Alternate
        <5> QED BY <5>1
      <4> QED BY <4>4 DEF Alternate, B
    <3> QED BY <3>10, <3>11 DEF y
  <2> QED BY <2>8, <2>9
<1>7. Good(f[n], n)
  <2> DEFINE P == {k \in 1 .. n : Good(f[k], k)}
  <2> HIDE DEF Good
  <2>1. 1 \in P
    BY <1>3, <1>5
  <2>2. ASSUME NEW k \in 1 + 1 .. n, k - 1 \in P PROVE k \in P
    <3>1. k \in 2 .. n /\ k \in 1 .. n
      BY <1>3
    <3> QED BY <2>2, <3>1, <1>6
  <2>3. \A k \in 1 .. n : k \in P
    <3> HIDE DEF P
    <3> QED BY <2>1, <2>2, <1>3, Upward, 1 \in Nat
  <2>4. n \in 1 .. n
    BY <1>3
  <2> QED BY <2>3, <2>4
<1>8. Runs(l) \in Seq(Pairs)
  <2>1. n \in 1 .. n
    BY <1>3
  <2>2. f[n] \in Loop /\ l[1] \in Symbols
    BY <1>1, <1>3, <2>1
  <2> QED BY <1>1, <2>2, LoopKeeps
<1> QED BY <1>1, <1>4, <1>7, <1>8 DEF u

-----------------------------------------------------------------------------
\* The same of a whole document.
AllRuns(d)     == FlattenSeq([k \in DOMAIN d |-> Runs(d[k])])
AllUnspaced(d) == FlattenSeq([k \in DOMAIN d |-> Unspaced(d[k])])

LEMMA DocumentIs ==
    ASSUME NEW d \in Seq(Seq(Symbols)), \A k \in DOMAIN d : d[k] # <<>>
    PROVE  Unzip(AllRuns(d)) = AllUnspaced(d)
<1> DEFINE n == Len(d)
           R == [k \in DOMAIN d |-> Runs(d[k])]
           U == [k \in DOMAIN d |-> Unspaced(d[k])]
           preR(k) == SubSeq(R, 1, k)
           preU(k) == SubSeq(U, 1, k)
<1>1. n \in Nat /\ DOMAIN d = 1 .. n
  BY LenProperties
<1>2. ASSUME NEW k \in 1 .. n
      PROVE  /\ Runs(d[k]) \in Seq(Pairs) /\ Unspaced(d[k]) \in Seq(Symbols)
             /\ Unzip(Runs(d[k])) = Unspaced(d[k])
  <2>1. d[k] \in Seq(Symbols) /\ d[k] # <<>>
    BY <1>1, ElementOfSeq
  <2>2. Len(d[k]) >= 1
    BY <2>1, EmptySeq
  <2> DEFINE l == d[k]
  <2> HIDE DEF l
  <2>3. l \in Seq(Symbols) /\ Len(l) >= 1
    BY <2>1, <2>2 DEF l
  <2>4. /\ Runs(l) \in Seq(Pairs) /\ Unspaced(l) \in Seq(Symbols)
        /\ Unzip(Runs(l)) = Unspaced(l)
    BY <2>3, RunsAre, UnspacedIs
  <2> QED BY <2>4 DEF l
<1>3. /\ R \in Seq(Seq(Pairs)) /\ Len(R) = n /\ \A k \in 1 .. n : R[k] = Runs(d[k])
      /\ U \in Seq(Seq(Symbols)) /\ Len(U) = n /\ \A k \in 1 .. n : U[k] = Unspaced(d[k])
  <2>1. R = [k \in 1 .. n |-> Runs(d[k])] /\ U = [k \in 1 .. n |-> Unspaced(d[k])]
    BY <1>1
  <2> HIDE DEF n
  <2> QED BY <1>1, <1>2, <2>1
<1> HIDE DEF R, U
<1>4. /\ preR(0) = <<>> /\ preR(n) = R /\ preU(0) = <<>> /\ preU(n) = U
      /\ \A k \in 0 .. n : preR(k) \in Seq(Seq(Pairs)) /\ preU(k) \in Seq(Seq(Symbols))
      /\ \A k \in 1 .. n : /\ R[k] \in Seq(Pairs) /\ preR(k) = Append(preR(k - 1), R[k])
                           /\ U[k] \in Seq(Symbols) /\ preU(k) = Append(preU(k - 1), U[k])
  <2>1. /\ preR(0) = <<>> /\ preR(n) = R
        /\ \A k \in 0 .. n : preR(k) \in Seq(Seq(Pairs))
        /\ \A k \in 1 .. n : R[k] \in Seq(Pairs) /\ preR(k) = Append(preR(k - 1), R[k])
    BY <1>3, Prefix
  <2>2. /\ preU(0) = <<>> /\ preU(n) = U
        /\ \A k \in 0 .. n : preU(k) \in Seq(Seq(Symbols))
        /\ \A k \in 1 .. n : U[k] \in Seq(Symbols) /\ preU(k) = Append(preU(k - 1), U[k])
    BY <1>3, Prefix
  <2> QED BY <2>1, <2>2
<1> HIDE DEF preR, preU
<1> DEFINE P == {k \in 0 .. n : Unzip(FlattenSeq(preR(k))) = FlattenSeq(preU(k))}
<1>5. 0 \in P
  <2>1. Unzip(FlattenSeq(preR(0))) = FlattenSeq(preU(0))
    BY <1>4, FlattenNil, UnzipNil
  <2> QED BY <1>1, <2>1
<1>6. ASSUME NEW k \in 0 + 1 .. n, k - 1 \in P PROVE k \in P
  <2> DEFINE a == preR(k - 1)
             b == preU(k - 1)
             x == R[k]
             y == U[k]
  <2>1. k \in 1 .. n /\ k \in 0 .. n /\ k - 1 \in 0 .. n
    BY <1>1
  <2>2. /\ a \in Seq(Seq(Pairs)) /\ b \in Seq(Seq(Symbols))
        /\ x \in Seq(Pairs) /\ y \in Seq(Symbols)
        /\ preR(k) = Append(a, x) /\ preU(k) = Append(b, y)
    BY <1>4, <2>1
  <2>3. Unzip(x) = y
    BY <1>2, <1>3, <2>1
  <2>4. Unzip(FlattenSeq(a)) = FlattenSeq(b)
    BY <1>6
  <2> HIDE DEF a, b, x, y
  <2>5. /\ FlattenSeq(a) \in Seq(Pairs)
        /\ FlattenSeq(Append(a, x)) = FlattenSeq(a) \o x
        /\ FlattenSeq(Append(b, y)) = FlattenSeq(b) \o y
    BY <2>2, FlattenAppend
  <2>6. Unzip(FlattenSeq(a) \o x) = Unzip(FlattenSeq(a)) \o Unzip(x)
    BY <2>2, <2>5, UnzipConcat
  <2>7. Unzip(FlattenSeq(preR(k))) = FlattenSeq(preU(k))
    BY <2>2, <2>3, <2>4, <2>5, <2>6
  <2> QED BY <2>1, <2>7
<1>7. \A k \in 0 .. n : k \in P
  <2> HIDE DEF P
  <2> QED BY <1>1, <1>5, <1>6, Upward, 0 \in Nat
<1>8. Unzip(FlattenSeq(preR(n))) = FlattenSeq(preU(n))
  <2>1. n \in 0 .. n
    BY <1>1
  <2> QED BY <2>1, <1>7
<1> QED BY <1>4, <1>8 DEF AllRuns, AllUnspaced, R, U

\* One line is its runs.
LEMMA OneLine ==
    ASSUME NEW d \in Seq(Seq(Symbols)), d[1] # <<>>, Len(d) = 1
    PROVE  Alternate(AllRuns(d))
<1> DEFINE l == d[1]
           R == [k \in DOMAIN d |-> Runs(d[k])]
<1>1. l \in Seq(Symbols) /\ Len(l) >= 1
  <2>1. l \in Seq(Symbols)
    BY ElementOfSeq
  <2> HIDE DEF l
  <2>2. l # <<>>
    BY DEF l
  <2> QED BY <2>1, <2>2, EmptySeq
<1>2. R = <<Runs(l)>>
  <2>1. DOMAIN d = 1 .. 1
    BY LenProperties
  <2>2. R = [k \in 1 .. 1 |-> Runs(l)]
    BY <2>1
  <2> QED BY <2>2
<1> HIDE DEF l
<1>3. Runs(l) \in Seq(Pairs) /\ Alternate(Runs(l))
  BY <1>1, RunsAre
<1> DEFINE r == Runs(l)
           e == <<>>
<1>4. r \in Seq(Pairs) /\ e \in Seq(Seq(Pairs)) /\ <<r>> = Append(e, r)
  BY <1>3
<1>5. FlattenSeq(<<r>>) = FlattenSeq(e) \o r
  <2>1. FlattenSeq(Append(e, r)) = FlattenSeq(e) \o r
    <3> HIDE DEF r, e
    <3> QED BY <1>4, FlattenAppend
  <2> HIDE DEF r, e
  <2> QED BY <1>4, <2>1
<1>6. FlattenSeq(e) \o r = r
  BY <1>4, FlattenNil, ConcatEmptySeq
<1> QED BY <1>2, <1>3, <1>5, <1>6 DEF AllRuns

-----------------------------------------------------------------------------
ZInductive ==
    /\ document \in Documents
    /\ step \in {"zip", "unzip", "done"}
    /\ step = "zip" => zipped = <<>>
    /\ step # "zip" => /\ \A k \in DOMAIN document : document[k] # <<>>
                       /\ zipped = AllRuns(document)
    /\ step = "done" => unzipped = Unzip(zipped)

LEMMA ZipStep == ZInductive /\ [ZNext]_zvars => ZInductive'
<1> SUFFICES ASSUME ZInductive, [ZNext]_zvars PROVE ZInductive'
  OBVIOUS
<1>1. CASE Compress
  <2>1. /\ document' = document /\ step' = "unzip"
        /\ zipped' = AllRuns(document)
        /\ \A k \in DOMAIN document : document[k] # <<>>
    BY <1>1 DEF Compress, AllRuns
  <2> QED BY <2>1 DEF ZInductive
<1>2. CASE Expand
  <2>1. /\ document' = document /\ zipped' = zipped /\ step = "unzip" /\ step' = "done"
        /\ unzipped' = Unzip(zipped)
    BY <1>2 DEF Expand, Unzip
  <2> QED BY <2>1 DEF ZInductive
<1>3. CASE UNCHANGED zvars
  BY <1>3 DEF ZInductive, zvars
<1> QED BY <1>1, <1>2, <1>3 DEF ZNext

LEMMA ImpliesZip == ZInductive => ZipRight
<1> SUFFICES ASSUME ZInductive PROVE ZipRight
  OBVIOUS
<1>1. document \in Seq(Seq(Symbols))
  BY ZipAssumption DEF ZInductive
<1>2. RoundTrip
  <2> SUFFICES ASSUME step = "done" PROVE unzipped = AllUnspaced(document)
    BY DEF RoundTrip, AllUnspaced
  <2>1. /\ \A k \in DOMAIN document : document[k] # <<>>
        /\ unzipped = Unzip(AllRuns(document))
    BY DEF ZInductive
  <2> QED BY <1>1, <2>1, DocumentIs
<1>3. Shortest
  <2> SUFFICES ASSUME Len(document) = 1
               PROVE  \A k \in 1 .. Len(zipped) - 1 : zipped[k][2] # zipped[k + 1][2]
    BY DEF Shortest
  <2>1. CASE step = "zip"
    <3>1. zipped = <<>>
      BY <2>1 DEF ZInductive
    <3>2. Alternate(<<>>)
      BY DEF Alternate
    <3> QED BY <3>1, <3>2 DEF Alternate
  <2>2. CASE step # "zip"
    <3>1. (\A k \in DOMAIN document : document[k] # <<>>) /\ zipped = AllRuns(document)
      BY <2>2 DEF ZInductive
    <3>2. 1 \in DOMAIN document
      BY <1>1, LenProperties
    <3>3. Alternate(AllRuns(document))
      BY <1>1, <3>1, <3>2, OneLine
    <3>4. Alternate(zipped)
      BY <3>1, <3>3
    <3> QED BY <3>4 DEF Alternate
  <2> QED BY <2>1, <2>2
<1> QED BY <1>2, <1>3 DEF ZipRight

\* wunzip gives back what wzip was given, but for the spaces and the ends of lines, and
\* wzip needs no more pairs than there are runs, for every document (wzip, wunzip: main).
THEOREM ZipInvariant == ZSpec => []ZipRight
<1>1. ZInit => ZInductive
  BY DEF ZInit, ZInductive
<1>2. ZInductive /\ [ZNext]_zvars => ZInductive'
  BY ZipStep
<1>3. ZInductive => ZipRight
  BY ImpliesZip
<1> QED BY <1>1, <1>2, <1>3, PTL DEF ZSpec

-----------------------------------------------------------------------------
\* grep.  First the loop: what it has written and kept after some pieces is what it had
\* written and kept if they were one.  Then the matcher: it finds a line if and only if
\* the pattern describes a part of it.
\*
\* The line that ends before place k of s begins at a.
Begins(s, k, a) == (a = 1 \/ s[a - 1] = NL) /\ \A l \in a .. k - 1 : s[l] # NL

LEMMA LineStart ==
    ASSUME NEW T, NEW s \in Seq(T), NEW k \in 1 .. Len(s)
    PROVE  \E a \in 1 .. k : Begins(s, k, a)
<1> DEFINE B == {l \in 1 .. k - 1 : s[l] = NL}
<1>1. Len(s) \in Nat /\ k \in Nat /\ k - 1 \in Nat
  BY LenProperties
<1>2. CASE B = {}
  <2>1. 1 \in 1 .. k
    BY <1>1
  <2> QED BY <1>2, <2>1 DEF Begins
<1>3. CASE B # {}
  <2>1. PICK x \in B : \A y \in B : y <= x
    <3>1. B \subseteq 0 .. k - 1
      OBVIOUS
    <3> HIDE DEF B
    <3> QED BY <1>1, <1>3, <3>1, GreatestIn
  <2>2. x \in 1 .. k - 1 /\ s[x] = NL /\ x + 1 \in 1 .. k /\ (x + 1) - 1 = x
    BY <1>1, <2>1
  <2>3. ASSUME NEW l \in x + 1 .. k - 1 PROVE s[l] # NL
    <3>1. l \in 1 .. k - 1 /\ ~ (l <= x)
      BY <1>1, <2>2
    <3> QED BY <2>1, <3>1
  <2> QED BY <2>2, <2>3 DEF Begins
<1> QED BY <1>2, <1>3

LEMMA LineIs ==
    ASSUME NEW T, NEW s \in Seq(T), NEW k \in 1 .. Len(s), NEW a \in 1 .. k, Begins(s, k, a)
    PROVE  Line(s, k) = SubSeq(s, a, k - 1)
<1> DEFINE B == {l \in Ends(s) : l < k}
           Last1(l) == \A n \in B : n <= l
<1>1. Len(s) \in Nat /\ DOMAIN s = 1 .. Len(s) /\ a \in Nat /\ k \in Nat
  BY LenProperties
<1>2. B = {l \in 1 .. Len(s) : s[l] = NL /\ l < k}
  BY <1>1 DEF Ends
<1>3. \A l \in B : l <= a - 1
  <2>1. ASSUME NEW l \in B, ~ (l <= a - 1) PROVE FALSE
    <3>1. l \in a .. k - 1 /\ s[l] = NL
      BY <1>1, <1>2, <2>1
    <3> QED BY <3>1 DEF Begins
  <2> QED BY <2>1
<1>4. CASE a = 1
  <2>1. B = {}
    <3>1. \A l \in B : l >= 1 /\ l <= 0
      BY <1>2, <1>3, <1>4
    <3>2. \A l \in B : l \in Nat
      BY <1>1, <1>2
    <3> HIDE DEF B
    <3> QED BY <3>1, <3>2
  <2> HIDE DEF B
  <2>2. Line(s, k) = SubSeq(s, 1, k - 1)
    BY <2>1 DEF Line, B
  <2> QED BY <1>4, <2>2
<1>5. CASE a # 1
  <2>1. a - 1 \in B
    <3>1. s[a - 1] = NL /\ a - 1 \in 1 .. Len(s) /\ a - 1 < k
      BY <1>1, <1>5 DEF Begins
    <3> QED BY <1>2, <3>1
  <2>2. B # {}
    BY <2>1
  <2> DEFINE m == CHOOSE l \in B : \A n \in B : n <= l
  <2>3. m \in B /\ \A n \in B : n <= m
    <3> HIDE DEF B
    <3> QED BY <1>3, <2>1
  <2>4. m = a - 1
    <3>1. m \in B /\ m <= a - 1 /\ a - 1 <= m
      <4> HIDE DEF B, m
      <4> QED BY <1>3, <2>1, <2>3
    <3>2. m \in Int
      <4> HIDE DEF m
      <4> QED BY <1>2, <3>1
    <3> HIDE DEF m, B
    <3> QED BY <1>1, <3>1, <3>2
  <2>5. Line(s, k) = SubSeq(s, 1 + m, k - 1)
    BY <2>2 DEF Line
  <2>6. 1 + m = a
    <3> HIDE DEF m
    <3> QED BY <1>1, <2>4
  <2> QED BY <2>5, <2>6
<1> QED BY <1>4, <1>5

\* What is in a line, and how long it is at most.
LEMMA LineFacts ==
    ASSUME NEW T, NEW s \in Seq(T), NEW k \in 1 .. Len(s)
    PROVE  /\ Line(s, k) \in Seq(T \ {NL})
           /\ Len(Line(s, k)) < k
<1>1. PICK a \in 1 .. k : Begins(s, k, a)
  BY LineStart
<1>2. Line(s, k) = SubSeq(s, a, k - 1)
  BY <1>1, LineIs
<1>3. ASSUME NEW l \in a .. k - 1 PROVE s[l] \in T \ {NL}
  <2>1. l \in 1 .. Len(s)
    BY LenProperties
  <2>2. s[l] # NL
    BY <1>1 DEF Begins
  <2>3. s[l] \in T
    BY <2>1, ElementOfSeq
  <2> QED BY <2>2, <2>3
<1>4. a \in Int /\ k - 1 \in Int
  BY LenProperties
<1>5. /\ SubSeq(s, a, k - 1) \in Seq(T \ {NL})
      /\ Len(SubSeq(s, a, k - 1)) = IF a <= k - 1 THEN (k - 1) - a + 1 ELSE 0
  <2> DEFINE U == T \ {NL}
  <2>1. \A l \in a .. k - 1 : s[l] \in U
    BY <1>3
  <2> HIDE DEF U
  <2>2. /\ SubSeq(s, a, k - 1) \in Seq(U)
        /\ Len(SubSeq(s, a, k - 1)) = IF a <= k - 1 THEN (k - 1) - a + 1 ELSE 0
    BY <1>4, <2>1, SubSeqProperties
  <2> QED BY <2>2 DEF U
<1>6. Len(SubSeq(s, a, k - 1)) < k
  <2>1. a \in Nat /\ k \in Nat /\ a >= 1
    BY LenProperties
  <2> QED BY <1>5, <2>1
<1> QED BY <1>2, <1>5, <1>6

\* After the end of a line, the lines are those of what follows, and before it those of
\* what was there.
Closed(s) == s = <<>> \/ s[Len(s)] = NL

LEMMA LineBefore ==
    ASSUME NEW T, NEW h \in Seq(T), NEW t \in Seq(T), NEW k \in 1 .. Len(h)
    PROVE  Line(h \o t, k) = Line(h, k)
<1> DEFINE s == h \o t
<1>1. /\ s \in Seq(T) /\ Len(h) \in Nat /\ Len(t) \in Nat /\ Len(s) = Len(h) + Len(t)
      /\ \A i \in 1 .. Len(h) : s[i] = h[i]
  BY ConcatProperties, LenProperties
<1>2. PICK a \in 1 .. k : Begins(h, k, a)
  BY LineStart
<1>3. k \in 1 .. Len(s) /\ k - 1 \in 0 .. Len(h)
  BY <1>1
<1> HIDE DEF s
<1>4. Begins(s, k, a)
  <2>1. a = 1 \/ (a - 1 \in 1 .. Len(h) /\ s[a - 1] = NL)
    <3>1. a = 1 \/ a - 1 \in 1 .. Len(h)
      BY <1>1
    <3> QED BY <1>1, <1>2, <3>1 DEF Begins
  <2>2. \A l \in a .. k - 1 : l \in 1 .. Len(h)
    BY <1>1
  <2> QED BY <1>1, <1>2, <2>1, <2>2 DEF Begins
<1>5. Line(s, k) = SubSeq(s, a, k - 1) /\ Line(h, k) = SubSeq(h, a, k - 1)
  BY <1>1, <1>2, <1>3, <1>4, LineIs
<1>6. SubSeq(s, a, k - 1) = SubSeq(h, a, k - 1)
  <2>1. CASE a <= k - 1
    <3>1. a \in 1 .. Len(h) /\ k - 1 \in 1 .. Len(h)
      BY <1>1, <1>3, <2>1
    <3> QED BY <3>1, SubSeqOfConcat1 DEF s
  <2>2. CASE ~ (a <= k - 1)
    <3>1. a \in Int /\ k - 1 \in Int /\ k - 1 < a
      BY <1>1, <2>2
    <3> QED BY <3>1, SubSeqEmpty
  <2> QED BY <2>1, <2>2
<1> QED BY <1>5, <1>6 DEF s

LEMMA LineAfter ==
    ASSUME NEW T, NEW h \in Seq(T), NEW t \in Seq(T), Closed(h), NEW k \in 1 .. Len(t)
    PROVE  Line(h \o t, Len(h) + k) = Line(t, k)
<1> DEFINE s == h \o t
           m == Len(h)
<1>1. /\ s \in Seq(T) /\ m \in Nat /\ Len(t) \in Nat /\ Len(s) = m + Len(t)
      /\ \A i \in 1 .. m + Len(t) : s[i] = IF i <= m THEN h[i] ELSE t[i - m]
  BY ConcatProperties, LenProperties
<1>2. PICK a \in 1 .. k : Begins(t, k, a)
  BY LineStart
<1> DEFINE b == m + a
           q == m + k
<1>3. q \in 1 .. Len(s) /\ b \in 1 .. q /\ a \in Int /\ k \in Int
  BY <1>1
<1>4. \A l \in 1 .. Len(t) : s[m + l] = t[l]
  <2>1. ASSUME NEW l \in 1 .. Len(t) PROVE s[m + l] = t[l]
    <3>1. m + l \in 1 .. m + Len(t) /\ ~ (m + l <= m) /\ (m + l) - m = l
      BY <1>1
    <3> HIDE DEF s, m
    <3> QED BY <1>1, <3>1
  <2> QED BY <2>1
<1>5. b = 1 \/ s[b - 1] = NL
  <2>1. CASE a = 1
    <3>1. CASE m = 0
      BY <2>1, <3>1
    <3>2. CASE m # 0
      <4>1. h # <<>> /\ h[m] = NL
        BY <3>2, EmptySeq DEF Closed
      <4>2. m \in 1 .. m + Len(t) /\ m <= m /\ b - 1 = m
        BY <1>1, <2>1, <3>2
      <4> HIDE DEF s, m, b
      <4> QED BY <1>1, <4>1, <4>2
    <3> QED BY <3>1, <3>2
  <2>2. CASE a # 1
    <3>1. t[a - 1] = NL /\ a - 1 \in 1 .. Len(t) /\ b - 1 = m + (a - 1)
      BY <1>1, <1>2, <1>3, <2>2 DEF Begins
    <3> HIDE DEF s, m, b
    <3> QED BY <1>4, <3>1
  <2> QED BY <2>1, <2>2
<1>6. ASSUME NEW l \in b .. q - 1 PROVE s[l] # NL
  <2>1. l - m \in 1 .. Len(t) /\ l - m \in a .. k - 1 /\ m + (l - m) = l
    BY <1>1, <1>3
  <2>2. t[l - m] # NL
    BY <1>2, <2>1 DEF Begins
  <2>3. s[m + (l - m)] = t[l - m]
    <3> HIDE DEF s, m
    <3> QED BY <1>4, <2>1
  <2> HIDE DEF s, m
  <2> QED BY <2>1, <2>2, <2>3
<1>7. Begins(s, q, b)
  <2> HIDE DEF s, q, b
  <2> QED BY <1>5, <1>6 DEF Begins
<1>8. Line(s, q) = SubSeq(s, b, q - 1) /\ Line(t, k) = SubSeq(t, a, k - 1)
  <2>1. Line(s, q) = SubSeq(s, b, q - 1)
    <3> HIDE DEF s, q, b
    <3> QED BY <1>1, <1>3, <1>7, LineIs
  <2>2. Line(t, k) = SubSeq(t, a, k - 1)
    BY <1>2, LineIs
  <2> QED BY <2>1, <2>2
<1>9. SubSeq(s, b, q - 1) = SubSeq(t, a, k - 1)
  <2>1. CASE a <= k - 1
    <3>1. /\ b \in m + 1 .. m + Len(t) /\ q - 1 \in m + 1 .. m + Len(t)
          /\ b - m = a /\ (q - 1) - m = k - 1
      BY <1>1, <1>3, <2>1
    <3>2. SubSeq(h \o t, b, q - 1) = SubSeq(t, b - m, (q - 1) - m)
      <4> HIDE DEF b, q
      <4> QED BY <3>1, SubSeqOfConcat2
    <3> HIDE DEF b, q, m
    <3> QED BY <3>1, <3>2
  <2>2. CASE ~ (a <= k - 1)
    <3>1. a \in Int /\ k - 1 \in Int /\ k - 1 < a /\ b \in Int /\ q - 1 \in Int /\ q - 1 < b
      BY <1>1, <1>3, <2>2
    <3> HIDE DEF b, q, s, m
    <3> QED BY <3>1, SubSeqEmpty
  <2> QED BY <2>1, <2>2
<1> QED BY <1>8, <1>9

-----------------------------------------------------------------------------
\* What is picked from two parts is what is picked from each.
LEMMA PickedSeq ==
    ASSUME NEW T, NEW s \in Seq(T), NEW K,
           NEW M, M = [k \in DOMAIN s |-> IF k \in K THEN <<Line(s, k)>> ELSE <<>>]
    PROVE  /\ M \in Seq(Seq(Seq(T))) /\ Len(M) = Len(s)
           /\ \A k \in 1 .. Len(s) : M[k] = IF k \in K THEN <<Line(s, k)>> ELSE <<>>
<1> DEFINE n == Len(s)
           X == Seq(Seq(T))
           v(k) == IF k \in K THEN <<Line(s, k)>> ELSE <<>>
<1>1. n \in Nat /\ DOMAIN s = 1 .. n
  BY LenProperties
<1>2. ASSUME NEW k \in 1 .. n PROVE v(k) \in X
  <2>1. Line(s, k) \in Seq(T \ {NL})
    BY LineFacts
  <2>2. Line(s, k) \in Seq(T)
    BY <2>1, SeqMonotonic, T \ {NL} \subseteq T
  <2> QED BY <2>2
<1>3. M = [k \in 1 .. n |-> v(k)]
  BY <1>1
<1> HIDE DEF v, n, X
<1>4. M \in Seq(X) /\ Len(M) = n /\ \A k \in 1 .. n : M[k] = v(k)
  BY <1>1, <1>2, <1>3
<1> QED BY <1>4 DEF X, n, v

LEMMA PickedIn ==
    ASSUME NEW T, NEW s \in Seq(T), NEW K
    PROVE  Picked(s, K) \in Seq(Seq(T))
<1> DEFINE M == [k \in DOMAIN s |-> IF k \in K THEN <<Line(s, k)>> ELSE <<>>]
           X == Seq(T)
<1>1. M \in Seq(Seq(X)) /\ <<>> \in Seq(X)
  BY PickedSeq, EmptySeq
<1>2. FlattenSeq(M) \in Seq(X)
  <2> HIDE DEF M, X
  <2> QED BY <1>1, FlattenAppend
<1> QED BY <1>2 DEF Picked

\* K names the places of h that I names, and those of t that J names.
Halves(h, t, K, I, J) ==
    /\ Closed(h)
    /\ \A k \in 1 .. Len(h) : k \in K <=> k \in I
    /\ \A k \in 1 .. Len(t) : Len(h) + k \in K <=> k \in J

LEMMA PickedConcat ==
    ASSUME NEW T, NEW h \in Seq(T), NEW t \in Seq(T), NEW K, NEW I, NEW J, Halves(h, t, K, I, J)
    PROVE  Picked(h \o t, K) = Picked(h, I) \o Picked(t, J)
<1> SUFFICES ASSUME Closed(h), \A k \in 1 .. Len(h) : k \in K <=> k \in I,
                    \A k \in 1 .. Len(t) : Len(h) + k \in K <=> k \in J
             PROVE  Picked(h \o t, K) = Picked(h, I) \o Picked(t, J)
  BY DEF Halves
<1> DEFINE s == h \o t
           m == Len(h)
           n == Len(t)
           A == [k \in DOMAIN h |-> IF k \in I THEN <<Line(h, k)>> ELSE <<>>]
           B == [k \in DOMAIN t |-> IF k \in J THEN <<Line(t, k)>> ELSE <<>>]
           C == [k \in DOMAIN s |-> IF k \in K THEN <<Line(s, k)>> ELSE <<>>]
           X == Seq(Seq(T))
<1>1. m \in Nat /\ n \in Nat /\ s \in Seq(T) /\ Len(s) = m + n
  BY ConcatProperties, LenProperties
<1>2. /\ A \in Seq(X) /\ Len(A) = m
      /\ \A k \in 1 .. m : A[k] = IF k \in I THEN <<Line(h, k)>> ELSE <<>>
  BY PickedSeq
<1>3. /\ B \in Seq(X) /\ Len(B) = n
      /\ \A k \in 1 .. n : B[k] = IF k \in J THEN <<Line(t, k)>> ELSE <<>>
  BY PickedSeq
<1>4. /\ C \in Seq(X) /\ Len(C) = m + n
      /\ \A k \in 1 .. m + n : C[k] = IF k \in K THEN <<Line(s, k)>> ELSE <<>>
  <2>1. s \in Seq(T)
    BY <1>1
  <2> HIDE DEF s
  <2>2. /\ C \in Seq(X) /\ Len(C) = Len(s)
        /\ \A k \in 1 .. Len(s) : C[k] = IF k \in K THEN <<Line(s, k)>> ELSE <<>>
    BY <2>1, PickedSeq
  <2> HIDE DEF C
  <2> QED BY <1>1, <2>2
<1> HIDE DEF A, B, C, X
<1> DEFINE D == A \o B
<1>5. /\ D \in Seq(X) /\ Len(D) = m + n
      /\ \A k \in 1 .. m + n : D[k] = IF k <= m THEN A[k] ELSE B[k - m]
  <2>1. A \in Seq(X) /\ B \in Seq(X)
    BY <1>2, <1>3
  <2>2. /\ D \in Seq(X) /\ Len(D) = Len(A) + Len(B)
        /\ \A k \in 1 .. Len(A) + Len(B) : D[k] = IF k <= Len(A) THEN A[k] ELSE B[k - Len(A)]
    BY <2>1, ConcatProperties
  <2>3. Len(A) = m /\ Len(B) = n
    BY <1>2, <1>3
  <2> HIDE DEF m, n, D
  <2> QED BY <2>2, <2>3
<1> HIDE DEF D
<1>6. ASSUME NEW k \in 1 .. m + n PROVE C[k] = D[k]
  <2>1. CASE k <= m
    <3>1. k \in 1 .. m
      BY <1>1, <2>1
    <3>2. Line(s, k) = Line(h, k)
      BY <3>1, LineBefore
    <3>3. k \in K <=> k \in I
      BY <3>1
    <3> HIDE DEF s, m, n
    <3> QED BY <1>2, <1>4, <1>5, <2>1, <3>1, <3>2, <3>3
  <2>2. CASE ~ (k <= m)
    <3>1. k - m \in 1 .. n /\ m + (k - m) = k
      BY <1>1, <2>2
    <3> DEFINE q == k - m
    <3>2. q \in 1 .. n /\ m + q = k
      BY <3>1
    <3> HIDE DEF q
    <3>3. Line(s, m + q) = Line(t, q)
      BY <3>2, LineAfter
    <3>4. m + q \in K <=> q \in J
      BY <3>2
    <3>5. D[k] = B[q] /\ B[q] = IF q \in J THEN <<Line(t, q)>> ELSE <<>>
      <4> HIDE DEF m, n
      <4> QED BY <1>3, <1>5, <2>2, <3>2 DEF q
    <3> HIDE DEF s, m, n
    <3> QED BY <1>4, <3>2, <3>3, <3>4, <3>5
  <2> QED BY <2>1, <2>2
<1>7. C = D
  <2> HIDE DEF m, n
  <2>1. Len(C) = Len(D) /\ \A k \in 1 .. Len(C) : C[k] = D[k]
    BY <1>4, <1>5, <1>6
  <2> QED BY <1>4, <1>5, <2>1, SeqEqual
<1>8. FlattenSeq(A \o B) = FlattenSeq(A) \o FlattenSeq(B)
  <2> DEFINE Y == Seq(T)
  <2>1. A \in Seq(Seq(Y)) /\ B \in Seq(Seq(Y))
    BY <1>2, <1>3 DEF X
  <2> HIDE DEF Y
  <2> QED BY <2>1, FlattenConcat
<1>9. Picked(s, K) = FlattenSeq(C) /\ Picked(h, I) = FlattenSeq(A) /\ Picked(t, J) = FlattenSeq(B)
  BY DEF Picked, A, B, C
<1> HIDE DEF s
<1>10. Picked(s, K) = Picked(h, I) \o Picked(t, J)
  BY <1>7, <1>8, <1>9 DEF D
<1> QED BY <1>10 DEF s

LEMMA PickedNone ==
    ASSUME NEW T, NEW s \in Seq(T), NEW K, \A k \in 1 .. Len(s) : k \notin K
    PROVE  Picked(s, K) = <<>>
<1> DEFINE M == [k \in DOMAIN s |-> IF k \in K THEN <<Line(s, k)>> ELSE <<>>]
           X == Seq(T)
           n == Len(s)
           pre(k) == SubSeq(M, 1, k)
           P == {k \in 0 .. n : FlattenSeq(pre(k)) = <<>>}
<1>1. M \in Seq(Seq(X)) /\ Len(M) = n /\ \A k \in 1 .. n : M[k] = <<>>
  BY PickedSeq
<1> HIDE DEF M, X
<1>2. /\ n \in Nat /\ pre(0) = <<>> /\ pre(n) = M
      /\ \A k \in 0 .. n : pre(k) \in Seq(Seq(X))
      /\ \A k \in 1 .. n : pre(k) = Append(pre(k - 1), M[k])
  <2>1. n \in Nat
    BY LenProperties
  <2> DEFINE Y == Seq(X)
  <2>2. M \in Seq(Y)
    BY <1>1
  <2> HIDE DEF Y
  <2>3. /\ pre(0) = <<>> /\ pre(Len(M)) = M
        /\ \A k \in 0 .. Len(M) : pre(k) \in Seq(Y)
        /\ \A k \in 1 .. Len(M) : pre(k) = Append(pre(k - 1), M[k])
    BY <2>2, Prefix
  <2> QED BY <1>1, <2>1, <2>3 DEF Y
<1> HIDE DEF pre, n
<1>3. 0 \in P
  BY <1>2, FlattenNil
<1>4. ASSUME NEW k \in 0 + 1 .. n, k - 1 \in P PROVE k \in P
  <2>1. k \in 1 .. n /\ k \in 0 .. n /\ k - 1 \in 0 .. n
    BY <1>2
  <2> DEFINE w == pre(k - 1)
             e == <<>>
  <2>2. FlattenSeq(w) = <<>> /\ w \in Seq(Seq(X)) /\ e \in Seq(X) /\ pre(k) = Append(w, e)
    <3>1. FlattenSeq(w) = <<>>
      BY <1>4
    <3>2. w \in Seq(Seq(X))
      BY <1>2, <2>1
    <3>3. pre(k) = Append(w, M[k]) /\ M[k] = e
      BY <1>1, <1>2, <2>1
    <3>4. e \in Seq(X)
      BY EmptySeq
    <3> HIDE DEF w, P
    <3> QED BY <3>1, <3>2, <3>3, <3>4
  <2>3. FlattenSeq(Append(w, e)) = FlattenSeq(w) \o e
    <3> HIDE DEF w, e
    <3> QED BY <2>2, FlattenAppend
  <2>4. FlattenSeq(pre(k)) = <<>>
    BY <2>2, <2>3
  <2> QED BY <2>1, <2>4
<1>5. \A k \in 0 .. n : k \in P
  <2> HIDE DEF P
  <2> QED BY <1>2, <1>3, <1>4, Upward, 0 \in Nat
<1>6. FlattenSeq(M) = <<>>
  <2>1. n \in 0 .. n
    BY <1>2
  <2> QED BY <1>2, <1>5, <2>1
<1> QED BY <1>6 DEF Picked, M

LEMMA MatchingConcat ==
    ASSUME NEW T, NEW h \in Seq(T), NEW t \in Seq(T), Closed(h), NEW re
    PROVE  Matching(re, h \o t) = Matching(re, h) \o Matching(re, t)
<1> DEFINE s == h \o t
           m == Len(h)
           Hits(x) == {k \in Ends(x) : Match(re, Line(x, k))}
<1>1. /\ m \in Nat /\ Len(t) \in Nat /\ s \in Seq(T) /\ Len(s) = m + Len(t)
      /\ DOMAIN h = 1 .. m /\ DOMAIN t = 1 .. Len(t) /\ DOMAIN s = 1 .. m + Len(t)
      /\ \A k \in 1 .. m + Len(t) : s[k] = IF k <= m THEN h[k] ELSE t[k - m]
  BY ConcatProperties, LenProperties
<1>2. ASSUME NEW k \in 1 .. m PROVE k \in Hits(s) <=> k \in Hits(h)
  <2>1. k \in 1 .. m + Len(t) /\ k <= m /\ Line(s, k) = Line(h, k)
    BY <1>1, LineBefore
  <2>2. s[k] = h[k]
    <3> HIDE DEF s, m
    <3> QED BY <1>1, <2>1
  <2> HIDE DEF s, m
  <2> QED BY <1>1, <2>1, <2>2 DEF Ends
<1>3. ASSUME NEW k \in 1 .. Len(t) PROVE m + k \in Hits(s) <=> k \in Hits(t)
  <2>1. m + k \in 1 .. m + Len(t) /\ ~ (m + k <= m) /\ (m + k) - m = k
    BY <1>1
  <2>2. Line(s, m + k) = Line(t, k)
    BY LineAfter
  <2>3. s[m + k] = t[k]
    <3> HIDE DEF s, m
    <3> QED BY <1>1, <2>1
  <2> HIDE DEF s, m
  <2> QED BY <1>1, <2>1, <2>2, <2>3 DEF Ends
<1> DEFINE K == Hits(s)
           I == Hits(h)
           J == Hits(t)
<1>4. /\ \A k \in 1 .. Len(h) : k \in K <=> k \in I
      /\ \A k \in 1 .. Len(t) : Len(h) + k \in K <=> k \in J
  <2> HIDE DEF Hits
  <2> QED BY <1>2, <1>3
<1>5. Picked(h \o t, K) = Picked(h, I) \o Picked(t, J)
  <2> HIDE DEF Hits, K, I, J
  <2>1. Halves(h, t, K, I, J)
    BY <1>4 DEF Halves
  <2> QED BY <2>1, PickedConcat
<1> QED BY <1>5 DEF Matching

LEMMA MatchingNone ==
    ASSUME NEW T, NEW s \in Seq(T), Ends(s) = {}, NEW re
    PROVE  Matching(re, s) = <<>>
<1>1. \A k \in 1 .. Len(s) : k \notin {k2 \in Ends(s) : Match(re, Line(s, k2))}
  OBVIOUS
<1> QED BY <1>1, PickedNone DEF Matching

\* What is behind the last end of a line.
LEMMA RestIs ==
    ASSUME NEW T, NL \in T, NEW s \in Seq(T)
    PROVE  /\ Rest(s) \in Seq(T \ {NL}) /\ Len(Rest(s)) <= Len(s)
           /\ Ends(Rest(s)) = {}
           /\ \E h \in Seq(T) : Closed(h) /\ s = h \o Rest(s)
<1> DEFINE n == Len(s)
           w == Append(s, NL)
<1>1. /\ n \in Nat /\ w \in Seq(T) /\ Len(w) = n + 1
      /\ \A i \in 1 .. n : w[i] = s[i]
  BY AppendProperties, LenProperties
<1>2. n + 1 \in 1 .. Len(w) /\ n + 1 - 1 = n
  BY <1>1
<1> HIDE DEF n, w
<1>3. PICK a \in 1 .. n + 1 : Begins(w, n + 1, a)
  BY <1>1, <1>2, LineStart
<1>4. Line(w, n + 1) = SubSeq(w, a, n)
  <2> DEFINE k == n + 1
  <2>1. w \in Seq(T) /\ k \in 1 .. Len(w) /\ a \in 1 .. k /\ Begins(w, k, a) /\ k - 1 = n
    BY <1>1, <1>2, <1>3
  <2> HIDE DEF k
  <2>2. Line(w, k) = SubSeq(w, a, k - 1)
    BY ONLY <2>1, LineIs
  <2> QED BY <2>1, <2>2 DEF k
<1>5. a \in Int /\ a - 1 \in 0 .. n
  BY <1>1
<1>6. SubSeq(w, a, n) = SubSeq(s, a, n)
  <2>1. CASE a <= n
    <3>1. a \in 1 .. Len(s) /\ n \in 1 .. Len(s)
      BY <1>1, <1>5, <2>1 DEF n
    <3>2. <<NL>> \in Seq(T) /\ w = s \o <<NL>>
      BY AppendIsConcat DEF w
    <3>3. SubSeq(s \o <<NL>>, a, n) = SubSeq(s, a, n)
      BY <3>1, <3>2, SubSeqOfConcat1
    <3> QED BY <3>2, <3>3
  <2>2. CASE ~ (a <= n)
    <3>1. n < a /\ n \in Int
      BY <1>1, <1>5, <2>2
    <3> QED BY <1>5, <3>1, SubSeqEmpty
  <2> QED BY <2>1, <2>2
<1>7. Rest(s) = Line(w, n + 1) /\ Rest(s) = SubSeq(s, a, n)
  BY <1>4, <1>6 DEF Rest, w, n
<1>8. Rest(s) \in Seq(T \ {NL}) /\ Len(Rest(s)) <= n
  <2>1. Line(w, n + 1) \in Seq(T \ {NL}) /\ Len(Line(w, n + 1)) < n + 1
    BY <1>1, <1>2, LineFacts
  <2>2. Len(Rest(s)) \in Nat /\ Rest(s) \in Seq(T \ {NL})
    BY <1>7, <2>1, LenProperties
  <2> QED BY <1>1, <1>7, <2>1, <2>2
<1>9. Ends(Rest(s)) = {}
  <2> DEFINE r == Rest(s)
             U == T \ {NL}
  <2>1. r \in Seq(U)
    BY <1>8
  <2> HIDE DEF r, U
  <2>2. \A k \in DOMAIN r : r[k] \in U
    BY <2>1, LenProperties, ElementOfSeq
  <2>3. \A k \in DOMAIN r : r[k] # NL
    BY <2>2 DEF U
  <2>4. Ends(r) = {}
    BY <2>3 DEF Ends
  <2> QED BY <2>4 DEF r
<1> DEFINE h == SubSeq(s, 1, a - 1)
<1>10. h \in Seq(T) /\ Len(h) = a - 1 /\ \A i \in 1 .. a - 1 : h[i] = s[i]
  <2>1. a - 1 \in Int /\ \A i \in 1 .. a - 1 : i \in 1 .. n
    BY <1>1, <1>5
  <2>2. \A i \in 1 .. a - 1 : s[i] \in T
    BY <2>1, ElementOfSeq DEF n
  <2> DEFINE b == a - 1
  <2>3. b \in Int /\ b >= 0 /\ \A i \in 1 .. b : s[i] \in T
    BY <1>5, <2>1, <2>2
  <2> HIDE DEF b
  <2> DEFINE g == SubSeq(s, 1, b)
  <2>4. /\ g \in Seq(T) /\ Len(g) = IF 1 <= b THEN b - 1 + 1 ELSE 0
        /\ \A i \in 1 .. b - 1 + 1 : g[i] = s[1 + i - 1]
    BY <2>3, SubSeqProperties, 1 \in Int
  <2> HIDE DEF g
  <2>5. Len(g) = b /\ \A i \in 1 .. b : g[i] = s[i]
    <3>1. Len(g) = b
      BY <2>3, <2>4
    <3>2. ASSUME NEW i \in 1 .. b PROVE g[i] = s[i]
      <4>1. i \in 1 .. b - 1 + 1 /\ 1 + i - 1 = i
        BY <2>3
      <4> QED BY <2>4, <4>1
    <3> QED BY <3>1, <3>2
  <2> QED BY <2>4, <2>5 DEF g, b
<1>11. Closed(h)
  <2>1. CASE a = 1
    <3>1. Len(h) = 0
      BY <1>10, <2>1
    <3> HIDE DEF h
    <3>2. h = <<>>
      BY <1>10, <3>1, EmptySeq
    <3> QED BY <3>2 DEF Closed
  <2>2. CASE a # 1
    <3>1. w[a - 1] = NL /\ a - 1 \in 1 .. n /\ a - 1 \in 1 .. a - 1
      BY <1>1, <1>3, <1>5, <2>2 DEF Begins
    <3>2. s[a - 1] = NL /\ h[a - 1] = s[a - 1]
      BY <1>1, <1>10, <3>1
    <3> HIDE DEF h
    <3> QED BY <1>10, <3>2 DEF Closed
  <2> QED BY <2>1, <2>2
<1>12. s = h \o Rest(s)
  <2>1. /\ 1 \in 1 .. Len(s) + 1 /\ a - 1 \in 1 - 1 .. Len(s) /\ Len(s) \in a - 1 .. Len(s)
        /\ a - 1 + 1 = a
    BY <1>1, <1>5 DEF n
  <2> DEFINE b == a - 1
  <2>2. 1 \in 1 .. Len(s) + 1 /\ b \in 1 - 1 .. Len(s) /\ Len(s) \in b .. Len(s) /\ b + 1 = a
    BY <2>1
  <2> HIDE DEF b
  <2>3. SubSeq(s, 1, b) \o SubSeq(s, b + 1, Len(s)) = SubSeq(s, 1, Len(s))
    BY <2>2, ConcatAdjacentSubSeq
  <2>4. SubSeq(s, 1, Len(s)) = s
    BY SubSeqFull
  <2>5. SubSeq(s, b + 1, Len(s)) = Rest(s)
    BY <1>7, <2>2 DEF n
  <2> QED BY <2>3, <2>4, <2>5 DEF b
<1> HIDE DEF h
<1> QED BY <1>8, <1>9, <1>10, <1>11, <1>12 DEF n

LEMMA RestAfter ==
    ASSUME NEW T, NL \in T, NEW h \in Seq(T), NEW t \in Seq(T), Closed(h)
    PROVE  Rest(h \o t) = Rest(t)
<1> DEFINE e == <<NL>>
           w == Append(t, NL)
           m == Len(h)
           n == Len(t)
           s == h \o t
<1>1. e \in Seq(T) /\ w \in Seq(T) /\ w = t \o e /\ Len(w) = n + 1 /\ m \in Nat /\ n \in Nat
  BY AppendIsConcat, AppendProperties, LenProperties
<1>2. s \in Seq(T) /\ Len(s) = m + n /\ Append(s, NL) = s \o e
  <2>1. s \in Seq(T) /\ Len(s) = m + n
    BY ConcatProperties
  <2> HIDE DEF s
  <2>2. Append(s, NL) = s \o e
    BY <2>1, AppendIsConcat
  <2> QED BY <2>1, <2>2
<1>3. (h \o t) \o e = h \o (t \o e)
  <2> HIDE DEF e
  <2> QED BY <1>1, ConcatAssociative, SMTT(60)
<1>4. Rest(s) = Line(h \o w, m + (n + 1))
  <2>1. Rest(s) = Line(Append(s, NL), Len(s) + 1)
    BY DEF Rest
  <2>2. Append(s, NL) = h \o w /\ Len(s) + 1 = m + (n + 1)
    <3>1. Append(s, NL) = h \o w
      BY <1>1, <1>2, <1>3
    <3>2. Len(s) + 1 = m + (n + 1)
      <4> HIDE DEF s, m, n
      <4> QED BY <1>1, <1>2
    <3> QED BY <3>1, <3>2
  <2> HIDE DEF s, w, m, n
  <2> QED BY <2>1, <2>2
<1>5. Line(h \o w, m + (n + 1)) = Line(w, n + 1)
  <2> DEFINE k == n + 1
  <2>1. w \in Seq(T) /\ k \in 1 .. Len(w)
    BY <1>1
  <2> HIDE DEF w, k
  <2>2. Line(h \o w, Len(h) + k) = Line(w, k)
    BY <2>1, LineAfter
  <2> QED BY <2>2 DEF k
<1> QED BY <1>4, <1>5 DEF Rest

\* What is kept is all that the next turn needs of what was read before.
LEMMA PieceByPiece ==
    ASSUME NEW T, NL \in T, NEW p \in Seq(T), NEW q \in Seq(T), NEW re
    PROVE  /\ Rest(p) \o q \in Seq(T)
           /\ Matching(re, p \o q) = Matching(re, p) \o Matching(re, Rest(p) \o q)
           /\ Rest(p \o q) = Rest(Rest(p) \o q)
<1> DEFINE r == Rest(p)
<1>1. PICK h \in Seq(T) : Closed(h) /\ p = h \o r
  BY RestIs
<1>2. r \in Seq(T) /\ Ends(r) = {}
  <2>1. r \in Seq(T \ {NL}) /\ Ends(r) = {}
    BY RestIs
  <2> HIDE DEF r
  <2> QED BY <2>1, SeqMonotonic, T \ {NL} \subseteq T
<1> HIDE DEF r
<1> DEFINE b == r \o q
<1>3. b \in Seq(T)
  BY <1>2, ConcatProperties
<1>4. p \o q = h \o b
  <2>1. (h \o r) \o q = h \o (r \o q)
    <3>1. h \in Seq(T) /\ r \in Seq(T) /\ q \in Seq(T)
      BY <1>1, <1>2
    <3> QED BY <3>1, ConcatAssociative, SMTT(60)
  <2> QED BY <1>1, <2>1
<1> HIDE DEF b
<1>5. /\ Matching(re, p \o q) = Matching(re, h) \o Matching(re, b)
      /\ Matching(re, p) = Matching(re, h) \o Matching(re, r)
  <2>1. Matching(re, h \o b) = Matching(re, h) \o Matching(re, b)
    BY <1>1, <1>3, MatchingConcat
  <2>2. Matching(re, h \o r) = Matching(re, h) \o Matching(re, r)
    BY <1>1, <1>2, MatchingConcat
  <2>3. Matching(re, p \o q) = Matching(re, h \o b) /\ Matching(re, p) = Matching(re, h \o r)
    BY <1>1, <1>4
  <2> QED BY <2>1, <2>2, <2>3
<1>6. Matching(re, r) = <<>>
  BY <1>2, MatchingNone
<1>7. Matching(re, h) \o <<>> = Matching(re, h)
  <2> DEFINE X == Seq(T)
             g == Matching(re, h)
  <2>1. g \in Seq(X)
    BY PickedIn DEF Matching
  <2> HIDE DEF X, g
  <2>2. g \o <<>> = g
    BY <2>1, ConcatEmptySeq
  <2> QED BY <2>2 DEF g
<1>8. Rest(p \o q) = Rest(b)
  BY <1>1, <1>3, <1>4, RestAfter
<1> QED BY <1>3, <1>5, <1>6, <1>7, <1>8 DEF b, r

\* The end of a line in b is not part of what is kept of it.
LEMMA RestShorter ==
    ASSUME NEW T, NL \in T, NEW b \in Seq(T), Ends(b) # {}
    PROVE  Len(Rest(b)) < Len(b)
<1> DEFINE r == Rest(b)
<1>1. PICK h \in Seq(T) : Closed(h) /\ b = h \o r
  BY RestIs
<1>2. r \in Seq(T) /\ Ends(r) = {}
  <2>1. r \in Seq(T \ {NL}) /\ Ends(r) = {}
    BY RestIs
  <2> HIDE DEF r
  <2> QED BY <2>1, SeqMonotonic, T \ {NL} \subseteq T
<1> HIDE DEF r
<1>3. Len(b) = Len(h) + Len(r) /\ Len(h) \in Nat /\ Len(r) \in Nat
  BY <1>1, <1>2, ConcatProperties, LenProperties
<1>4. CASE Len(h) = 0
  <2>1. h = <<>>
    BY <1>4, EmptySeq
  <2>2. b = r
    BY <1>1, <1>2, <2>1, ConcatEmptySeq
  <2> QED BY <1>2, <2>2
<1>5. CASE Len(h) # 0
  BY <1>3, <1>5 DEF r
<1> QED BY <1>4, <1>5

-----------------------------------------------------------------------------
Chars == Letters \cup {NL}
SoFar == SubSeq(file, 1, done)

GInductive ==
    /\ pattern \in Patterns /\ file \in Inputs /\ done \in 0 .. Len(file)
    /\ kept \in Seq(Chars) /\ Len(kept) < BUF - 1
    /\ ~cut => out = Matching(pattern, SoFar) /\ kept = Rest(SoFar)
    /\ ended => done = Len(file)

LEMMA GrepFacts == NL \in Chars /\ \A f \in Inputs : f \in Seq(Chars) /\ Len(f) \in Nat
<1>1. \A f \in Inputs : f \in Seq(Chars)
  BY GrepAssumption DEF Chars
<1> QED BY <1>1, LenProperties DEF Chars

LEMMA GrepInit == GInit => GInductive
<1> SUFFICES ASSUME GInit PROVE GInductive
  OBVIOUS
<1>1. file \in Seq(Chars) /\ Len(file) \in Nat /\ pattern \in Patterns /\ file \in Inputs
  BY GrepFacts DEF GInit
<1>2. SoFar = <<>>
  BY SubSeqEmpty DEF GInit, SoFar
<1> DEFINE e == <<>>
<1>3. e \in Seq(Chars) /\ Len(e) = 0 /\ Ends(e) = {}
  BY DEF Ends
<1>4. Matching(pattern, e) = <<>>
  <2> HIDE DEF e
  <2> QED BY <1>3, MatchingNone
<1>5. Rest(e) = <<>>
  <2>1. Rest(e) \in Seq(Chars \ {NL}) /\ Len(Rest(e)) <= Len(e)
    <3> HIDE DEF e
    <3> QED BY <1>3, RestIs, GrepFacts
  <2>2. Len(Rest(e)) = 0
    BY <1>3, <2>1, LenProperties
  <2> HIDE DEF e
  <2> QED BY <2>1, <2>2, EmptySeq
<1>6. BUF - 1 > 0
  BY GrepAssumption
<1> QED BY <1>1, <1>2, <1>3, <1>4, <1>5, <1>6 DEF GInit, GInductive

LEMMA TurnKeeps == ASSUME GInductive, Turn PROVE GInductive'
<1>1. /\ file \in Seq(Chars) /\ Len(file) \in Nat /\ NL \in Chars
      /\ done \in 0 .. Len(file) /\ kept \in Seq(Chars)
      /\ file' = file /\ pattern' = pattern /\ ended' = ended /\ ~ ended
  BY GrepFacts DEF GInductive, Turn
<1>2. PICK n \in 1 .. Len(file) - done :
        LET b == kept \o SubSeq(file, done + 1, done + n) IN
          /\ Len(kept) + n <= BUF - 1
          /\ out'  = out \o Matching(pattern, b)
          /\ kept' = Kept(b)
          /\ cut'  = (cut \/ Ends(b) = {})
          /\ done' = done + n
  BY DEF Turn
<1> DEFINE q == SubSeq(file, done + 1, done + n)
           b == kept \o q
           p == SoFar
<1>3. n \in Nat /\ done + n \in 0 .. Len(file) /\ done \in Nat /\ n >= 1
  BY <1>1
<1>4. q \in Seq(Chars) /\ Len(q) = n
  <2>1. done + 1 \in Int /\ done + n \in Int /\ \A i \in done + 1 .. done + n : i \in 1 .. Len(file)
    BY <1>1, <1>3
  <2>2. \A i \in done + 1 .. done + n : file[i] \in Chars
    BY <1>1, <2>1, ElementOfSeq
  <2> DEFINE x == done + 1
             y == done + n
  <2>3. x \in Int /\ y \in Int /\ x <= y /\ y - x + 1 = n /\ \A i \in x .. y : file[i] \in Chars
    BY <1>3, <2>1, <2>2
  <2> HIDE DEF x, y
  <2>4. SubSeq(file, x, y) \in Seq(Chars) /\ Len(SubSeq(file, x, y)) = y - x + 1
    BY <2>3, SubSeqProperties
  <2> QED BY <2>3, <2>4 DEF x, y
<1>5. p \in Seq(Chars) /\ SubSeq(file, 1, done + n) = p \o q
  <2>1. p \in Seq(Chars)
    BY <1>1, Prefix DEF SoFar
  <2> DEFINE y == done + n
  <2>2. /\ 1 \in 1 .. Len(file) + 1 /\ done \in 1 - 1 .. Len(file) /\ y \in done .. Len(file)
    BY <1>1, <1>3
  <2> HIDE DEF y
  <2>3. SubSeq(file, 1, done) \o SubSeq(file, done + 1, y) = SubSeq(file, 1, y)
    BY <1>1, <2>2, ConcatAdjacentSubSeq
  <2> QED BY <2>1, <2>3 DEF SoFar, y
<1>6. SoFar' = p \o q
  BY <1>1, <1>2, <1>5 DEF SoFar
<1> HIDE DEF q
<1>7. b \in Seq(Chars) /\ Len(b) = Len(kept) + n /\ Len(kept) \in Nat
  BY <1>1, <1>4, ConcatProperties, LenProperties
<1>8. kept' = Kept(b) /\ Len(b) <= BUF - 1 /\ done' = done + n
  BY <1>2, <1>7 DEF q
<1> HIDE DEF b
<1>9. kept' \in Seq(Chars) /\ Len(kept') < BUF - 1
  <2>1. CASE Ends(b) = {}
    <3>1. kept' = <<>> /\ Len(<<>>) = 0
      BY <1>8, <2>1 DEF Kept
    <3>2. BUF - 1 > 0
      BY GrepAssumption
    <3>3. <<>> \in Seq(Chars)
      BY EmptySeq
    <3> QED BY <3>1, <3>2, <3>3
  <2>2. CASE Ends(b) # {}
    <3>1. kept' = Rest(b)
      BY <1>8, <2>2 DEF Kept
    <3>2. Rest(b) \in Seq(Chars \ {NL}) /\ Len(Rest(b)) < Len(b)
      BY <1>1, <1>7, <2>2, RestIs, RestShorter
    <3>3. Rest(b) \in Seq(Chars)
      BY <3>2, SeqMonotonic, Chars \ {NL} \subseteq Chars
    <3>4. Len(Rest(b)) \in Nat /\ Len(b) \in Nat /\ BUF - 1 \in Int
      BY <1>7, <3>3, LenProperties, GrepAssumption
    <3>5. Len(Rest(b)) < BUF - 1
      BY <1>8, <3>2, <3>4
    <3> QED BY <3>1, <3>3, <3>5
  <2> QED BY <2>1, <2>2
<1>10. ASSUME ~ cut' PROVE out' = Matching(pattern, SoFar') /\ kept' = Rest(SoFar')
  <2>1. ~ cut /\ Ends(b) # {}
    BY <1>2, <1>10 DEF b, q
  <2>2. out = Matching(pattern, p) /\ kept = Rest(p)
    BY <2>1 DEF GInductive
  <2>3. out' = out \o Matching(pattern, b)
    BY <1>2 DEF b, q
  <2>4. kept' = Rest(b)
    BY <1>8, <2>1 DEF Kept
  <2>5. b = Rest(p) \o q
    BY <2>2 DEF b
  <2> HIDE DEF p
  <2>6. /\ Matching(pattern, p \o q) = Matching(pattern, p) \o Matching(pattern, Rest(p) \o q)
        /\ Rest(p \o q) = Rest(Rest(p) \o q)
    <3>1. NL \in Chars /\ p \in Seq(Chars) /\ q \in Seq(Chars)
      BY <1>1, <1>4, <1>5
    <3> DEFINE C == Chars
               re == pattern
    <3>2. NL \in C /\ p \in Seq(C) /\ q \in Seq(C)
      BY <3>1
    <3> HIDE DEF C, re
    <3>3. /\ Matching(re, p \o q) = Matching(re, p) \o Matching(re, Rest(p) \o q)
          /\ Rest(p \o q) = Rest(Rest(p) \o q)
      BY ONLY <3>2, PieceByPiece
    <3> QED BY <3>3 DEF re
  <2> QED BY <1>6, <2>2, <2>3, <2>4, <2>5, <2>6
<1>11. pattern' \in Patterns /\ file' \in Inputs /\ done' \in 0 .. Len(file')
  BY <1>1, <1>3, <1>8 DEF GInductive
<1> HIDE DEF p
<1> QED BY <1>1, <1>9, <1>10, <1>11 DEF GInductive

LEMMA EndKeeps == ASSUME GInductive, End PROVE GInductive'
<1>1. /\ file' = file /\ pattern' = pattern /\ done' = done /\ kept' = kept /\ out' = out
      /\ cut' = cut
      /\ done = Len(file) \/ Len(kept) = BUF - 1
  BY DEF End
<1>2. Len(kept) < BUF - 1 /\ Len(kept) \in Nat /\ BUF - 1 \in Int
  BY GrepAssumption, LenProperties DEF GInductive
<1>3. done = Len(file)
  BY <1>1, <1>2
<1>4. SoFar' = SoFar
  BY <1>1 DEF SoFar
<1> QED BY <1>1, <1>3, <1>4 DEF GInductive

LEMMA GrepStep == GInductive /\ [GNext]_gvars => GInductive'
<1> SUFFICES ASSUME GInductive, [GNext]_gvars PROVE GInductive'
  OBVIOUS
<1>1. CASE Turn
  BY <1>1, TurnKeeps
<1>2. CASE End
  BY <1>2, EndKeeps
<1>3. CASE UNCHANGED gvars
  BY <1>3 DEF GInductive, gvars, SoFar
<1> QED BY <1>1, <1>2, <1>3 DEF GNext

\* At the end, what is written are the lines of the file that match.
LEMMA WrittenMatches ==
    ASSUME GInductive, ended, ~ cut
    PROVE  out = Matching(pattern, file)
<1>1. file \in Seq(Chars) /\ done = Len(file)
  BY GrepFacts DEF GInductive
<1>2. SoFar = file
  BY <1>1, SubSeqFull DEF SoFar
<1> QED BY <1>2 DEF GInductive

-----------------------------------------------------------------------------
\* What holds last, and of a place when of those after it, holds of all.
LEMMA Downward ==
    ASSUME NEW m \in Nat, NEW P, m + 1 \in P,
           \A i \in 1 .. m : (\A k \in i + 1 .. m + 1 : k \in P) => i \in P
    PROVE  \A i \in 1 .. m + 1 : i \in P
<1> DEFINE Bad == {i \in 1 .. m + 1 : i \notin P}
<1> SUFFICES ASSUME Bad # {} PROVE FALSE
  OBVIOUS
<1>1. PICK i \in Bad : \A y \in Bad : y <= i
  <2>1. Bad \subseteq 0 .. m + 1
    OBVIOUS
  <2> HIDE DEF Bad
  <2> QED BY <2>1, m + 1 \in Nat, GreatestIn
<1>2. i \in 1 .. m
  <2>1. i \in 1 .. m + 1 /\ i # m + 1
    OBVIOUS
  <2> QED BY <2>1
<1>3. ASSUME NEW k \in i + 1 .. m + 1 PROVE k \in P
  <2>1. k \in 1 .. m + 1 /\ ~ (k <= i)
    BY <1>2
  <2> QED BY <1>1, <2>1
<1>4. i \in P
  BY <1>2, <1>3
<1> QED BY <1>4

\* There is a function that ends with c and whose place i follows from place d[i].
Comes(f, m, c, d, G) == f[m + 1] = c /\ \A i \in 1 .. m : f[i] = G[i][f[d[i]]]

LEMMA Recur ==
    ASSUME NEW m \in Nat, NEW S, NEW c \in S, NEW d \in [1 .. m -> Nat],
           \A i \in 1 .. m : d[i] \in i + 1 .. m + 1, NEW G \in [1 .. m -> [S -> S]]
    PROVE  \E f \in [1 .. m + 1 -> S] : Comes(f, m, c, d, G)
<1> DEFINE Is(f, i) == f[m + 1] = c /\ \A l \in i .. m : f[l] = G[l][f[d[l]]]
           P == {i \in 1 .. m + 1 : \E f \in [1 .. m + 1 -> S] : Is(f, i)}
<1>1. m + 1 \in P
  <2>1. [l \in 1 .. m + 1 |-> c] \in [1 .. m + 1 -> S]
    OBVIOUS
  <2>2. Is([l \in 1 .. m + 1 |-> c], m + 1) /\ m + 1 \in 1 .. m + 1
    OBVIOUS
  <2> HIDE DEF Is
  <2> QED BY <2>1, <2>2
<1>2. ASSUME NEW i \in 1 .. m, \A k \in i + 1 .. m + 1 : k \in P PROVE i \in P
  <2>1. i + 1 \in i + 1 .. m + 1 /\ i \in 1 .. m + 1 /\ i # m + 1 /\ m + 1 \in 1 .. m + 1
    OBVIOUS
  <2>2. PICK f \in [1 .. m + 1 -> S] : Is(f, i + 1)
    <3>1. i + 1 \in P
      BY <1>2, <2>1
    <3> HIDE DEF Is
    <3> QED BY <3>1
  <2> DEFINE v == G[i][f[d[i]]]
             g == [l \in 1 .. m + 1 |-> IF l = i THEN v ELSE f[l]]
  <2>3. v \in S
    <3>1. d[i] \in 1 .. m + 1
      OBVIOUS
    <3>2. f[d[i]] \in S
      BY <3>1
    <3> QED BY <3>2
  <2>4. g \in [1 .. m + 1 -> S]
    <3> HIDE DEF v
    <3> QED BY <2>3
  <2>5. \A l \in 1 .. m + 1 : g[l] = IF l = i THEN v ELSE f[l]
    <3> HIDE DEF v
    <3> QED OBVIOUS
  <2> HIDE DEF g
  <2>6. g[m + 1] = c
    BY <2>1, <2>2, <2>5
  <2>7. ASSUME NEW l \in i .. m PROVE g[l] = G[l][g[d[l]]]
    <3>1. l \in 1 .. m /\ l \in 1 .. m + 1
      OBVIOUS
    <3>2. d[l] \in l + 1 .. m + 1
      BY <3>1
    <3>3. d[l] \in 1 .. m + 1 /\ d[l] # i
      BY <3>1, <3>2
    <3>4. g[d[l]] = f[d[l]]
      BY <2>5, <3>3
    <3>5. CASE l = i
      BY <2>5, <3>1, <3>4, <3>5
    <3>6. CASE l # i
      <4>1. l \in i + 1 .. m
        BY <3>1, <3>6
      <4>2. f[l] = G[l][f[d[l]]]
        BY <2>2, <4>1
      <4>3. g[l] = f[l]
        BY <2>5, <3>1, <3>6
      <4> QED BY <3>4, <4>2, <4>3
    <3> QED BY <3>5, <3>6
  <2>8. Is(g, i)
    <3> HIDE DEF v
    <3> QED BY <2>6, <2>7
  <2> HIDE DEF Is
  <2> QED BY <2>1, <2>4, <2>8
<1>3. \A i \in 1 .. m + 1 : i \in P
  <2> HIDE DEF P
  <2> QED BY <1>1, <1>2, Downward
<1>4. 1 \in P
  <2> HIDE DEF P
  <2> QED BY <1>3, 1 \in 1 .. m + 1
<1> QED BY <1>4 DEF Comes

-----------------------------------------------------------------------------
\* What a pattern means is defined for its parts from their end on.
ByStar(re, i, n, U, t)   == \E s \in Repeats(re[i], n), u \in U : t = s \o u
Fronted(c, u)             == <<c>> \o u
ByLetter(re, i, n, U, t) == \E c \in Stands(re[i]), u \in U : t = Fronted(c, u)

LEMMA LedStarred ==
    ASSUME NEW re, NEW i, NEW n, NEW U, NEW t, Starred(re, i)
    PROVE  t \in Led(re, i, n, U) <=> Len(t) <= n /\ ByStar(re, i, n, U, t)
<1> DEFINE X == {s \o u : s \in Repeats(re[i], n), u \in U}
<1>1. t \in X <=> ByStar(re, i, n, U, t)
  BY DEF ByStar
<1>2. Led(re, i, n, U) = {x \in X : Len(x) <= n}
  BY DEF Led
<1> HIDE DEF X
<1> QED BY <1>1, <1>2

LEMMA LedPlain ==
    ASSUME NEW re, NEW i, NEW n, NEW U, NEW t, ~ Starred(re, i)
    PROVE  t \in Led(re, i, n, U) <=> Len(t) <= n /\ ByLetter(re, i, n, U, t)
<1> DEFINE X == {Fronted(c, u) : c \in Stands(re[i]), u \in U}
<1>1. t \in X <=> ByLetter(re, i, n, U, t)
  BY DEF ByLetter
<1>2. Led(re, i, n, U) = {x \in X : Len(x) <= n}
  BY DEF Led, Fronted
<1> HIDE DEF X
<1> QED BY <1>1, <1>2

LEMMA LedIs ==
    ASSUME NEW re \in Seq(STRING), NEW i \in 1 .. Len(re), NEW n \in Nat,
           NEW U \in SUBSET Seq(STRING)
    PROVE  Led(re, i, n, U) \in SUBSET Seq(STRING)
<1>1. re[i] \in STRING
  BY ElementOfSeq
<1>2. Stands(re[i]) \subseteq STRING
  BY <1>1, GrepAssumption DEF Stands
<1>3. \A s \in Repeats(re[i], n) : s \in Seq(STRING)
  <2>1. ASSUME NEW k \in 0 .. n, NEW s \in [1 .. k -> Stands(re[i])] PROVE s \in Seq(STRING)
    <3>1. k \in Nat /\ s \in [1 .. k -> STRING]
      BY <1>2
    <3> QED BY <3>1, SeqDef
  <2> QED BY <2>1 DEF Repeats
<1>4. \A c \in Stands(re[i]) : <<c>> \in Seq(STRING)
  BY <1>2
<1>5. ASSUME NEW s \in Seq(STRING), NEW u \in U PROVE s \o u \in Seq(STRING)
  BY ConcatProperties
<1>6. ASSUME NEW t \in Led(re, i, n, U) PROVE t \in Seq(STRING)
  <2>1. CASE Starred(re, i)
    <3>0. ByStar(re, i, n, U, t)
      BY <2>1, LedStarred
    <3>1. PICK s \in Repeats(re[i], n), u \in U : t = s \o u
      BY <3>0 DEF ByStar
    <3> QED BY <1>3, <1>5, <3>1
  <2>2. CASE ~ Starred(re, i)
    <3>0. ByLetter(re, i, n, U, t)
      BY <2>2, LedPlain
    <3>1. PICK c \in Stands(re[i]), u \in U : t = <<c>> \o u
      BY <3>0 DEF ByLetter, Fronted
    <3> QED BY <1>4, <1>5, <3>1
  <2> QED BY <2>1, <2>2
<1> QED BY <1>6

Following(re, i) == IF Starred(re, i) THEN i + 2 ELSE i + 1

LEMMA FollowingIs ==
    ASSUME NEW re \in Seq(STRING), NEW i \in 1 .. Len(re)
    PROVE  Following(re, i) \in i + 1 .. Len(re) + 1 /\ Following(re, i) \in Nat
<1>1. Len(re) \in Nat
  BY LenProperties
<1> QED BY <1>1 DEF Following, Starred

LEMMA MeansIs ==
    ASSUME NEW re \in Seq(STRING), NEW n \in Nat
    PROVE  /\ Means(re, n)[Len(re) + 1] = {<<>>}
           /\ \A i \in 1 .. Len(re) :
                 Means(re, n)[i] = Led(re, i, n, Means(re, n)[Following(re, i)])
           /\ \A i \in 1 .. Len(re) + 1 : Means(re, n)[i] \in SUBSET Seq(STRING)
<1> DEFINE m == Len(re)
           S == SUBSET Seq(STRING)
           Of(f, i) == IF i > m THEN {<<>>}
                       ELSE Led(re, i, n, IF Starred(re, i) THEN f[i + 2] ELSE f[i + 1])
           Is(f) == f = [i \in 1 .. m + 1 |-> Of(f, i)]
           M == CHOOSE f : Is(f)
           d == [i \in 1 .. m |-> Following(re, i)]
           G == [i \in 1 .. m |-> [U \in S |-> Led(re, i, n, U)]]
<1>1. m \in Nat
  BY LenProperties
<1>2. {<<>>} \in S
  BY EmptySeq
<1>3. d \in [1 .. m -> Nat] /\ \A i \in 1 .. m : d[i] \in i + 1 .. m + 1
  BY FollowingIs
<1>4. G \in [1 .. m -> [S -> S]]
  <2>1. \A i \in 1 .. m : \A U \in S : Led(re, i, n, U) \in S
    BY LedIs
  <2> QED BY <2>1
<1>5. PICK f \in [1 .. m + 1 -> S] : Comes(f, m, {<<>>}, d, G)
  <2> HIDE DEF m, S, d, G
  <2> QED BY <1>1, <1>2, <1>3, <1>4, Recur
<1>6. \A i \in 1 .. m : Of(f, i) = Led(re, i, n, f[Following(re, i)])
  BY <1>1 DEF Following
<1>7. Is(f)
  <2>1. ASSUME NEW i \in 1 .. m + 1 PROVE f[i] = Of(f, i)
    <3>1. CASE i = m + 1
      <4>1. f[m + 1] = {<<>>} /\ m + 1 > m
        BY <1>1, <1>5 DEF Comes
      <4> QED BY <3>1, <4>1
    <3>2. CASE i # m + 1
      <4>1. i \in 1 .. m
        BY <1>1, <3>2
      <4>2. f[i] = G[i][f[d[i]]]
        BY <1>5, <4>1 DEF Comes
      <4>3. d[i] = Following(re, i) /\ d[i] \in 1 .. m + 1
        BY <1>3, <4>1
      <4>4. f[d[i]] \in S
        BY <4>3
      <4>5. G[i][f[d[i]]] = Led(re, i, n, f[d[i]])
        <5> HIDE DEF d, S
        <5> QED BY <4>1, <4>4
      <4> HIDE DEF G, d, Of
      <4> QED BY <1>6, <4>1, <4>2, <4>3, <4>5
    <3> QED BY <3>1, <3>2
  <2> HIDE DEF Of
  <2> QED BY <2>1
<1>8. Is(M)
  <2> HIDE DEF Is
  <2> QED BY <1>7
<1>9. Means(re, n) = M
  BY DEF Means
<1> HIDE DEF M
<1>10. M[m + 1] = {<<>>}
  <2>1. m + 1 \in 1 .. m + 1 /\ m + 1 > m
    BY <1>1
  <2> QED BY <1>8, <2>1
<1>11. \A i \in 1 .. m : M[i] = Led(re, i, n, M[Following(re, i)])
  <2>1. ASSUME NEW i \in 1 .. m PROVE M[i] = Led(re, i, n, M[Following(re, i)])
    <3>1. i \in 1 .. m + 1 /\ ~ (i > m)
      BY <1>1
    <3>2. M[i] = Of(M, i)
      <4> HIDE DEF Of
      <4> QED BY <1>8, <3>1
    <3> QED BY <3>1, <3>2 DEF Following
  <2> QED BY <2>1
<1>12. \A i \in 1 .. m + 1 : M[i] \in S
  <2> DEFINE P == {i \in 1 .. m + 1 : M[i] \in S}
  <2>1. m + 1 \in P
    <3>1. m + 1 \in 1 .. m + 1
      BY <1>1
    <3> HIDE DEF m, S
    <3> QED BY <3>1, <1>2, <1>10
  <2>2. ASSUME NEW i \in 1 .. m, \A k \in i + 1 .. m + 1 : k \in P PROVE i \in P
    <3>1. Following(re, i) \in i + 1 .. m + 1
      BY FollowingIs
    <3>2. M[Following(re, i)] \in S
      BY <2>2, <3>1
    <3>3. Led(re, i, n, M[Following(re, i)]) \in S
      BY <3>2, LedIs
    <3> QED BY <1>1, <1>11, <3>3
  <2>3. \A i \in 1 .. m + 1 : i \in P
    <3> HIDE DEF P, m
    <3> QED BY <1>1, <2>1, <2>2, Downward
  <2> QED BY <2>3
<1> QED BY <1>9, <1>10, <1>11, <1>12

-----------------------------------------------------------------------------
\* Parts of a text.
LEMMA Slice ==
    ASSUME NEW T, NEW t \in Seq(T), NEW j \in 1 .. Len(t) + 1, NEW e \in j - 1 .. Len(t)
    PROVE  /\ SubSeq(t, j, e) \in Seq(T) /\ Len(SubSeq(t, j, e)) = e - j + 1
           /\ \A i \in 1 .. e - j + 1 : SubSeq(t, j, e)[i] = t[j + i - 1]
<1>1. Len(t) \in Nat /\ j \in Int /\ e \in Int /\ e - j + 1 \in Nat
  BY LenProperties
<1>2. \A i \in j .. e : t[i] \in T
  <2>1. \A i \in j .. e : i \in 1 .. Len(t)
    BY <1>1
  <2> QED BY <2>1, ElementOfSeq
<1>3. /\ SubSeq(t, j, e) \in Seq(T)
      /\ Len(SubSeq(t, j, e)) = IF j <= e THEN e - j + 1 ELSE 0
      /\ \A i \in 1 .. e - j + 1 : SubSeq(t, j, e)[i] = t[j + i - 1]
  BY <1>1, <1>2, SubSeqProperties
<1>4. (IF j <= e THEN e - j + 1 ELSE 0) = e - j + 1
  BY <1>1
<1> QED BY <1>3, <1>4

Falls(t, j, e, s, u) ==
    /\ j + Len(s) \in j .. e + 1
    /\ s = SubSeq(t, j, j + Len(s) - 1) /\ u = SubSeq(t, j + Len(s), e)

LEMMA Cut ==
    ASSUME NEW T, NEW t \in Seq(T), NEW j \in 1 .. Len(t) + 1, NEW e \in j - 1 .. Len(t),
           NEW s \in Seq(T), NEW u \in Seq(T), SubSeq(t, j, e) = s \o u
    PROVE  Falls(t, j, e, s, u)
<1> DEFINE x == SubSeq(t, j, e)
           k == j + Len(s)
<1>1. /\ Len(s) \in Nat /\ Len(u) \in Nat /\ Len(t) \in Nat /\ j \in Int /\ e \in Int
  BY LenProperties
<1>2. /\ Len(x) = e - j + 1
      /\ \A i \in 1 .. e - j + 1 : x[i] = t[j + i - 1]
  BY Slice
<1>3. /\ Len(x) = Len(s) + Len(u)
      /\ \A i \in 1 .. Len(s) + Len(u) : x[i] = IF i <= Len(s) THEN s[i] ELSE u[i - Len(s)]
  BY ConcatProperties
<1> HIDE DEF x
<1>4. /\ k \in j .. e + 1 /\ k \in 1 .. Len(t) + 1 /\ e \in k - 1 .. Len(t)
      /\ k - 1 \in j - 1 .. Len(t)
      /\ (k - 1) - j + 1 = Len(s) /\ e - k + 1 = Len(u)
  BY <1>1, <1>2, <1>3
<1>5. s = SubSeq(t, j, k - 1)
  <2> DEFINE h == k - 1
             y == SubSeq(t, j, h)
  <2>1. h \in j - 1 .. Len(t) /\ h - j + 1 = Len(s)
    BY <1>4
  <2> HIDE DEF h
  <2>2. y \in Seq(T) /\ Len(y) = Len(s) /\ \A i \in 1 .. Len(s) : y[i] = t[j + i - 1]
    BY <2>1, Slice
  <2>3. \A i \in 1 .. Len(s) : s[i] = x[i] /\ x[i] = t[j + i - 1]
    <3>1. \A i \in 1 .. Len(s) : i \in 1 .. Len(s) + Len(u) /\ i <= Len(s) /\ i \in 1 .. e - j + 1
      BY <1>1, <1>2, <1>3
    <3> QED BY <1>2, <1>3, <3>1
  <2> HIDE DEF y
  <2>4. s = y
    BY <2>2, <2>3, SeqEqual
  <2> QED BY <2>4 DEF y, h
<1>6. u = SubSeq(t, k, e)
  <2> DEFINE y == SubSeq(t, k, e)
  <2>1. y \in Seq(T) /\ Len(y) = Len(u) /\ \A i \in 1 .. Len(u) : y[i] = t[k + i - 1]
    <3> HIDE DEF k
    <3> QED BY <1>4, Slice
  <2>2. ASSUME NEW i \in 1 .. Len(u) PROVE u[i] = y[i]
    <3> DEFINE l == Len(s) + i
    <3>1. /\ l \in 1 .. Len(s) + Len(u) /\ ~ (l <= Len(s)) /\ l - Len(s) = i
          /\ l \in 1 .. e - j + 1 /\ j + l - 1 = k + i - 1
      BY <1>1, <1>2, <1>3
    <3> HIDE DEF l, k, y
    <3>2. x[l] = u[i]
      BY <1>3, <3>1
    <3>3. x[l] = t[k + i - 1]
      BY <1>2, <3>1
    <3> QED BY <2>1, <3>2, <3>3
  <2> HIDE DEF y, k
  <2>3. u = y
    BY <2>1, <2>2, SeqEqual
  <2> QED BY <2>3 DEF y
<1> QED BY <1>4, <1>5, <1>6 DEF Falls

-----------------------------------------------------------------------------
\* The places from which a text has a part that the pattern describes from place i on.
Finds(c, anch, t, i) ==
    {j \in 1 .. Len(t) + 1 : \E e \in j - 1 .. Len(t) :
        SubSeq(t, j, e) \in Means(c, Len(t))[i] /\ (anch => e = Len(t))}

LEMMA FindsEnd ==
    ASSUME NEW c \in Seq(STRING), NEW anch \in BOOLEAN, NEW t \in Seq(STRING)
    PROVE  Finds(c, anch, t, Len(c) + 1) = IF anch THEN {Len(t) + 1} ELSE 1 .. Len(t) + 1
<1>1. Len(t) \in Nat
  BY LenProperties
<1>2. Means(c, Len(t))[Len(c) + 1] = {<<>>}
  BY <1>1, MeansIs
<1>3. ASSUME NEW j \in 1 .. Len(t) + 1, NEW e \in j - 1 .. Len(t)
      PROVE  SubSeq(t, j, e) = <<>> <=> e = j - 1
  <2>1. Len(SubSeq(t, j, e)) = e - j + 1
    BY Slice
  <2>2. CASE e = j - 1
    <3>1. j \in Int /\ e \in Int /\ e < j
      BY <1>1, <2>2
    <3> QED BY <2>2, <3>1, SubSeqEmpty
  <2>3. CASE e # j - 1
    <3>1. e - j + 1 # 0
      BY <1>1, <2>3
    <3> QED BY <2>1, <2>3, <3>1, EmptySeq
  <2> QED BY <2>2, <2>3
<1>4. Finds(c, anch, t, Len(c) + 1) =
         {j \in 1 .. Len(t) + 1 : \E e \in j - 1 .. Len(t) : e = j - 1 /\ (anch => e = Len(t))}
  BY <1>2, <1>3 DEF Finds
<1>5. \A j \in 1 .. Len(t) + 1 : j - 1 \in j - 1 .. Len(t) /\ (j - 1 = Len(t) <=> j = Len(t) + 1)
  BY <1>1
<1>6. Len(t) + 1 \in 1 .. Len(t) + 1
  BY <1>1
<1> QED BY <1>4, <1>5, <1>6

LEMMA TakesStands ==
    ASSUME NEW c, NEW x \in Letters
    PROVE  Takes(c, x) <=> x \in Stands(c)
BY DEF Takes, Stands

LEMMA FindsLetter ==
    ASSUME NEW c \in Seq(STRING), NEW anch \in BOOLEAN, NEW t \in Seq(Letters),
           NEW i \in 1 .. Len(c), ~ Starred(c, i)
    PROVE  Finds(c, anch, t, i) =
               {j \in 1 .. Len(t) : Takes(c[i], t[j]) /\ j + 1 \in Finds(c, anch, t, i + 1)}
<1> DEFINE n == Len(t)
           M == Means(c, n)
<1>1. n \in Nat /\ t \in Seq(STRING) /\ \A j \in 1 .. n : t[j] \in Letters
  <2>1. t \in Seq(STRING)
    BY SeqMonotonic, GrepAssumption
  <2> QED BY <2>1, LenProperties, ElementOfSeq
<1>2. M[i] = Led(c, i, n, M[i + 1]) /\ M[i + 1] \in SUBSET Seq(STRING)
  <2>1. i + 1 \in 1 .. Len(c) + 1 /\ Following(c, i) = i + 1
    BY LenProperties DEF Following
  <2> QED BY <1>1, <2>1, MeansIs
<1>3. c[i] \in STRING /\ Stands(c[i]) \subseteq STRING
  <2>1. c[i] \in STRING
    BY ElementOfSeq
  <2> QED BY <2>1, GrepAssumption DEF Stands
<1> HIDE DEF M
<1>4. ASSUME NEW j \in 1 .. n + 1, NEW e \in j - 1 .. n
      PROVE  SubSeq(t, j, e) \in M[i] <=>
                 j <= e /\ t[j] \in Stands(c[i]) /\ SubSeq(t, j + 1, e) \in M[i + 1]
  <2> DEFINE x == SubSeq(t, j, e)
  <2>1. x \in Seq(STRING) /\ Len(x) = e - j + 1 /\ Len(x) <= n /\ j \in Nat /\ e \in Int
    BY <1>1, Slice
  <2>2. ASSUME x \in M[i]
        PROVE  j <= e /\ t[j] \in Stands(c[i]) /\ SubSeq(t, j + 1, e) \in M[i + 1]
    <3>0. ByLetter(c, i, n, M[i + 1], x)
      BY <1>2, <2>2, LedPlain
    <3>1. PICK a \in Stands(c[i]), u \in M[i + 1] : x = <<a>> \o u
      BY <3>0 DEF ByLetter, Fronted
    <3> DEFINE s == <<a>>
    <3>2. s \in Seq(STRING) /\ Len(s) = 1 /\ s[1] = a /\ u \in Seq(STRING)
      BY <1>2, <1>3
    <3> HIDE DEF s
    <3>3. x = s \o u
      BY <3>1 DEF s
    <3>4. /\ j + Len(s) \in j .. e + 1
          /\ s = SubSeq(t, j, j + Len(s) - 1) /\ u = SubSeq(t, j + Len(s), e)
      <4>1. /\ t \in Seq(STRING) /\ j \in 1 .. Len(t) + 1 /\ e \in j - 1 .. Len(t)
            /\ s \in Seq(STRING) /\ u \in Seq(STRING) /\ SubSeq(t, j, e) = s \o u
        BY <1>1, <3>2, <3>3
      <4>2. Falls(t, j, e, s, u)
        BY ONLY <4>1, Cut
      <4> QED BY <4>2 DEF Falls
    <3>5. j <= e /\ u = SubSeq(t, j + 1, e) /\ j + Len(s) - 1 = j
      BY <2>1, <3>2, <3>4
    <3>6. SubSeq(t, j, j)[1] = t[j]
      <4>1. j \in 1 .. Len(t) + 1 /\ j \in j - 1 .. Len(t) /\ 1 \in 1 .. j - j + 1 /\ j + 1 - 1 = j
        BY <1>1, <2>1, <3>5
      <4> QED BY <4>1, Slice
    <3>7. s[1] = t[j]
      BY <3>4, <3>5, <3>6
    <3> QED BY <3>1, <3>2, <3>5, <3>7
  <2>3. ASSUME j <= e, t[j] \in Stands(c[i]), SubSeq(t, j + 1, e) \in M[i + 1]
        PROVE  x \in M[i]
    <3>1. j \in 1 .. Len(t) /\ e \in j .. Len(t)
      BY <1>1, <2>1, <2>3
    <3>2. x = <<t[j]>> \o SubSeq(t, j + 1, e)
      BY <3>1, SubSeqRecursiveFirst
    <3> DEFINE u == SubSeq(t, j + 1, e)
               a == t[j]
    <3>3. x = Fronted(a, u) /\ a \in Stands(c[i]) /\ u \in M[i + 1]
      BY <2>3, <3>2 DEF Fronted
    <3> HIDE DEF x, u, a
    <3>4. ByLetter(c, i, n, M[i + 1], x)
      BY <3>3 DEF ByLetter
    <3> QED BY <1>2, <2>1, <3>4, LedPlain
  <2> QED BY <2>2, <2>3
<1>5. ASSUME NEW j \in 1 .. n + 1
      PROVE  j \in Finds(c, anch, t, i) <=>
                 j \in 1 .. n /\ Takes(c[i], t[j]) /\ j + 1 \in Finds(c, anch, t, i + 1)
  <2>1. ASSUME j \in Finds(c, anch, t, i)
        PROVE  j \in 1 .. n /\ Takes(c[i], t[j]) /\ j + 1 \in Finds(c, anch, t, i + 1)
    <3>1. PICK e \in j - 1 .. n : SubSeq(t, j, e) \in M[i] /\ (anch => e = n)
      BY <2>1 DEF Finds, M
    <3>2. j <= e /\ t[j] \in Stands(c[i]) /\ SubSeq(t, j + 1, e) \in M[i + 1]
      BY <1>4, <3>1
    <3>3. j \in 1 .. n /\ j + 1 \in 1 .. n + 1 /\ e \in (j + 1) - 1 .. n
      BY <1>1, <3>2
    <3>4. Takes(c[i], t[j])
      BY <1>1, <3>2, <3>3, TakesStands
    <3>5. j + 1 \in Finds(c, anch, t, i + 1)
      BY <3>1, <3>2, <3>3 DEF Finds, M
    <3> QED BY <3>3, <3>4, <3>5
  <2>2. ASSUME j \in 1 .. n, Takes(c[i], t[j]), j + 1 \in Finds(c, anch, t, i + 1)
        PROVE  j \in Finds(c, anch, t, i)
    <3>1. PICK e \in (j + 1) - 1 .. n : SubSeq(t, j + 1, e) \in M[i + 1] /\ (anch => e = n)
      BY <2>2 DEF Finds, M
    <3>2. e \in j - 1 .. n /\ j <= e
      BY <1>1, <2>2
    <3>3. t[j] \in Stands(c[i])
      BY <1>1, <2>2, TakesStands
    <3>4. SubSeq(t, j, e) \in M[i]
      BY <1>4, <3>1, <3>2, <3>3
    <3> QED BY <3>1, <3>2, <3>4 DEF Finds, M
  <2> QED BY <2>1, <2>2
<1>6. Finds(c, anch, t, i) \subseteq 1 .. n + 1 /\ 1 .. n \subseteq 1 .. n + 1
  BY <1>1 DEF Finds
<1> HIDE DEF n
<1>7. \A j : j \in Finds(c, anch, t, i) <=>
                 j \in 1 .. n /\ Takes(c[i], t[j]) /\ j + 1 \in Finds(c, anch, t, i + 1)
  BY <1>5, <1>6
<1> QED BY <1>7 DEF n

LEMMA RepeatsIs ==
    ASSUME NEW c, NEW n \in Nat, Stands(c) \subseteq STRING
    PROVE  \A s : s \in Repeats(c, n) <=>
               s \in Seq(STRING) /\ Len(s) <= n /\ \A i \in 1 .. Len(s) : s[i] \in Stands(c)
<1>1. ASSUME NEW s \in Repeats(c, n)
      PROVE  s \in Seq(STRING) /\ Len(s) <= n /\ \A i \in 1 .. Len(s) : s[i] \in Stands(c)
  <2>1. PICK k \in 0 .. n : s \in [1 .. k -> Stands(c)]
    BY DEF Repeats
  <2>2. k \in Nat /\ k <= n /\ s \in [1 .. k -> STRING]
    BY <2>1
  <2>3. s \in Seq(STRING)
    BY <2>2, SeqDef
  <2>4. Len(s) = k
    BY <2>2, <2>3, LenProperties
  <2> QED BY <2>1, <2>2, <2>3, <2>4
<1>2. ASSUME NEW s, s \in Seq(STRING), Len(s) <= n, \A i \in 1 .. Len(s) : s[i] \in Stands(c)
      PROVE  s \in Repeats(c, n)
  <2>1. Len(s) \in 0 .. n /\ s \in [1 .. Len(s) -> STRING]
    BY <1>2, LenProperties
  <2>2. s \in [1 .. Len(s) -> Stands(c)]
    BY <1>2, <2>1
  <2> QED BY <2>1, <2>2 DEF Repeats
<1> QED BY <1>1, <1>2

LEMMA FindsStar ==
    ASSUME NEW c \in Seq(STRING), NEW anch \in BOOLEAN, NEW t \in Seq(Letters),
           NEW i \in 1 .. Len(c), Starred(c, i)
    PROVE  Finds(c, anch, t, i) =
               {j \in 1 .. Len(t) + 1 : \E k \in j .. Len(t) + 1 :
                   (\A l \in j .. k - 1 : Takes(c[i], t[l])) /\ k \in Finds(c, anch, t, i + 2)}
<1> DEFINE n == Len(t)
           M == Means(c, n)
<1>1. n \in Nat /\ t \in Seq(STRING) /\ \A j \in 1 .. n : t[j] \in Letters
  <2>1. t \in Seq(STRING)
    BY SeqMonotonic, GrepAssumption
  <2> QED BY <2>1, LenProperties, ElementOfSeq
<1>2. M[i] = Led(c, i, n, M[i + 2]) /\ M[i + 2] \in SUBSET Seq(STRING)
  <2>1. i + 2 \in 1 .. Len(c) + 1 /\ Following(c, i) = i + 2
    BY LenProperties DEF Following, Starred
  <2> QED BY <1>1, <2>1, MeansIs
<1>3. c[i] \in STRING /\ Stands(c[i]) \subseteq STRING
  <2>1. c[i] \in STRING
    BY ElementOfSeq
  <2> QED BY <2>1, GrepAssumption DEF Stands
<1> HIDE DEF M
<1>4. ASSUME NEW j \in 1 .. n + 1, NEW e \in j - 1 .. n, SubSeq(t, j, e) \in M[i]
      PROVE  \E k \in j .. e + 1 : (\A l \in j .. k - 1 : t[l] \in Stands(c[i]))
                                   /\ SubSeq(t, k, e) \in M[i + 2]
  <2> DEFINE x == SubSeq(t, j, e)
  <2>0. ByStar(c, i, n, M[i + 2], x)
    BY <1>2, <1>4, LedStarred
  <2>1. PICK s \in Repeats(c[i], n), u \in M[i + 2] : x = s \o u
    BY <2>0 DEF ByStar
  <2>2. s \in Seq(STRING) /\ u \in Seq(STRING) /\ \A a \in 1 .. Len(s) : s[a] \in Stands(c[i])
    BY <1>1, <1>2, <1>3, RepeatsIs
  <2> DEFINE k == j + Len(s)
  <2>3. k \in j .. e + 1 /\ s = SubSeq(t, j, k - 1) /\ u = SubSeq(t, k, e)
    <3>1. /\ t \in Seq(STRING) /\ j \in 1 .. Len(t) + 1 /\ e \in j - 1 .. Len(t)
          /\ s \in Seq(STRING) /\ u \in Seq(STRING) /\ SubSeq(t, j, e) = s \o u
      BY <1>1, <2>1, <2>2
    <3>2. Falls(t, j, e, s, u)
      BY ONLY <3>1, Cut
    <3> QED BY <3>2 DEF Falls
  <2>4. Len(s) \in Nat /\ j \in Int
    BY <1>1, <2>2, LenProperties
  <2>5. ASSUME NEW l \in j .. k - 1 PROVE t[l] \in Stands(c[i])
    <3> DEFINE a == l - j + 1
               h == k - 1
    <3>1. a \in 1 .. Len(s) /\ j + a - 1 = l
      BY <2>4
    <3>2. h \in j - 1 .. Len(t) /\ a \in 1 .. h - j + 1
      BY <1>1, <2>3, <2>4
    <3> HIDE DEF a, h
    <3>3. SubSeq(t, j, h)[a] = t[j + a - 1]
      BY <1>1, <3>2, Slice
    <3>4. s[a] = t[l]
      <4>1. s = SubSeq(t, j, h)
        BY <2>3 DEF h
      <4> HIDE DEF k
      <4> QED BY <3>1, <3>3, <4>1
    <3> QED BY <2>2, <3>1, <3>4
  <2> HIDE DEF k
  <2> QED BY <2>1, <2>3, <2>5
<1>5. ASSUME NEW j \in 1 .. n + 1, NEW e \in j - 1 .. n, NEW k \in j .. e + 1,
             \A l \in j .. k - 1 : t[l] \in Stands(c[i]), SubSeq(t, k, e) \in M[i + 2]
      PROVE  SubSeq(t, j, e) \in M[i]
  <2> DEFINE h == k - 1
             s == SubSeq(t, j, h)
             u == SubSeq(t, k, e)
             x == SubSeq(t, j, e)
  <2>1. /\ h \in j - 1 .. Len(t) /\ e \in h .. Len(t) /\ h + 1 = k /\ j \in Int /\ h \in Int
        /\ h - j + 1 <= n
    BY <1>1
  <2> HIDE DEF h
  <2>2. s \in Seq(STRING) /\ Len(s) = h - j + 1 /\ \A a \in 1 .. h - j + 1 : s[a] = t[j + a - 1]
    BY <1>1, <2>1, Slice
  <2>3. x = s \o u
    <3>1. SubSeq(t, j, h) \o SubSeq(t, h + 1, e) = SubSeq(t, j, e)
      BY <1>1, <2>1, ConcatAdjacentSubSeq
    <3> QED BY <2>1, <3>1
  <2>4. s \in Repeats(c[i], n)
    <3>1. ASSUME NEW a \in 1 .. Len(s) PROVE s[a] \in Stands(c[i])
      <4>1. j + a - 1 \in j .. k - 1 /\ a \in 1 .. h - j + 1
        BY <2>1, <2>2
      <4> HIDE DEF s
      <4> QED BY <1>5, <2>2, <4>1
    <3> HIDE DEF s
    <3> QED BY <1>1, <1>3, <2>1, <2>2, <3>1, RepeatsIs
  <2>5. Len(x) <= n
    <3>1. Len(x) = e - j + 1
      BY <1>1, Slice
    <3> QED BY <1>1, <3>1
  <2>6. u \in M[i + 2]
    BY <1>5
  <2> HIDE DEF s, u, x
  <2>7. ByStar(c, i, n, M[i + 2], x)
    BY <2>3, <2>4, <2>6 DEF ByStar
  <2>8. x \in M[i]
    BY <1>2, <2>5, <2>7, LedStarred
  <2> QED BY <2>8 DEF x
<1> DEFINE Star(j) == \E k \in j .. n + 1 :
                   (\A l \in j .. k - 1 : Takes(c[i], t[l])) /\ k \in Finds(c, anch, t, i + 2)
<1>6. ASSUME NEW j \in 1 .. n + 1 PROVE j \in Finds(c, anch, t, i) <=> Star(j)
  <2>1. ASSUME j \in Finds(c, anch, t, i) PROVE Star(j)
    <3>1. PICK e \in j - 1 .. n : SubSeq(t, j, e) \in M[i] /\ (anch => e = n)
      BY <2>1 DEF Finds, M
    <3>2. PICK k \in j .. e + 1 : (\A l \in j .. k - 1 : t[l] \in Stands(c[i]))
                                   /\ SubSeq(t, k, e) \in M[i + 2]
      BY <1>4, <3>1
    <3>3. /\ k \in j .. n + 1 /\ k \in 1 .. n + 1 /\ e \in k - 1 .. n
          /\ \A l \in j .. k - 1 : l \in 1 .. n
      BY <1>1
    <3>4. \A l \in j .. k - 1 : Takes(c[i], t[l])
      BY <1>1, <3>2, <3>3, TakesStands
    <3>5. k \in Finds(c, anch, t, i + 2)
      BY <3>1, <3>2, <3>3 DEF Finds, M
    <3> QED BY <3>3, <3>4, <3>5
  <2>2. ASSUME Star(j) PROVE j \in Finds(c, anch, t, i)
    <3>1. PICK k \in j .. n + 1 :
                   (\A l \in j .. k - 1 : Takes(c[i], t[l])) /\ k \in Finds(c, anch, t, i + 2)
      BY <2>2
    <3>2. PICK e \in k - 1 .. n : SubSeq(t, k, e) \in M[i + 2] /\ (anch => e = n)
      BY <3>1 DEF Finds, M
    <3>3. e \in j - 1 .. n /\ k \in j .. e + 1 /\ \A l \in j .. k - 1 : l \in 1 .. n
      BY <1>1
    <3>4. \A l \in j .. k - 1 : t[l] \in Stands(c[i])
      BY <1>1, <3>1, <3>3, TakesStands
    <3>5. SubSeq(t, j, e) \in M[i]
      BY <1>5, <3>2, <3>3, <3>4
    <3> QED BY <3>2, <3>3, <3>5 DEF Finds, M
  <2> QED BY <2>1, <2>2
<1>7. Finds(c, anch, t, i) \subseteq 1 .. n + 1
  BY DEF Finds
<1>8. Finds(c, anch, t, i) = {j \in 1 .. n + 1 : Star(j)}
  <2> HIDE DEF Star
  <2> QED BY <1>6, <1>7
<1> QED BY <1>8

-----------------------------------------------------------------------------
\* The matcher finds what the pattern means.
LEMMA CoreIs ==
    ASSUME NEW re \in Seq(STRING)
    PROVE  /\ Core(re) \in Seq(STRING) /\ Anchored(re) \in BOOLEAN
           /\ Len(re) = IF Anchored(re) THEN Len(Core(re)) + 1 ELSE Len(Core(re))
           /\ \A i \in 1 .. Len(Core(re)) :
                 /\ Core(re)[i] = re[i] /\ (Starred(re, i) <=> Starred(Core(re), i))
                 /\ ~ (re[i] = "$" /\ i = Len(re))
           /\ Anchored(re) => re[Len(re)] = "$"
           /\ Starts(re) => Len(Core(re)) >= 1
<1> DEFINE c == Core(re)
           r == Len(re)
           m == Len(c)
<1>1. r \in Nat /\ DOMAIN re = 1 .. r
  BY LenProperties
<1>2. CASE Anchored(re)
  <2>1. re # <<>> /\ re[r] = "$" /\ r # 0
    BY <1>1, <1>2, EmptySeq DEF Anchored
  <2>2. c \in Seq(STRING) /\ m = r - 1 /\ \A i \in 1 .. m : c[i] = re[i]
    <3>1. c = SubSeq(re, 1, r - 1)
      BY <1>2 DEF Core
    <3> DEFINE h == r - 1
    <3>2. 1 \in 1 .. Len(re) + 1 /\ h \in 1 - 1 .. Len(re) /\ h - 1 + 1 = h
      BY <1>1, <2>1
    <3> HIDE DEF h
    <3>3. /\ SubSeq(re, 1, h) \in Seq(STRING) /\ Len(SubSeq(re, 1, h)) = h
          /\ \A i \in 1 .. h : SubSeq(re, 1, h)[i] = re[1 + i - 1]
      BY <3>2, Slice
    <3>4. \A i \in 1 .. h : 1 + i - 1 = i
      OBVIOUS
    <3>5. c = SubSeq(re, 1, h)
      BY <3>1 DEF h
    <3> HIDE DEF c
    <3>6. c \in Seq(STRING) /\ Len(c) = h /\ \A i \in 1 .. h : c[i] = re[i]
      BY <3>3, <3>4, <3>5
    <3> QED BY <3>6 DEF h
  <2>0. m \in Nat /\ r = m + 1
    <3>1. m \in Nat /\ m = r - 1
      BY <2>2, LenProperties
    <3> HIDE DEF m, r
    <3> QED BY <1>1, <3>1
  <2> HIDE DEF c
  <2>3. ASSUME NEW i \in 1 .. m PROVE Starred(re, i) <=> Starred(c, i)
    <3>1. CASE i = m
      <4>1. i + 1 = r /\ re[i + 1] # "*"
        BY <1>1, <2>1, <2>2, <3>1
      <4> QED BY <3>1, <4>1 DEF Starred
    <3>2. CASE i # m
      <4>1. i + 1 \in 1 .. m /\ i < m /\ i < r
        BY ONLY <2>0, <3>2
      <4> QED BY <2>2, <4>1 DEF Starred
    <3> QED BY <3>1, <3>2
  <2>4. Starts(re) => m >= 1
    <3>1. ASSUME Starts(re) PROVE m >= 1
      <4>1. re[1] = "^"
        BY <1>1, <2>1, <3>1 DEF Starts
      <4>2. r # 1
        BY <2>1, <4>1
      <4> QED BY <1>1, <2>1, <2>2, <4>2
    <3> QED BY <3>1
  <2>5. r = m + 1 /\ \A i \in 1 .. m : i # r
    BY ONLY <2>0
  <2> QED BY <1>2, <2>1, <2>2, <2>3, <2>4, <2>5 DEF c, Anchored
<1>3. CASE ~ Anchored(re)
  <2>1. Core(re) = re
    BY <1>3 DEF Core
  <2>2. Starts(re) => r >= 1
    BY <1>1, EmptySeq DEF Starts
  <2>3. \A i \in 1 .. r : ~ (re[i] = "$" /\ i = Len(re))
    <3>1. ASSUME NEW i \in 1 .. r, re[i] = "$", i = Len(re) PROVE FALSE
      <4>1. re # <<>>
        BY <1>1, <3>1, EmptySeq
      <4> QED BY <1>3, <3>1, <4>1 DEF Anchored
    <3> QED BY <3>1
  <2> QED BY <1>3, <2>1, <2>2, <2>3 DEF Anchored
<1> QED BY <1>2, <1>3

LEMMA HereIs ==
    ASSUME NEW re \in Seq(STRING), NEW t \in Seq(Letters)
    PROVE  \A i \in 1 .. Len(Core(re)) + 1 :
               Here(re, t)[i] = Finds(Core(re), Anchored(re), t, i)
<1> DEFINE c == Core(re)
           anch == Anchored(re)
           r == Len(re)
           m == Len(c)
           n == Len(t)
           F(i) == Finds(c, anch, t, i)
           Star(f, i) == {j \in 1 .. n + 1 : \E k \in j .. n + 1 :
                             (\A l \in j .. k - 1 : Takes(re[i], t[l])) /\ k \in f[i + 2]}
           Plain(f, i) == {j \in 1 .. n : (re[i] = "." \/ re[i] = t[j]) /\ j + 1 \in f[i + 1]}
           Of(f, i) == IF i > r THEN 1 .. n + 1
                       ELSE IF Starred(re, i) THEN Star(f, i)
                       ELSE IF re[i] = "$" /\ i = r THEN {n + 1}
                       ELSE Plain(f, i)
           Is(f) == f = [i \in 1 .. r + 1 |-> Of(f, i)]
           X == CHOOSE f : Is(f)
           H == [i \in 1 .. r + 1 |-> IF i > m + 1 THEN 1 .. n + 1 ELSE F(i)]
<1>1. /\ c \in Seq(STRING) /\ anch \in BOOLEAN /\ r = IF anch THEN m + 1 ELSE m
      /\ \A i \in 1 .. m : /\ c[i] = re[i] /\ (Starred(re, i) <=> Starred(c, i))
                           /\ ~ (re[i] = "$" /\ i = r)
      /\ anch => re[r] = "$"
  BY CoreIs
<1>2. m \in Nat /\ r \in Nat /\ n \in Nat /\ t \in Seq(STRING)
  BY <1>1, LenProperties, SeqMonotonic, GrepAssumption
<1>3. Here(re, t) = X
  BY DEF Here
<1> HIDE DEF c, anch
<1>4. F(m + 1) = IF anch THEN {n + 1} ELSE 1 .. n + 1
  BY <1>1, <1>2, FindsEnd
<1>5. ASSUME NEW i \in 1 .. m, ~ Starred(re, i) PROVE F(i) = Plain(H, i)
  <2>1. F(i) = {j \in 1 .. n : Takes(c[i], t[j]) /\ j + 1 \in F(i + 1)}
    BY <1>1, <1>5, FindsLetter
  <2>2. c[i] = re[i]
    BY <1>1
  <2>3. i + 1 \in 1 .. r + 1 /\ ~ (i + 1 > m + 1)
    BY <1>1, <1>2
  <2> HIDE DEF F, r, m, n
  <2>4. H[i + 1] = F(i + 1)
    BY <2>3
  <2> HIDE DEF H
  <2> QED BY <2>1, <2>2, <2>4 DEF Takes
<1>6. ASSUME NEW i \in 1 .. m, Starred(re, i) PROVE F(i) = Star(H, i)
  <2>1. F(i) = {j \in 1 .. n + 1 : \E k \in j .. n + 1 :
                   (\A l \in j .. k - 1 : Takes(c[i], t[l])) /\ k \in F(i + 2)}
    BY <1>1, <1>6, FindsStar
  <2>2. c[i] = re[i]
    BY <1>1
  <2>3. i + 2 \in 1 .. r + 1 /\ ~ (i + 2 > m + 1)
    <3>1. Starred(c, i)
      BY <1>1, <1>6
    <3>2. i < m
      BY <3>1 DEF Starred
    <3> QED BY <1>1, <1>2, <3>2
  <2> HIDE DEF F, r, m, n
  <2>4. H[i + 2] = F(i + 2)
    BY <2>3
  <2> HIDE DEF H
  <2> QED BY <2>1, <2>2, <2>4
<1>7. ASSUME NEW i \in 1 .. r + 1 PROVE H[i] = Of(H, i)
  <2>1. CASE i \in 1 .. m
    <3>1. ~ (i > m + 1) /\ ~ (i > r) /\ ~ (re[i] = "$" /\ i = r)
      BY <1>1, <1>2, <2>1
    <3>2. H[i] = F(i)
      <4> HIDE DEF F, r, m, n
      <4> QED BY <3>1
    <3>3. Of(H, i) = IF Starred(re, i) THEN Star(H, i) ELSE Plain(H, i)
      <4> HIDE DEF H, Star, Plain, r, m, n
      <4> QED BY <3>1
    <3> HIDE DEF H, F, Of, Star, Plain, m
    <3> QED BY <1>5, <1>6, <2>1, <3>2, <3>3
  <2>2. CASE i = m + 1
    <3>1. ~ (i > m + 1)
      BY <1>2, <2>2
    <3>2. H[i] = F(m + 1)
      <4> HIDE DEF F, r, m, n
      <4> QED BY <2>2, <3>1
    <3>3. CASE anch
      <4>1. i = r /\ ~ (i > r) /\ re[i] = "$"
        BY <1>1, <1>2, <2>2, <3>3
      <4>2. ~ Starred(re, i)
        BY <1>2, <4>1 DEF Starred
      <4>3. Of(H, i) = {n + 1}
        <5> HIDE DEF H, Star, Plain, r, m, n
        <5> QED BY <4>1, <4>2
      <4> HIDE DEF H, F, Of
      <4> QED BY <1>4, <3>2, <3>3, <4>3
    <3>4. CASE ~ anch
      <4>1. i > r
        BY <1>1, <1>2, <2>2, <3>4
      <4>2. Of(H, i) = 1 .. n + 1
        <5> HIDE DEF H, Star, Plain, r, m, n
        <5> QED BY <4>1
      <4> HIDE DEF H, F, Of
      <4> QED BY <1>4, <3>2, <3>4, <4>2
    <3> QED BY <3>3, <3>4
  <2>3. CASE i \notin 1 .. m /\ i # m + 1
    <3>1. i > m + 1 /\ i > r
      BY <1>1, <1>2, <2>3
    <3>2. Of(H, i) = 1 .. n + 1
      <4> HIDE DEF H, Star, Plain, r, m, n
      <4> QED BY <3>1
    <3>3. H[i] = 1 .. n + 1
      <4> HIDE DEF F, r, m, n
      <4> QED BY <3>1
    <3> QED BY <3>2, <3>3
  <2> QED BY <2>1, <2>2, <2>3
<1>8. Is(H)
  <2>1. DOMAIN H = 1 .. r + 1 /\ H = [i \in 1 .. r + 1 |-> H[i]]
    <3> HIDE DEF F, r, m, n
    <3> QED OBVIOUS
  <2> HIDE DEF H, Of, r
  <2> QED BY <1>7, <2>1
<1>9. Is(X)
  <2> HIDE DEF Is, H
  <2> QED BY <1>8
<1> HIDE DEF X
<1>10. \A i \in 1 .. r + 1 : X[i] = Of(X, i)
  <2> HIDE DEF Of, r
  <2> QED BY <1>9
<1>11. \A i \in 1 .. r + 1 : X[i] = H[i]
  <2> DEFINE P == {i \in 1 .. r + 1 : X[i] = H[i]}
  <2>1. r + 1 \in P
    <3>1. r + 1 \in 1 .. r + 1 /\ r + 1 > r
      BY <1>2
    <3>2. Of(X, r + 1) = 1 .. n + 1 /\ Of(H, r + 1) = 1 .. n + 1
      <4> HIDE DEF H, Star, Plain, r, m, n
      <4> QED BY <3>1
    <3> HIDE DEF H, Of, r, n
    <3> QED BY <1>7, <1>10, <3>1, <3>2
  <2>2. ASSUME NEW i \in 1 .. r, \A k \in i + 1 .. r + 1 : k \in P PROVE i \in P
    <3>1. i \in 1 .. r + 1 /\ i + 1 \in i + 1 .. r + 1 /\ ~ (i > r)
      BY <1>2
    <3>2. X[i + 1] = H[i + 1]
      <4>1. i + 1 \in P
        BY <2>2, <3>1
      <4> HIDE DEF H, r
      <4> QED BY <4>1
    <3>3. Starred(re, i) => X[i + 2] = H[i + 2]
      <4>1. ASSUME Starred(re, i) PROVE X[i + 2] = H[i + 2]
        <5>1. i + 2 \in i + 1 .. r + 1
          BY <1>2, <4>1 DEF Starred
        <5>2. i + 2 \in P
          BY <2>2, <5>1
        <5> HIDE DEF H, r
        <5> QED BY <5>2
      <4> QED BY <4>1
    <3>4. Of(X, i) = Of(H, i)
      <4> HIDE DEF H, r, n
      <4> QED BY <3>2, <3>3
    <3> HIDE DEF H, Of, r
    <3> QED BY <1>7, <1>10, <3>1, <3>4
  <2>3. \A i \in 1 .. r + 1 : i \in P
    <3> HIDE DEF P, r
    <3> QED BY <1>2, <2>1, <2>2, Downward
  <2> HIDE DEF H, r
  <2> QED BY <2>3
<1>12. ASSUME NEW i \in 1 .. m + 1 PROVE X[i] = F(i)
  <2>1. i \in 1 .. r + 1 /\ ~ (i > m + 1)
    BY <1>1, <1>2
  <2>2. H[i] = F(i)
    <3> HIDE DEF F, r, m, n
    <3> QED BY <2>1
  <2> HIDE DEF H, r, F
  <2> QED BY <1>11, <2>1, <2>2
<1> QED BY <1>3, <1>12 DEF c, anch

LEMMA MatchIs ==
    ASSUME NEW re \in Seq(STRING), NEW t \in Seq(Letters)
    PROVE  Match(re, t) <=> Described(re, t)
<1> DEFINE c == Core(re)
           anch == Anchored(re)
           n == Len(t)
           b == IF Starts(re) THEN 2 ELSE 1
<1>1. /\ Len(c) \in Nat /\ n \in Nat /\ Starts(re) => Len(c) >= 1
  BY CoreIs, LenProperties
<1>2. b \in 1 .. Len(c) + 1
  BY <1>1
<1>3. Here(re, t)[b] = Finds(c, anch, t, b)
  <2> HIDE DEF b, c, anch
  <2>1. \A i \in 1 .. Len(c) + 1 : Here(re, t)[i] = Finds(c, anch, t, i)
    BY HereIs DEF c, anch
  <2> QED BY <1>2, <2>1
<1>4. Finds(c, anch, t, b) \subseteq 1 .. n + 1
  BY DEF Finds
<1>5. Match(re, t) <=> \E j \in Finds(c, anch, t, b) : Starts(re) => j = 1
  <2>1. CASE Starts(re)
    <3>1. b = 2 /\ (Match(re, t) <=> 1 \in Here(re, t)[2])
      BY <2>1 DEF Match
    <3> HIDE DEF b, c, anch
    <3> QED BY <1>3, <2>1, <3>1
  <2>2. CASE ~ Starts(re)
    <3>1. b = 1 /\ (Match(re, t) <=> \E j \in 1 .. n + 1 : j \in Here(re, t)[1])
      BY <2>2 DEF Match
    <3> HIDE DEF b, c, anch
    <3> QED BY <1>3, <1>4, <2>2, <3>1
  <2> QED BY <2>1, <2>2
<1> DEFINE D(i, j) == /\ i <= j /\ SubSeq(t, i + 1, j) \in Means(c, n)[b]
                      /\ Starts(re) => i = 0
                      /\ anch => j = n
<1>6. Described(re, t) <=> \E i, j \in 0 .. n : D(i, j)
  BY DEF Described
<1> HIDE DEF c, anch, b
<1>7. ASSUME NEW x \in Finds(c, anch, t, b), Starts(re) => x = 1
      PROVE  \E i, j \in 0 .. n : D(i, j)
  <2>1. PICK e \in x - 1 .. n : SubSeq(t, x, e) \in Means(c, n)[b] /\ (anch => e = n)
    BY DEF Finds
  <2>2. x \in 1 .. n + 1
    BY <1>4
  <2>3. x - 1 \in 0 .. n /\ e \in 0 .. n /\ x - 1 <= e /\ (x - 1) + 1 = x /\ (x = 1 => x - 1 = 0)
    BY <1>1, <2>2
  <2>4. D(x - 1, e)
    BY <1>7, <2>1, <2>3
  <2> HIDE DEF D
  <2> QED BY <2>3, <2>4
<1>8. ASSUME NEW i \in 0 .. n, NEW j \in 0 .. n, D(i, j)
      PROVE  \E x \in Finds(c, anch, t, b) : Starts(re) => x = 1
  <2>1. i + 1 \in 1 .. n + 1 /\ j \in (i + 1) - 1 .. n /\ (i = 0 => i + 1 = 1)
    BY <1>1, <1>8
  <2>2. i + 1 \in Finds(c, anch, t, b)
    BY <1>8, <2>1 DEF Finds
  <2> QED BY <1>8, <2>1, <2>2
<1> HIDE DEF D
<1> QED BY <1>5, <1>6, <1>7, <1>8

-----------------------------------------------------------------------------
LEMMA ImpliesGrep == GInductive => GrepRight
<1> SUFFICES ASSUME GInductive, ended, ~ cut
             PROVE  out = Picked(file, {k \in Ends(file) : Described(pattern, Line(file, k))})
  BY DEF GrepRight
<1>1. out = Matching(pattern, file)
  BY WrittenMatches
<1>2. file \in Seq(Chars) /\ pattern \in Seq(STRING)
  BY GrepFacts, GrepAssumption DEF GInductive
<1>3. ASSUME NEW k \in Ends(file)
      PROVE  Match(pattern, Line(file, k)) <=> Described(pattern, Line(file, k))
  <2>1. k \in 1 .. Len(file)
    BY <1>2, LenProperties DEF Ends
  <2>2. Line(file, k) \in Seq(Chars \ {NL})
    BY <1>2, <2>1, LineFacts
  <2>3. Line(file, k) \in Seq(Letters)
    BY <2>2, SeqMonotonic, Chars \ {NL} \subseteq Letters DEF Chars
  <2> QED BY <1>2, <2>3, MatchIs
<1>4. {k \in Ends(file) : Match(pattern, Line(file, k))} =
      {k \in Ends(file) : Described(pattern, Line(file, k))}
  BY <1>3
<1> QED BY <1>1, <1>4 DEF Matching

\* grep writes the lines of the file that its pattern describes, in order, whatever the
\* pieces read() returns: the matcher finds what the pattern means, and what is kept
\* between two turns is what the next one needs (grep.c: grep, match, matchhere,
\* matchstar).
THEOREM GrepInvariant == GSpec => []GrepRight
<1>1. GSpec => []GInductive
  BY GrepInit, GrepStep, PTL DEF GSpec
<1> QED BY <1>1, ImpliesGrep, PTL
=============================================================================
