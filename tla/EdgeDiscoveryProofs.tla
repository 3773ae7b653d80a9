------------------------ MODULE EdgeDiscoveryProofs ------------------------
(***************************************************************************)
(* Proofs about EdgeDiscovery, for every set of outputs, every finite set  *)
(* of paths and every reference graph: its properties, and that it         *)
(* implements EdgeReporting.                                               *)
(***************************************************************************)
EXTENDS EdgeRefinement, FiniteSetTheorems, SequenceTheorems, TLAPS

-----------------------------------------------------------------------------
(* Sequences: what pushing on a stack does to what is on it. *)

\* An ordering of a finite set is a sequence with exactly its elements.
LEMMA OrderingOfSet ==
    ASSUME NEW S, IsFiniteSet(S), NEW f \in SetToSeqs(S)
    PROVE  f \in Seq(S) /\ Range(f) = S
<1> DEFINE D == 1..Cardinality(S)
<1>1. Cardinality(S) \in Nat
    BY FS_CardinalityType
<1>2. f \in [D -> S] /\ \A i, j \in D : i # j => f[i] # f[j]
    BY DEF SetToSeqs
<1>3. f \in Seq(S)
    BY <1>1, <1>2 
<1>4. f \in Injection(D, S)
    BY <1>2 DEF Injection, IsInjective
<1>5. Cardinality(D) = Cardinality(S)
    BY <1>1, FS_Interval
<1>6. f \in Surjection(D, S)
    BY <1>4, <1>5, FS_Injection
<1>7. Range(f) = S
    BY <1>2, <1>6 DEF Surjection, Range
<1> QED BY <1>3, <1>7

\* A nonempty stack holds its top and what is below it.
LEMMA TopAndRest ==
    ASSUME NEW T, NEW s \in Seq(T), s # <<>>
    PROVE  /\ Last(s) \in T
           /\ Front(s) \in Seq(T)
           /\ Range(s) = Range(Front(s)) \cup {Last(s)}
<1>1. Len(s) \in Nat \ {0} /\ s \in [1..Len(s) -> T]
    BY LenProperties, EmptySeq
<1>2. Front(s) \in Seq(T) /\ Len(Front(s)) = Len(s) - 1
       /\ \A i \in 1..(Len(s) - 1) : Front(s)[i] = s[i]
    BY <1>1, SubSeqProperties DEF Front
<1>3. Range(Front(s)) = {s[i] : i \in 1..(Len(s) - 1)}
    BY <1>1, <1>2, RangeEquality
<1>4. Range(s) = {s[i] : i \in 1..Len(s)}
    BY RangeEquality
<1>5. 1..Len(s) = (1..(Len(s) - 1)) \cup {Len(s)}
    BY <1>1
<1> QED BY <1>1, <1>2, <1>3, <1>4, <1>5 DEF Last

\* Replacing the top of a stack by other elements.
LEMMA PushedStack ==
    ASSUME NEW T, NEW s \in Seq(T), s # <<>>, NEW pushed \in Seq(T)
    PROVE  /\ Front(s) \o pushed \in Seq(T)
           /\ Range(Front(s) \o pushed) = Range(Front(s)) \cup Range(pushed)
<1>1. Front(s) \in Seq(T)
    BY TopAndRest
<1>2. Front(s) \o pushed \in Seq(T)
    BY <1>1, ConcatProperties
<1>3. Range(Front(s) \o pushed) = Range(Front(s)) \cup Range(pushed)
    BY <1>1, RangeConcatenation
<1> QED BY <1>2, <1>3

\* What appending one element does to the elements of a sequence.
LEMMA RangeOfAppend ==
    ASSUME NEW T, NEW s \in Seq(T), NEW x \in T
    PROVE  Range(Append(s, x)) = Range(s) \cup {x}
<1>1. Append(s, x) \in Seq(T) /\ Len(Append(s, x)) = Len(s) + 1
       /\ Append(s, x)[Len(s) + 1] = x
       /\ \A i \in 1..Len(s) : Append(s, x)[i] = s[i]
    BY AppendProperties
<1>2. Len(s) \in Nat
    BY LenProperties
<1>3. 1..(Len(s) + 1) = (1..Len(s)) \cup {Len(s) + 1}
    BY <1>2
<1>4. Range(Append(s, x)) = {Append(s, x)[i] : i \in 1..(Len(s) + 1)}
    BY <1>1, RangeEquality
<1>5. Range(s) = {s[i] : i \in 1..Len(s)}
    BY RangeEquality
<1> QED BY <1>1, <1>3, <1>4, <1>5

-----------------------------------------------------------------------------
(* Closures. *)

LEMMA ReachRoot ==
    ASSUME NEW g, NEW p \in Path
    PROVE  p \in Reach(g, p)
BY DEF Reach

LEMMA ReachStep ==
    ASSUME NEW g, NEW p \in Path, NEW x \in Reach(g, p), NEW y \in Path, y \in g[x]
    PROVE  y \in Reach(g, p)
BY DEF Reach, Closed

\* More references reach no less.
LEMMA ReachMonotone ==
    ASSUME NEW g, NEW h, \A x \in Path : g[x] \subseteq h[x], NEW p \in Path
    PROVE  Reach(g, p) \subseteq Reach(h, p)
BY DEF Reach, Closed

\* A set that contains a path and the references of its members contains the
\* path's closure.
LEMMA ReachLeast ==
    ASSUME NEW g, NEW p \in Path, NEW S \in SUBSET Path, p \in S, Closed(g, S)
    PROVE  Reach(g, p) \subseteq S
BY DEF Reach

-----------------------------------------------------------------------------
(* The inductive invariant. *)

LEMMA PathsAreFinite == IsFiniteSet(Path)
BY EdgeAssumption

LEMMA InitEstablishes == Init => IInv
<1> SUFFICES ASSUME Init PROVE IInv
    OBVIOUS
<1> USE EdgeAssumption DEF Init
<1>1. Registered = {} /\ idle /\ \A a \in Attr : Range(stack[a]) = {}
    BY DEF Registered, Range, idle
<1>2. TypeOK
    BY DEF TypeOK
<1>3. NamesAgree
    BY <1>1 DEF NamesAgree
<1>4. WalksAreRooted /\ WalksExpandAll /\ WalksStayInClosure /\ ReachersAreKnown
    BY <1>1 DEF WalksAreRooted, WalksExpandAll, WalksStayInClosure, ReachersAreKnown
<1>5. AnswersAreTrue
    BY DEF AnswersAreTrue
<1>8. QuestionsHaveWalks
    BY DEF QuestionsHaveWalks
<1>6. EdgesAreKnown /\ EdgesAreNew
    BY <1>1 DEF EdgesAreKnown, EdgesAreNew
<1>7. CallsFinish
    BY <1>1 DEF CallsFinish
<1> QED BY <1>2, <1>3, <1>4, <1>5, <1>6, <1>7, <1>8 DEF IInv

\* The second name of a derivation changes nothing but the set of names.
LEMMA AddAliasPreserves ==
    ASSUME IInv, NEW a \in Attr, AddAlias(a)
    PROVE  IInv'
<1> USE DEF AddAlias
<1>1. TypeOK'
    BY DEF IInv, TypeOK
<1>2. NamesAgree' /\ WalksAreRooted' /\ WalksExpandAll' /\ WalksStayInClosure'
    BY DEF IInv, NamesAgree, WalksAreRooted, WalksExpandAll, WalksStayInClosure,
           Registered, Reach, Closed, Range
<1>3. /\ ReachersAreKnown' /\ AnswersAreTrue' /\ QuestionsHaveWalks'
      /\ EdgesAreKnown' /\ EdgesAreNew'
    BY DEF IInv, ReachersAreKnown, AnswersAreTrue, QuestionsHaveWalks, EdgesAreKnown,
           EdgesAreNew, Registered
<1>4. CallsFinish'
    BY DEF IInv, CallsFinish, idle, Standing
<1> QED BY <1>1, <1>2, <1>3, <1>4 DEF IInv

\* The first name of a derivation starts a walk there, and joins the walks
\* that have been there to it.
LEMMA AddOutputPreserves ==
    ASSUME IInv, NEW a \in Attr, AddOutput(a)
    PROVE  IInv'
<1> DEFINE d == DrvOf[a]
<1>0. d \in Path /\ DrvOf \in [Attr -> Path] /\ NoOutput \notin Attr
    BY EdgeAssumption
<1>1. a \notin Registered /\ stack[a] = <<>> /\ visited[a] = {}
    BY <1>0 DEF AddOutput, IsAlias, IInv, NamesAgree, WalksAreRooted
<1>2. Registered' = Registered \cup {a}
    BY RangeOfAppend DEF AddOutput, IInv, TypeOK, Registered
<1>3. /\ Len(outputs) \in Nat /\ Len(outputs') = Len(outputs) + 1
      /\ DOMAIN outputs = 1..Len(outputs) /\ DOMAIN outputs' = 1..(Len(outputs) + 1)
      /\ outputs'[Len(outputs) + 1] = a
      /\ \A i \in 1..Len(outputs) : outputs'[i] = outputs[i] /\ outputs[i] \in Registered
    BY DEF AddOutput, IInv, TypeOK, Registered, Range
<1>4. /\ stack' = [stack EXCEPT ![a] = <<d>>]
      /\ visited' = [visited EXCEPT ![a] = {d}]
      /\ outputOf' = [outputOf EXCEPT ![d] = a]
      /\ reachedBy' = [reachedBy EXCEPT ![d] = @ \cup {a}]
      /\ cursor' = Len(outputs) + 1
      /\ edges' = {<<other, a>> : other \in reachedBy[d] \ {a}}
      /\ UNCHANGED <<store, answered, references, outstanding, reported>>
    BY DEF AddOutput, JoinEarlierWalks, NewWalk
<1>5. stack \in [Attr -> Seq(Path)] /\ visited \in [Attr -> SUBSET Path]
    BY DEF IInv, TypeOK
<1>6. Range(<<d>>) = {d}
    BY DEF Range
<1>7. TypeOK'
    <2>1. outputs' \in Seq(Attr) /\ added' \subseteq Attr
        BY DEF AddOutput, IInv, TypeOK
    <2>2. stack' \in [Attr -> Seq(Path)] /\ visited' \in [Attr -> SUBSET Path]
        BY <1>0, <1>4, <1>5
    <2>3. outputOf' \in [Path -> Attr \cup {NoOutput}] /\ reachedBy' \in [Path -> SUBSET Attr]
        BY <1>0, <1>4 DEF IInv, TypeOK
    <2>4. cursor' \in 0..Len(outputs')
        BY <1>3, <1>4
    <2>5. edges' \subseteq Attr \X Attr
        BY <1>0, <1>4 DEF IInv, TypeOK
    <2> QED BY <1>4, <2>1, <2>2, <2>3, <2>4, <2>5 DEF IInv, TypeOK
<1>8. NamesAgree'
    <2>1. outputOf[d] = NoOutput /\ outputOf \in [Path -> Attr \cup {NoOutput}]
        BY DEF AddOutput, IsAlias, IInv, TypeOK
    <2>2. \A b \in Attr : b \in Registered' <=> outputOf'[DrvOf[b]] = b
        BY <1>0, <1>2, <1>4, <2>1 DEF IInv, NamesAgree
    <2>3. \A p \in Path : outputOf'[p] # NoOutput => DrvOf[outputOf'[p]] = p
        BY <1>0, <1>4, <2>1 DEF IInv, NamesAgree
    <2>4. \A i, j \in DOMAIN outputs' : outputs'[i] = outputs'[j] => i = j
        BY <1>1, <1>3 DEF IInv, NamesAgree
    <2> QED BY <2>2, <2>3, <2>4 DEF NamesAgree
<1>9. WalksAreRooted'
    BY <1>0, <1>2, <1>4, <1>5, <1>6 DEF IInv, WalksAreRooted
<1>10. WalksExpandAll'
    BY <1>4, <1>5, <1>6 DEF IInv, WalksExpandAll
<1>11. WalksStayInClosure'
    BY <1>0, <1>4, <1>5, ReachRoot DEF IInv, WalksStayInClosure, Reach, Closed
<1>12. ReachersAreKnown'
    BY <1>0, <1>1, <1>4, <1>5 DEF IInv, TypeOK, ReachersAreKnown
<1>13. AnswersAreTrue'
    BY <1>4 DEF IInv, AnswersAreTrue
<1>20. QuestionsHaveWalks'
    BY <1>2, <1>3 DEF QuestionsHaveWalks
<1>14. /\ reachedBy[d] = {b \in Attr : d \in visited[b]}
       /\ a \notin reachedBy[d]
       /\ reachedBy[d] \subseteq Registered
       /\ edges' = {<<other, a>> : other \in reachedBy[d]}
       /\ edges = {}
    BY <1>0, <1>1, <1>4 DEF IInv, ReachersAreKnown, WalksAreRooted, CallsFinish, AddOutput
<1>15. Registered \subseteq Attr
    BY RangeOfSeq DEF IInv, TypeOK, Registered
<1>16. \A b \in Registered : b # a /\ DrvOf[b] # d
    BY <1>0, <1>1, <1>15 DEF AddOutput, IsAlias, IInv, NamesAgree
<1>17. EdgesAreKnown'
    <2>1. reported = {e \in Registered \X Registered :
                          e[1] # e[2] /\ DrvOf[e[2]] \in visited[e[1]]}
        BY <1>14 DEF IInv, EdgesAreKnown
    <2>2. ASSUME NEW x, NEW y
          PROVE  <<x, y>> \in edges' \cup reported' <=>
                     /\ x \in Registered' /\ y \in Registered'
                     /\ x # y /\ DrvOf[y] \in visited'[x]
        <3>1. CASE y = a
            BY <1>0, <1>1, <1>2, <1>4, <1>5, <1>14, <1>15, <2>1, <3>1
        <3>2. CASE y # a /\ x = a
            BY <1>1, <1>2, <1>4, <1>5, <1>14, <1>15, <1>16, <2>1, <3>2
        <3>3. CASE y # a /\ x # a
            BY <1>2, <1>4, <1>5, <1>14, <1>15, <2>1, <3>3
        <3> QED BY <3>1, <3>2, <3>3
    <2>3. \A e \in edges' \cup reported' : e = <<e[1], e[2]>>
        BY <1>4, <2>1
    <2> QED BY <2>2, <2>3 DEF EdgesAreKnown
<1>18. EdgesAreNew'
    BY <1>1, <1>4, <1>14 DEF IInv, EdgesAreKnown, EdgesAreNew
<1>19. CallsFinish'
    BY <1>1, <1>3, <1>4, <1>5, <1>15 DEF IInv, CallsFinish, Standing, idle, AddOutput
<1> QED BY <1>7, <1>8, <1>9, <1>10, <1>11, <1>12, <1>13, <1>17, <1>18, <1>19, <1>20 DEF IInv

\* Expanding the top of a stack pushes the references not seen before.
LEMMA ExpandPreserves ==
    ASSUME IInv, Expand
    PROVE  IInv'
<1> DEFINE a == walking
           node == Last(stack[a])
           fresh == FreshReferences(a, node)
<1>1. /\ cursor \in 1..Len(outputs) /\ Len(outputs) \in Nat
      /\ DOMAIN outputs = 1..Len(outputs)
      /\ a = outputs[cursor] /\ a \in Registered /\ a \in Attr
    BY DEF Expand, IInv, TypeOK, idle, walking, Registered, Range
<1>2. stack[a] # <<>> /\ node \in answered
    BY DEF Expand, Standing
<1>3. stack \in [Attr -> Seq(Path)] /\ visited \in [Attr -> SUBSET Path]
    BY DEF IInv, TypeOK
<1>4. node \in Path /\ Front(stack[a]) \in Seq(Path)
      /\ Range(stack[a]) = Range(Front(stack[a])) \cup {node}
    BY <1>1, <1>2, <1>3, TopAndRest
<1>5. /\ fresh = references[node] \ visited[a] /\ fresh \subseteq Path
      /\ IsFiniteSet(fresh)
    BY <1>4, PathsAreFinite, FS_Subset DEF FreshReferences, IInv, TypeOK
<1>6. PICK pushed \in SetToSeqs(fresh) :
          stack' = [stack EXCEPT ![a] = Front(stack[a]) \o pushed]
    BY <1>1, <1>3 DEF Expand
<1>7. pushed \in Seq(Path) /\ Range(pushed) = fresh
    <2>1. pushed \in Seq(fresh) /\ Range(pushed) = fresh
        BY <1>5, OrderingOfSet
    <2> QED BY <1>5, <2>1
<1>8. /\ stack'[a] \in Seq(Path)
      /\ Range(stack'[a]) = Range(Front(stack[a])) \cup fresh
    BY <1>1, <1>2, <1>3, <1>6, <1>7, PushedStack
<1>9. /\ visited' = [visited EXCEPT ![a] = visited[a] \cup fresh]
      /\ reachedBy' = [p \in Path |-> IF p \in fresh THEN reachedBy[p] \cup {a}
                                                  ELSE reachedBy[p]]
      /\ edges' = edges \cup EdgesTo(a, fresh)
      /\ UNCHANGED <<store, added, outputs, outputOf, answered, references,
                     outstanding, cursor, reported>>
    BY DEF Expand
<1>10. Registered' = Registered
    BY <1>9 DEF Registered
<1>11. node \in visited[a]
    BY <1>1, <1>4 DEF IInv, WalksAreRooted
<1>12. Registered \subseteq Attr
    BY RangeOfSeq DEF IInv, TypeOK, Registered
<1>13. \A x, y : <<x, y>> \in EdgesTo(a, fresh) <=>
                      x = a /\ y \in Registered /\ y # a /\ DrvOf[y] \in fresh
    <2>1. \A p \in fresh : outputOf[p] # NoOutput =>
              /\ outputOf[p] \in Attr /\ outputOf[p] \in Registered
              /\ DrvOf[outputOf[p]] = p
        BY <1>5 DEF IInv, TypeOK, NamesAgree
    <2>2. \A y \in Registered : outputOf[DrvOf[y]] = y /\ y # NoOutput
        BY <1>12, EdgeAssumption DEF IInv, NamesAgree
    <2> QED BY <2>1, <2>2 DEF EdgesTo
<1>14. TypeOK'
    <2>1. stack' \in [Attr -> Seq(Path)] /\ visited' \in [Attr -> SUBSET Path]
        BY <1>1, <1>3, <1>5, <1>6, <1>8, <1>9
    <2>2. reachedBy' \in [Path -> SUBSET Attr]
        BY <1>1, <1>9 DEF IInv, TypeOK
    <2>3. edges' \subseteq Attr \X Attr
        <3>1. EdgesTo(a, fresh) \subseteq Attr \X Attr
            <4> SUFFICES ASSUME NEW p \in fresh, outputOf[p] \notin {NoOutput, a}
                         PROVE  <<a, outputOf[p]>> \in Attr \X Attr
                BY DEF EdgesTo
            <4> QED BY <1>1, <1>5 DEF IInv, TypeOK
        <3> QED BY <1>9, <3>1 DEF IInv, TypeOK
    <2> QED BY <1>9, <2>1, <2>2, <2>3 DEF IInv, TypeOK
<1>15. NamesAgree'
    BY <1>9, <1>10 DEF IInv, NamesAgree
<1>16. WalksAreRooted'
    BY <1>1, <1>3, <1>4, <1>6, <1>8, <1>9, <1>10 DEF IInv, WalksAreRooted
<1>17. WalksExpandAll'
    <2> SUFFICES ASSUME NEW b \in Attr, NEW p \in visited'[b] \ Range(stack'[b])
                 PROVE  p \in answered /\ references[p] \subseteq visited'[b]
        BY <1>9 DEF WalksExpandAll
    <2>1. CASE b = a
        <3>1. p \in visited[a] /\ p \notin Range(Front(stack[a]))
            BY <1>1, <1>3, <1>8, <1>9, <2>1
        <3>2. visited'[a] = visited[a] \cup fresh
            BY <1>1, <1>3, <1>9
        <3>3. CASE p = node
            BY <1>2, <1>5, <2>1, <3>2, <3>3
        <3>4. CASE p # node
            BY <1>1, <1>4, <2>1, <3>1, <3>2, <3>4 DEF IInv, WalksExpandAll
        <3> QED BY <3>3, <3>4
    <2>2. CASE b # a
        <3>1. visited'[b] = visited[b] /\ stack'[b] = stack[b]
            BY <1>3, <1>6, <1>9, <2>2
        <3> QED BY <3>1 DEF IInv, WalksExpandAll
    <2> QED BY <2>1, <2>2
<1>18. WalksStayInClosure'
    <2>1. \A p \in fresh : p \in Reach(references, DrvOf[a])
        <3>1. node \in Reach(references, DrvOf[a]) /\ DrvOf[a] \in Path
            BY <1>1, <1>11, EdgeAssumption DEF IInv, WalksStayInClosure
        <3> QED BY <1>5, <3>1, ReachStep
    <2>2. \A b \in Attr : visited'[b] \subseteq Reach(references, DrvOf[b])
        BY <1>3, <1>9, <2>1 DEF IInv, WalksStayInClosure
    <2> QED BY <1>9, <2>2 DEF WalksStayInClosure, Reach, Closed
<1>19. ReachersAreKnown'
    <2> SUFFICES ASSUME NEW p \in Path
                 PROVE  reachedBy'[p] = {b \in Attr : p \in visited'[b]}
        BY DEF ReachersAreKnown
    <2>1. \A b \in Attr : p \in visited'[b] <=> p \in visited[b] \/ (b = a /\ p \in fresh)
        BY <1>1, <1>3, <1>9
    <2>2. reachedBy[p] = {b \in Attr : p \in visited[b]}
        BY DEF IInv, ReachersAreKnown
    <2> QED BY <1>1, <1>9, <2>1, <2>2
<1>20. AnswersAreTrue' /\ QuestionsHaveWalks'
    BY <1>9 DEF IInv, AnswersAreTrue, QuestionsHaveWalks
<1>21. EdgesAreKnown'
    <2>1. \A x, y : <<x, y>> \in edges \cup reported <=>
                        /\ x \in Registered /\ y \in Registered
                        /\ x # y /\ DrvOf[y] \in visited[x]
        BY DEF IInv, EdgesAreKnown
    <2>2. \A x \in Registered : \A y :
              DrvOf[y] \in visited'[x] <=>
                  DrvOf[y] \in visited[x] \/ (x = a /\ DrvOf[y] \in fresh)
        BY <1>3, <1>9, <1>12
    <2>3. \A x, y : <<x, y>> \in edges' \cup reported' <=>
                        /\ x \in Registered /\ y \in Registered
                        /\ x # y /\ DrvOf[y] \in visited'[x]
        BY <1>1, <1>9, <1>13, <2>1, <2>2
    <2>4. edges' \cup reported' \subseteq Attr \X Attr
        BY <1>14 DEF TypeOK
    <2>5. edges' \cup reported' = {e \in Registered \X Registered :
                                      e[1] # e[2] /\ DrvOf[e[2]] \in visited'[e[1]]}
        BY <1>12, <2>3, <2>4
    <2> QED BY <1>10, <2>5 DEF EdgesAreKnown
<1>22. EdgesAreNew'
    <2>1. \A e \in EdgesTo(a, fresh) : e \notin reported
        <3> SUFFICES ASSUME NEW e \in EdgesTo(a, fresh), e \in reported PROVE FALSE
            OBVIOUS
        <3>1. e = <<a, e[2]>> /\ DrvOf[e[2]] \in fresh
            BY <1>13 DEF EdgesTo
        <3>2. DrvOf[e[2]] \in visited[a]
            BY <3>1 DEF IInv, EdgesAreKnown
        <3> QED BY <1>5, <3>1, <3>2
    <2> QED BY <1>9, <2>1 DEF IInv, EdgesAreNew
<1>23. CallsFinish'
    <2>1. ~idle /\ idle' = idle
        BY <1>9 DEF Expand, idle
    <2>2. ASSUME NEW i \in DOMAIN outputs, i < cursor
          PROVE  Standing(outputs[i])'
        <3>1. outputs[i] # a /\ outputs[i] \in Attr
            <4>1. outputs[i] \in Attr /\ i # cursor /\ cursor \in DOMAIN outputs
                BY <1>1, <2>2 DEF IInv, TypeOK
            <4>2. outputs[i] # outputs[cursor]
                BY <4>1 DEF IInv, NamesAgree
            <4> QED BY <1>1, <4>1, <4>2
        <3>2. stack'[outputs[i]] = stack[outputs[i]]
            BY <1>3, <1>6, <3>1
        <3>3. Standing(outputs[i])
            BY <2>2 DEF IInv, CallsFinish
        <3> QED BY <1>9, <3>2, <3>3 DEF Standing
    <2> QED BY <1>9, <2>1, <2>2 DEF CallsFinish
<1> QED BY <1>14, <1>15, <1>16, <1>17, <1>18, <1>19, <1>20, <1>21, <1>22, <1>23 DEF IInv

\* Moving on to the next walk.
LEMMA NextWalkPreserves ==
    ASSUME IInv, NextWalk
    PROVE  IInv'
<1> USE DEF NextWalk
<1>1. cursor \in 1..Len(outputs) /\ cursor' = cursor + 1 /\ Len(outputs) \in Nat
      /\ DOMAIN outputs = 1..Len(outputs)
    BY DEF IInv, TypeOK, idle
<1>2. TypeOK'
    BY <1>1 DEF IInv, TypeOK
<1>3. NamesAgree' /\ WalksAreRooted' /\ WalksExpandAll' /\ WalksStayInClosure'
    BY DEF IInv, NamesAgree, WalksAreRooted, WalksExpandAll, WalksStayInClosure,
           Registered, Reach, Closed, Range
<1>4. /\ ReachersAreKnown' /\ AnswersAreTrue' /\ QuestionsHaveWalks'
      /\ EdgesAreKnown' /\ EdgesAreNew'
    BY DEF IInv, ReachersAreKnown, AnswersAreTrue, QuestionsHaveWalks, EdgesAreKnown,
           EdgesAreNew, Registered
<1>5. CallsFinish'
    <2>1. ~idle /\ ~idle'
        BY <1>1 DEF idle
    <2>2. \A i \in DOMAIN outputs : i < cursor' => Standing(outputs[i])
        BY <1>1 DEF IInv, CallsFinish, walking
    <2> QED BY <2>1, <2>2 DEF CallsFinish, Standing
<1> QED BY <1>2, <1>3, <1>4, <1>5 DEF IInv

\* When the last walk stands still they all do, and the call's edges are out.
LEMMA ReturnPreserves ==
    ASSUME IInv, Return
    PROVE  IInv'
<1> USE DEF Return
<1>1. cursor = Len(outputs) /\ Len(outputs) \in Nat /\ cursor' = 0
      /\ DOMAIN outputs = 1..Len(outputs)
    BY DEF IInv, TypeOK, idle
<1>2. TypeOK'
    BY <1>1 DEF IInv, TypeOK
<1>3. NamesAgree' /\ WalksAreRooted' /\ WalksExpandAll' /\ WalksStayInClosure'
    BY DEF IInv, NamesAgree, WalksAreRooted, WalksExpandAll, WalksStayInClosure,
           Registered, Reach, Closed, Range
<1>4. ReachersAreKnown' /\ AnswersAreTrue' /\ QuestionsHaveWalks'
    BY DEF IInv, ReachersAreKnown, AnswersAreTrue, QuestionsHaveWalks
<1>5. EdgesAreKnown' /\ EdgesAreNew'
    <2>1. edges' \cup reported' = edges \cup reported /\ edges' = {}
        OBVIOUS
    <2> QED BY <2>1 DEF IInv, EdgesAreKnown, EdgesAreNew, Registered
<1>6. CallsFinish'
    <2>1. \A i \in DOMAIN outputs : Standing(outputs[i])
        BY <1>1 DEF IInv, CallsFinish, walking
    <2> QED BY <2>1 DEF CallsFinish, Standing
<1> QED BY <1>2, <1>3, <1>4, <1>5, <1>6 DEF IInv

\* A question marks its path as asked.
LEMMA NextQueryPreserves ==
    ASSUME IInv, NextQuery
    PROVE  IInv'
<1> USE DEF NextQuery
<1>1. PICK i \in DOMAIN outputs :
          /\ stack[outputs[i]] # <<>>
          /\ Last(stack[outputs[i]]) \notin answered \cup outstanding
          /\ outstanding' = outstanding \cup {Last(stack[outputs[i]])}
    BY DEF Askable
<1>2. outputs[i] \in Attr /\ stack[outputs[i]] \in Seq(Path) /\ outputs # <<>>
    BY DEF IInv, TypeOK
<1>3. Last(stack[outputs[i]]) \in Path
    BY <1>1, <1>2, TopAndRest
<1>4. TypeOK'
    BY <1>1, <1>3 DEF IInv, TypeOK
<1>5. NamesAgree' /\ WalksAreRooted' /\ WalksExpandAll' /\ WalksStayInClosure'
    BY DEF IInv, NamesAgree, WalksAreRooted, WalksExpandAll, WalksStayInClosure,
           Registered, Reach, Closed, Range
<1>6. ReachersAreKnown' /\ EdgesAreKnown' /\ EdgesAreNew'
    BY DEF IInv, ReachersAreKnown, EdgesAreKnown, EdgesAreNew, Registered
<1>7. AnswersAreTrue' /\ QuestionsHaveWalks'
    BY <1>1, <1>2 DEF IInv, AnswersAreTrue, QuestionsHaveWalks
<1>8. CallsFinish'
    BY DEF IInv, CallsFinish, idle, Standing
<1> QED BY <1>4, <1>5, <1>6, <1>7, <1>8 DEF IInv

\* An answer disturbs no walk: what a walk has expanded was answered before.
LEMMA ProvideReferencesPreserves ==
    ASSUME IInv, NEW p \in Path, NEW refs \in Answers(p), ProvideReferences(p, refs)
    PROVE  IInv'
<1> USE DEF ProvideReferences, FirstWalk
<1>1. refs \subseteq store[p] /\ store \in [Path -> SUBSET Path]
    BY DEF Answers, IInv, TypeOK
<1>2. p \notin answered /\ references[p] = {} /\ outputs # <<>>
    BY DEF IInv, AnswersAreTrue, QuestionsHaveWalks
<1>3. Len(outputs) \in Nat \ {0} /\ DOMAIN outputs = 1..Len(outputs)
    BY <1>2 DEF IInv, TypeOK
<1>4. references' = [references EXCEPT ![p] = refs] /\ references \in [Path -> SUBSET Path]
    BY DEF IInv, TypeOK
<1>5. edges = {} /\ edges' = {}
    BY DEF IInv, CallsFinish
<1>6. TypeOK'
    BY <1>1, <1>3, <1>4 DEF IInv, TypeOK
<1>7. NamesAgree' /\ WalksAreRooted'
    BY DEF IInv, NamesAgree, WalksAreRooted, Registered, Range
<1>8. WalksExpandAll'
    BY <1>2, <1>4 DEF IInv, WalksExpandAll
<1>9. WalksStayInClosure'
    <2>1. \A x \in Path : references[x] \subseteq references'[x]
        BY <1>2, <1>4
    <2>2. \A a \in Attr : Reach(references, DrvOf[a]) \subseteq Reach(references', DrvOf[a])
        BY <2>1, EdgeAssumption, ReachMonotone
    <2>3. \A a \in Attr : visited'[a] \subseteq Reach(references', DrvOf[a])
        BY <2>2 DEF IInv, WalksStayInClosure
    <2> QED BY <2>3 DEF WalksStayInClosure, Reach, Closed
<1>10. ReachersAreKnown' /\ QuestionsHaveWalks'
    BY <1>2 DEF IInv, ReachersAreKnown, QuestionsHaveWalks
<1>11. AnswersAreTrue'
    BY <1>1, <1>4 DEF IInv, AnswersAreTrue
<1>12. EdgesAreKnown' /\ EdgesAreNew'
    BY <1>5 DEF IInv, EdgesAreKnown, EdgesAreNew, Registered
<1>13. CallsFinish'
    BY <1>3, <1>5 DEF CallsFinish, idle
<1> QED BY <1>6, <1>7, <1>8, <1>9, <1>10, <1>11, <1>12, <1>13 DEF IInv

LEMMA StepPreserves == IInv /\ [Next]_vars => IInv'
<1> SUFFICES ASSUME IInv, [Next]_vars PROVE IInv'
    OBVIOUS
<1>1. CASE \E a \in Attr : AddAlias(a) \/ AddOutput(a)
    BY <1>1, AddAliasPreserves, AddOutputPreserves
<1>2. CASE Expand
    BY <1>2, ExpandPreserves
<1>3. CASE NextWalk
    BY <1>3, NextWalkPreserves
<1>4. CASE Return
    BY <1>4, ReturnPreserves
<1>5. CASE NextQuery
    BY <1>5, NextQueryPreserves
<1>6. CASE \E p \in Path : \E refs \in Answers(p) : ProvideReferences(p, refs)
    BY <1>6, ProvideReferencesPreserves
<1>7. CASE UNCHANGED vars
    <2> USE <1>7 DEF vars
    <2>1. TypeOK' /\ NamesAgree' /\ WalksAreRooted' /\ WalksExpandAll'
        BY DEF IInv, TypeOK, NamesAgree, WalksAreRooted, WalksExpandAll, Registered, Range
    <2>2. WalksStayInClosure' /\ ReachersAreKnown' /\ AnswersAreTrue' /\ QuestionsHaveWalks'
        BY DEF IInv, WalksStayInClosure, ReachersAreKnown, AnswersAreTrue,
               QuestionsHaveWalks, Reach, Closed
    <2>3. EdgesAreKnown' /\ EdgesAreNew' /\ CallsFinish'
        BY DEF IInv, EdgesAreKnown, EdgesAreNew, CallsFinish, Registered, idle, Standing
    <2> QED BY <2>1, <2>2, <2>3 DEF IInv
<1> QED BY <1>1, <1>2, <1>3, <1>4, <1>5, <1>6, <1>7 DEF Next

\* In every reachable state the inductive invariant holds.
THEOREM Inductive == Spec => []IInv
BY InitEstablishes, StepPreserves, PTL DEF Spec

-----------------------------------------------------------------------------
(* The properties, each a consequence of the invariant. *)

\* The vectors, maps and sets of EdgeDiscovery (src/pure.hh) always hold
\* values of their types, and the drain loop never runs past the last walk.
THEOREM TypeCorrect == Spec => []TypeOK
<1>1. IInv => TypeOK
    BY DEF IInv
<1> QED BY <1>1, Inductive, PTL

LEMMA RegisteredAreAttributes ==
    ASSUME IInv
    PROVE  Registered \subseteq Attr
BY RangeOfSeq DEF IInv, TypeOK, Registered

\* A walk that has run dry has seen its output's whole closure, and the store
\* has answered about all of it.
LEMMA DryWalk ==
    ASSUME IInv, NEW a \in Registered, stack[a] = <<>>
    PROVE  visited[a] = Reach(references, DrvOf[a]) /\ visited[a] \subseteq answered
<1>1. a \in Attr /\ DrvOf[a] \in Path
    BY RegisteredAreAttributes, EdgeAssumption
<1>2. Range(stack[a]) = {}
    BY DEF Range
<1>3. Closed(references, visited[a]) /\ visited[a] \subseteq answered
    BY <1>1, <1>2 DEF Closed, IInv, WalksExpandAll
<1>4. DrvOf[a] \in visited[a] /\ visited[a] \in SUBSET Path
    BY <1>1 DEF IInv, TypeOK, WalksAreRooted
<1>5. Reach(references, DrvOf[a]) \subseteq visited[a]
    BY <1>1, <1>3, <1>4, ReachLeast
<1> QED BY <1>1, <1>3, <1>5 DEF IInv, WalksStayInClosure

\* Every edge addOutput or provideReferences reports is true of the store:
\* the second output's derivation lies in the first's closure, and no output
\* is reported to depend on itself.
THEOREM EdgesTrue == Spec => []EdgesAreTrue
<1>1. IInv => EdgesAreTrue
    <2> SUFFICES ASSUME IInv, NEW e \in reported \cup edges
                 PROVE  e[1] # e[2] /\ DrvOf[e[2]] \in Reach(store, DrvOf[e[1]])
        BY DEF EdgesAreTrue
    <2>1. /\ e[1] \in Registered /\ e[1] # e[2]
          /\ DrvOf[e[2]] \in visited[e[1]]
        BY DEF IInv, EdgesAreKnown
    <2>2. e[1] \in Attr /\ DrvOf[e[1]] \in Path
        BY <2>1, RegisteredAreAttributes, EdgeAssumption
    <2>3. Reach(references, DrvOf[e[1]]) \subseteq Reach(store, DrvOf[e[1]])
        BY <2>2, ReachMonotone DEF IInv, AnswersAreTrue
    <2> QED BY <2>1, <2>2, <2>3 DEF IInv, WalksStayInClosure
<1> QED BY <1>1, Inductive, PTL

\* Between calls, an edge has been reported if and only if the walk of its
\* first output has seen the derivation of its second: nothing both ends of
\* which are known is held back.
THEOREM EdgesEager == Spec => []EdgesAreEager
<1>1. IInv => EdgesAreEager
    <2> SUFFICES ASSUME IInv, idle, NEW a \in Registered, NEW b \in Registered, a # b
                 PROVE  <<a, b>> \in reported <=> DrvOf[b] \in visited[a]
        BY DEF EdgesAreEager
    <2>1. edges = {}
        BY DEF IInv, CallsFinish
    <2> QED BY <2>1 DEF IInv, EdgesAreKnown
<1> QED BY <1>1, Inductive, PTL

\* No call of addOutput or provideReferences returns an edge twice.
THEOREM EdgesNew == Spec => []EdgesAreNew
<1>1. IInv => EdgesAreNew
    BY DEF IInv
<1> QED BY <1>1, Inductive, PTL

\* When done() says that every walk has run dry, the edges reported are the
\* ones outputDependenciesFor finds by walking every closure from scratch.
THEOREM EdgesComplete == Spec => []EdgesAreComplete
<1>1. IInv => EdgesAreComplete
    <2> SUFFICES ASSUME IInv, idle, Done, NEW a \in Registered, NEW b \in Registered
                 PROVE  <<a, b>> \in reported <=> b \in OutputDependenciesFor(references, a)
        BY DEF EdgesAreComplete
    <2>1. edges = {} /\ a \in Attr /\ b \in Attr /\ DrvOf[a] \in Path
        BY RegisteredAreAttributes, EdgeAssumption DEF IInv, CallsFinish
    <2>2. <<a, b>> \in reported <=> a # b /\ DrvOf[b] \in visited[a]
        BY <2>1 DEF IInv, EdgesAreKnown
    <2>3. visited[a] = Reach(references, DrvOf[a])
        BY DryWalk DEF Done
    <2> QED BY <2>2, <2>3 DEF OutputDependenciesFor
<1> QED BY <1>1, Inductive, PTL

\* As long as some walk has not run dry and no answer is due, nextQuery has a
\* question to ask, so the coordinator's loop until done() never spins.
THEOREM WalkNeverStuck == Spec => []NeverStuck
<1>1. IInv => NeverStuck
    <2> SUFFICES ASSUME IInv, idle, ~Done, outstanding = {}
                 PROVE  Askable # {}
        BY DEF NeverStuck
    <2>1. PICK i \in DOMAIN outputs : stack[outputs[i]] # <<>>
        BY DEF Done, Registered, Range
    <2>2. Last(stack[outputs[i]]) \notin answered
        BY <2>1 DEF IInv, CallsFinish, Standing
    <2> QED BY <2>1, <2>2 DEF Askable
<1> QED BY <1>1, Inductive, PTL

-----------------------------------------------------------------------------
(* The refinement of EdgeReporting *)

\* The abstract specification reaches through the references as the walks do.
LEMMA SameReach ==
    \A p : Reporting!Reach(p) = Reach(references, p)
BY DEF Reporting!Reach, Reporting!Closed, Reach, Closed

\* What is reported follows from what is known, and is all of it once every
\* walk has run dry.
LEMMA ReportsAreConsistent == IInv => Reporting!Consistent
<1> SUFFICES ASSUME IInv PROVE Reporting!Consistent
    OBVIOUS
<1>1. reported \subseteq Reporting!Edges
    <2> SUFFICES ASSUME NEW e \in reported PROVE e \in Reporting!Edges
        OBVIOUS
    <2>1. /\ e \in Registered \X Registered /\ e[1] # e[2]
          /\ DrvOf[e[2]] \in visited[e[1]]
        BY DEF IInv, EdgesAreKnown
    <2>2. e[1] \in Attr
        BY <2>1, RegisteredAreAttributes
    <2>3. DrvOf[e[2]] \in Reach(references, DrvOf[e[1]])
        BY <2>1, <2>2 DEF IInv, WalksStayInClosure
    <2> QED BY <2>1, <2>3, SameReach DEF Reporting!Edges
<1>2. ASSUME idle, Done
      PROVE  /\ Reporting!Edges \subseteq reported
             /\ \A a \in Registered : Reporting!Reach(DrvOf[a]) \subseteq answered
    <2>1. \A a \in Registered :
              visited[a] = Reach(references, DrvOf[a]) /\ visited[a] \subseteq answered
        BY <1>2, DryWalk DEF Done
    <2>2. ASSUME NEW e \in Reporting!Edges
          PROVE  e \in reported
        <3>1. /\ e \in Registered \X Registered /\ e[1] # e[2]
              /\ DrvOf[e[2]] \in visited[e[1]]
            BY <2>1, <2>2, SameReach DEF Reporting!Edges
        <3>2. edges = {}
            BY <1>2 DEF IInv, CallsFinish
        <3> QED BY <3>1, <3>2 DEF IInv, EdgesAreKnown
    <2> QED BY <2>1, <2>2, SameReach
<1> QED BY <1>1, <1>2 DEF Reporting!Consistent

LEMMA InitIsReporting == Init => Reporting!Init
BY DEF Init, Reporting!Init, Registered, Range, idle, Done

\* A new name is a discovery, an answer is learned, a call that returns
\* reports, and every other step is a stutter.
LEMMA StepIsReporting ==
    ASSUME IInv, Reporting!Consistent', [Next]_vars
    PROVE  [Reporting!Next]_(Reporting!vars)
<1> USE DEF Reporting!vars
<1>a. (idle /\ Done)' \in BOOLEAN
    BY DEF idle, Done
<1>1. ASSUME NEW a \in Attr, AddAlias(a)
      PROVE  UNCHANGED Reporting!vars
    BY <1>1 DEF AddAlias, Registered, idle, Done
<1>2. ASSUME NEW a \in Attr, AddOutput(a)
      PROVE  Reporting!Discover
    <2>1. outputs' = Append(outputs, a) /\ outputOf[DrvOf[a]] = NoOutput
        BY <1>2 DEF AddOutput, IsAlias
    <2>2. outputs \in Seq(Attr)
        BY DEF IInv, TypeOK
    <2>3. Registered' = Registered \cup {a}
        BY <2>1, <2>2, RangeOfAppend DEF Registered
    <2>4. a \notin Registered
        BY <2>1, EdgeAssumption DEF IInv, NamesAgree
    <2>5. UNCHANGED <<answered, references, reported>>
        BY <1>2 DEF AddOutput
    <2>6. a \in Attr \ Registered
        BY <2>4
    <2> QED BY <2>3, <2>5, <2>6 DEF Reporting!Discover
<1>3. ASSUME Expand \/ NextWalk
      PROVE  UNCHANGED Reporting!vars
    <2>1. UNCHANGED <<outputs, answered, references, reported>> /\ ~idle
        BY <1>3 DEF Expand, NextWalk
    <2>2. ~idle'
        BY <1>3, <2>1 DEF Expand, NextWalk, idle, IInv, TypeOK
    <2> QED BY <2>1, <2>2 DEF Registered
<1>4. CASE Return
    <2>1. reported \subseteq reported' /\ UNCHANGED <<outputs, answered, references>>
        BY <1>4 DEF Return
    <2>2. Reporting!Report
        BY <2>1 DEF Reporting!Report, Registered
    <2> QED BY <1>a, <2>2 DEF Reporting!Next
<1>5. CASE NextQuery
    BY <1>5 DEF NextQuery, Registered, idle, Done
<1>6. ASSUME NEW p \in Path, NEW refs \in Answers(p), ProvideReferences(p, refs)
      PROVE  Reporting!Learn
    <2>1. refs \in SUBSET Path
        BY DEF Answers, IInv, TypeOK
    <2>2. p \in Path \ answered
        BY <1>6 DEF ProvideReferences, IInv, AnswersAreTrue
    <2>3. /\ answered' = answered \cup {p}
          /\ references' = [references EXCEPT ![p] = refs]
          /\ UNCHANGED <<outputs, reported>>
        BY <1>6 DEF ProvideReferences
    <2> QED BY <2>1, <2>2, <2>3 DEF Reporting!Learn, Registered
<1>7. CASE UNCHANGED vars
    BY <1>7 DEF vars, Registered, idle, Done
<1> QED BY <1>a, <1>1, <1>2, <1>3, <1>4, <1>5, <1>6, <1>7 DEF Next, Reporting!Next

\* The class, with its walks, stacks and pending questions, implements what it
\* promises (src/pure.hh): edges are reported only once they follow from what is
\* known, for good, and when done() says so nothing is left to ask or to report.
THEOREM EdgesImplementReporting == Spec => ImplementsReporting
<1>1. Init => Reporting!Init
    BY InitIsReporting
<1>2. IInv => Reporting!Consistent
    BY ReportsAreConsistent
<1>3. IInv /\ Reporting!Consistent' /\ [Next]_vars => [Reporting!Next]_(Reporting!vars)
    BY StepIsReporting
<1> QED BY <1>1, <1>2, <1>3, Inductive, PTL DEF Spec, ImplementsReporting, Reporting!Spec
=============================================================================
