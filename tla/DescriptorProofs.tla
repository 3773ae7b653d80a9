-------------------------- MODULE DescriptorProofs --------------------------
(***************************************************************************)
(* What is proved of Descriptors, for every number of workers, forks and   *)
(* failures, and whichever descriptor numbers there are.                   *)
(***************************************************************************)
EXTENDS Descriptors, InductionFacts

-----------------------------------------------------------------------------
(* The inductive invariant *)

\* A slot has both numbers or neither, and numbers only of a worker; and which
\* slots have them follows from where the coordinator is.
SlotsAreInStep ==
    /\ \A s \in Slot : /\ slots[s].toChild = None <=> slots[s].fromChild = None
                       /\ slots[s].pid = None => slots[s].toChild = None
                       /\ s > pool => slots[s] = Empty
    /\ pc = "loop" => \A s \in 1..pool : slots[s].toChild # None
    /\ pc \in {"restart", "death"} =>
           /\ at \in 1..pool
           /\ \A s \in 1..pool : slots[s].toChild = None <=> s = at
    /\ pc = "unwind" => at > 0 /\ \A s \in Slot : s < at => slots[s] = Empty
    /\ pc = "exited" => \A s \in Slot : slots[s] = Empty

\* A worker that has been forked is in one slot at most, and no other is in any.
SlotsAreOfWorkers ==
    /\ \A s \in Slot : slots[s].pid # None => child[slots[s].pid] # "none"
    /\ \A s, t \in Slot : slots[s].pid = slots[t].pid /\ slots[s].pid # None => s = t

\* The numbers in a slot are those of its worker's pipes, and every number that
\* is in use is in a slot.
NumbersAreRight ==
    \A s \in Slot : slots[s].toChild # None =>
        /\ table[0][slots[s].toChild] = Side(slots[s].pid, "toChild", "write")
        /\ table[0][slots[s].fromChild] = Side(slots[s].pid, "fromChild", "read")

NumbersAreKept ==
    \A d \in Descriptor : table[0][d] # None => \E s \in Slot : d \in Stale(s)

\* A child that has yet to close what it was told to will be left with its own.
ChildWillHoldItsOwn ==
    \A k \in Pid : child[k] \in {"forked", "armed"} =>
        {table[k][d] : d \in Descriptor \ toClose[k]} \ {None} = ChildsEnds(k)

\* Who is not there holds nothing, and only a worker can answer on its pipe.
TheGoneHoldNothing ==
    \A k \in Pid : child[k] \in {"none", "dead", "reaped"} => table[k] = Nothing
AnswersAreOnesOwn ==
    \A k, i \in Pid : \A d \in Descriptor :
        table[k][d] = Side(i, "fromChild", "write") => i = k

IInv ==
    /\ TypeOK
    /\ SlotsAreInStep
    /\ SlotsAreOfWorkers
    /\ NumbersAreRight
    /\ NumbersAreKept
    /\ ChildWillHoldItsOwn
    /\ RunningHoldsItsOwn
    /\ TheGoneHoldNothing
    /\ AnswersAreOnesOwn
    /\ NoOrphan

-----------------------------------------------------------------------------
(* pipe *)

Table == [Descriptor -> End \cup {None}]
Free(t) == {d \in Descriptor : t[d] = None}

LEMMA Sides ==
    ASSUME NEW k \in Pid, NEW pipe \in {"toChild", "fromChild"},
           NEW side \in {"read", "write"}
    PROVE  /\ Side(k, pipe, side) \in End /\ Side(k, pipe, side) # None
           /\ Side(k, pipe, side).of = k
           /\ Side(k, pipe, side).pipe = pipe /\ Side(k, pipe, side).side = side
<1>1. Side(k, pipe, side) \in End
    BY DEF Side, End
<1> QED BY <1>1, NoneAssumption DEF Side

\* With a number free, an end gets the lowest.
LEMMA EndOpened ==
    ASSUME NEW t \in Table, NEW end \in End, Cardinality(Free(t)) > 0
    PROVE  /\ Lowest(t) \in Free(t)
           /\ Open(t, end) \in Table
           /\ \A d \in Descriptor : Open(t, end)[d] = IF d = Lowest(t) THEN end ELSE t[d]
           /\ Cardinality(Free(Open(t, end))) = Cardinality(Free(t)) - 1
<1>1. /\ IsFiniteSet(Free(t)) /\ Cardinality(Free(t)) \in Nat
      /\ Free(t) \in SUBSET Nat
    BY FS_Subset, FS_CardinalityType, DescriptorsAssumption DEF Free
<1>2. Free(t) # {}
    BY FS_EmptySet
<1>3. Lowest(t) \in Free(t)
    <2>1. \E low \in Free(t) : \A d \in Free(t) : low <= d
        BY <1>1, <1>2, LeastNumber
    <2> QED BY <2>1 DEF Lowest, Min, Free
<1>4. Open(t, end) \in Table
    BY DEF Open, Table
<1>5. \A d \in Descriptor : Open(t, end)[d] = IF d = Lowest(t) THEN end ELSE t[d]
    BY <1>3 DEF Open, Table, Free
<1>6. Free(Open(t, end)) = Free(t) \ {Lowest(t)}
    BY <1>3, <1>5, NoneAssumption DEF Free
<1>7. Cardinality(Free(t) \ {Lowest(t)}) = Cardinality(Free(t)) - 1
    BY <1>1, <1>3, FS_RemoveElement
<1> QED BY <1>3, <1>4, <1>5, <1>6, <1>7

\* With two numbers free, a pipe gets two.
LEMMA PipeOpened ==
    ASSUME NEW t \in Table, NEW k \in Pid, NEW pipe \in {"toChild", "fromChild"},
           Cardinality(Free(t)) \in Nat, Cardinality(Free(t)) >= 2
    PROVE  /\ OpenPipe(t, k, pipe) \in Table
           /\ Cardinality(Free(OpenPipe(t, k, pipe))) = Cardinality(Free(t)) - 2
           /\ \E r, w \in Free(t) :
                  /\ r # w
                  /\ \A d \in Descriptor : OpenPipe(t, k, pipe)[d] =
                         IF d = r THEN Side(k, pipe, "read")
                         ELSE IF d = w THEN Side(k, pipe, "write") ELSE t[d]
<1> DEFINE re == Side(k, pipe, "read")
           we == Side(k, pipe, "write")
           half == Open(t, re)
           both == Open(half, we)
<1>1. re \in End /\ we \in End /\ re # None
    BY Sides
<1> HIDE DEF re, we
<1>2. /\ Lowest(t) \in Free(t) /\ half \in Table
      /\ \A d \in Descriptor : half[d] = IF d = Lowest(t) THEN re ELSE t[d]
      /\ Cardinality(Free(half)) = Cardinality(Free(t)) - 1
    BY <1>1, EndOpened
<1> HIDE DEF half
<1>3. Cardinality(Free(half)) > 0
    BY <1>2
<1>4. /\ Lowest(half) \in Free(half) /\ both \in Table
      /\ \A d \in Descriptor : both[d] = IF d = Lowest(half) THEN we ELSE half[d]
      /\ Cardinality(Free(both)) = Cardinality(Free(half)) - 1
    BY <1>1, <1>2, <1>3, EndOpened
<1> HIDE DEF both
<1>5. Lowest(half) \in Free(t) /\ Lowest(half) # Lowest(t)
    BY <1>1, <1>2, <1>4 DEF Free
<1>6. \A d \in Descriptor : both[d] =
          IF d = Lowest(t) THEN re ELSE IF d = Lowest(half) THEN we ELSE t[d]
    BY <1>2, <1>4, <1>5
<1>7. both = OpenPipe(t, k, pipe)
    BY DEF both, half, re, we, OpenPipe
<1>8. Cardinality(Free(both)) = Cardinality(Free(t)) - 2
    BY <1>2, <1>4
<1>9. \E r, w \in Free(t) :
          /\ r # w
          /\ \A d \in Descriptor : both[d] = IF d = r THEN re ELSE IF d = w THEN we ELSE t[d]
    BY <1>2, <1>5, <1>6
<1> QED BY <1>4, <1>7, <1>8, <1>9 DEF re, we

\* With four numbers free, the pipes of a worker get one each for their ends.
BothPipes(t, k) == OpenPipe(OpenPipe(t, k, "toChild"), k, "fromChild")

LEMMA PipesOpened ==
    ASSUME NEW t \in Table, NEW k \in Pid, Cardinality(Free(t)) >= 4
    PROVE  /\ BothPipes(t, k) \in Table
           /\ \E a, b, c, e \in Free(t) :
                  /\ a # b /\ c # e /\ {a, b} \cap {c, e} = {}
                  /\ \A d \in Descriptor : BothPipes(t, k)[d] =
                         IF d = a THEN Side(k, "toChild", "read")
                         ELSE IF d = b THEN Side(k, "toChild", "write")
                         ELSE IF d = c THEN Side(k, "fromChild", "read")
                         ELSE IF d = e THEN Side(k, "fromChild", "write") ELSE t[d]
<1> DEFINE one == OpenPipe(t, k, "toChild")
           both == OpenPipe(one, k, "fromChild")
<1>1. Cardinality(Free(t)) \in Nat
    BY FS_Subset, FS_CardinalityType, DescriptorsAssumption DEF Free
<1>2. /\ one \in Table /\ Cardinality(Free(one)) = Cardinality(Free(t)) - 2
      /\ \E r, w \in Free(t) :
             /\ r # w
             /\ \A d \in Descriptor : one[d] =
                    IF d = r THEN Side(k, "toChild", "read")
                    ELSE IF d = w THEN Side(k, "toChild", "write") ELSE t[d]
    BY <1>1, PipeOpened
<1> HIDE DEF one
<1>3. PICK a, b \in Free(t) :
          /\ a # b
          /\ \A d \in Descriptor : one[d] =
                 IF d = a THEN Side(k, "toChild", "read")
                 ELSE IF d = b THEN Side(k, "toChild", "write") ELSE t[d]
    BY <1>2
<1>4. Cardinality(Free(one)) \in Nat /\ Cardinality(Free(one)) >= 2
    BY <1>1, <1>2
<1>5. /\ both \in Table
      /\ \E r, w \in Free(one) :
             /\ r # w
             /\ \A d \in Descriptor : both[d] =
                    IF d = r THEN Side(k, "fromChild", "read")
                    ELSE IF d = w THEN Side(k, "fromChild", "write") ELSE one[d]
    BY <1>2, <1>4, PipeOpened
<1> HIDE DEF both
<1>6. PICK c, e \in Free(one) :
          /\ c # e
          /\ \A d \in Descriptor : both[d] =
                 IF d = c THEN Side(k, "fromChild", "read")
                 ELSE IF d = e THEN Side(k, "fromChild", "write") ELSE one[d]
    BY <1>5
<1>7. Side(k, "toChild", "read") # None /\ Side(k, "toChild", "write") # None
    BY Sides
<1>8. c \in Free(t) /\ e \in Free(t) /\ {a, b} \cap {c, e} = {}
    BY <1>3, <1>6, <1>7 DEF Free
<1>9. \A d \in Descriptor : both[d] =
          IF d = a THEN Side(k, "toChild", "read")
          ELSE IF d = b THEN Side(k, "toChild", "write")
          ELSE IF d = c THEN Side(k, "fromChild", "read")
          ELSE IF d = e THEN Side(k, "fromChild", "write") ELSE t[d]
    BY <1>3, <1>6, <1>8
<1>10. both = BothPipes(t, k)
    BY DEF both, one, BothPipes
<1> QED BY <1>3, <1>5, <1>6, <1>8, <1>9, <1>10

-----------------------------------------------------------------------------
(* What the coordinator holds *)

\* A number that the coordinator has in use is in the slot of a worker, and of
\* one of its pipes.
LEMMA HeldForAWorker ==
    ASSUME IInv, NEW d \in Descriptor, table[0][d] # None
    PROVE  \E s \in Slot :
              /\ slots[s].pid \in Pid /\ child[slots[s].pid] # "none"
              /\ s \in 1..pool
              /\ slots[s].toChild # None /\ slots[s].fromChild # None
              /\ \/ /\ d = slots[s].toChild
                    /\ table[0][d] = Side(slots[s].pid, "toChild", "write")
                 \/ /\ d = slots[s].fromChild
                    /\ table[0][d] = Side(slots[s].pid, "fromChild", "read")
<1>1. PICK s \in Slot : d \in Stale(s)
    BY DEF IInv, NumbersAreKept
<1>2. d \in {slots[s].toChild, slots[s].fromChild} /\ d # None
    BY <1>1 DEF Stale
<1>3. slots[s].toChild # None /\ slots[s].fromChild # None /\ slots[s].pid # None
    BY <1>2 DEF IInv, SlotsAreInStep
<1>4. slots[s].pid \in Pid /\ child[slots[s].pid] # "none"
    BY <1>3 DEF IInv, TypeOK, SlotsAreOfWorkers
<1>5. s \in 1..pool
    <2>1. ~(s > pool)
        BY <1>3 DEF IInv, SlotsAreInStep, Empty
    <2>2. pool \in Nat
        BY DescriptorsAssumption DEF IInv, TypeOK
    <2> QED BY <2>1, <2>2, DescriptorsAssumption DEF Slot
<1>6. /\ table[0][slots[s].toChild] = Side(slots[s].pid, "toChild", "write")
      /\ table[0][slots[s].fromChild] = Side(slots[s].pid, "fromChild", "read")
    BY <1>3 DEF IInv, NumbersAreRight
<1> QED BY <1>2, <1>3, <1>4, <1>5, <1>6

\* So it has nothing that belongs to a worker not forked yet.
LEMMA NothingOfTheUnborn ==
    ASSUME IInv, NEW k \in Pid, child[k] = "none",
           NEW d \in Descriptor, table[0][d] # None
    PROVE  table[0][d].of # k
<1>1. PICK s \in Slot :
          /\ slots[s].pid \in Pid /\ child[slots[s].pid] # "none"
          /\ \/ table[0][d] = Side(slots[s].pid, "toChild", "write")
             \/ table[0][d] = Side(slots[s].pid, "fromChild", "read")
    BY HeldForAWorker
<1> QED BY <1>1, Sides

LEMMA CoordinatorsTable ==
    ASSUME IInv
    PROVE  /\ 0 \in Process /\ table[0] \in Table /\ Pid \subseteq Process
           /\ \A k \in Pid : k # 0 /\ table[k] \in Table
BY DescriptorsAssumption DEF IInv, TypeOK, Table, Process, Pid

\* The pipes opened for a worker that is about to be forked: each number is a
\* free one, and each end has the one number.
LEMMA NumbersOfTheNew ==
    ASSUME IInv, NEW k \in Pid, child[k] = "none", Room
    PROVE  LET t == table[0]
               both == BothPipes(t, k)
               ours(pipe, side) == NumberOf(both, Side(k, pipe, side))
               a == ours("toChild", "write")
               b == ours("fromChild", "read")
           IN  /\ both \in Table
               /\ a \in Free(t) /\ b \in Free(t) /\ a # b
               /\ both[a] = Side(k, "toChild", "write")
               /\ both[b] = Side(k, "fromChild", "read")
               /\ \A d \in Descriptor : d \notin {a, b} =>
                      \/ both[d] \in ChildsEnds(k) /\ d \in Free(t)
                      \/ both[d] = t[d]
               /\ \E d \in Free(t) : both[d] = Side(k, "toChild", "read")
               /\ \E d \in Free(t) : both[d] = Side(k, "fromChild", "write")
               /\ \A d \in Descriptor : t[d] # None => both[d] = t[d]
<1> DEFINE t == table[0]
           both == BothPipes(t, k)
           tr == Side(k, "toChild", "read")
           tw == Side(k, "toChild", "write")
           fr == Side(k, "fromChild", "read")
           fw == Side(k, "fromChild", "write")
<1>1. t \in Table /\ Cardinality(Free(t)) >= 4
    BY CoordinatorsTable DEF Room, Free
<1>2. \A d \in Descriptor : t[d] \notin {tr, tw, fr, fw}
    BY NothingOfTheUnborn, Sides
<1>3. /\ tr # tw /\ tr # fr /\ tr # fw /\ tw # fr /\ tw # fw /\ fr # fw
      /\ ChildsEnds(k) = {tr, fw}
    BY Sides DEF ChildsEnds
<1> HIDE DEF t
<1>4. /\ both \in Table
      /\ \E a, b, c, e \in Free(t) :
             /\ a # b /\ c # e /\ {a, b} \cap {c, e} = {}
             /\ \A d \in Descriptor : both[d] =
                    IF d = a THEN tr ELSE IF d = b THEN tw
                    ELSE IF d = c THEN fr ELSE IF d = e THEN fw ELSE t[d]
    BY <1>1, PipesOpened
<1> HIDE DEF both
<1>5. PICK a, b, c, e \in Free(t) :
          /\ a # b /\ c # e /\ {a, b} \cap {c, e} = {}
          /\ \A d \in Descriptor : both[d] =
                 IF d = a THEN tr ELSE IF d = b THEN tw
                 ELSE IF d = c THEN fr ELSE IF d = e THEN fw ELSE t[d]
    BY <1>4
<1> HIDE DEF tr, tw, fr, fw
<1>6. \A d \in Descriptor : /\ both[d] = tw <=> d = b
                            /\ both[d] = fr <=> d = c
    BY <1>2, <1>3, <1>5 DEF Free
<1>7. NumberOf(both, tw) = b /\ NumberOf(both, fr) = c
    BY <1>5, <1>6 DEF NumberOf, Free
<1>8. both[a] = tr /\ both[b] = tw /\ both[c] = fr /\ both[e] = fw
    BY <1>5 DEF Free
<1>9. \A d \in Descriptor : d \notin {b, c} =>
          \/ both[d] \in ChildsEnds(k) /\ d \in Free(t)
          \/ both[d] = t[d]
    BY <1>3, <1>5
<1>10. \A d \in Descriptor : t[d] # None => both[d] = t[d]
    BY <1>5 DEF Free
<1>11. /\ both \in Table
       /\ NumberOf(both, tw) \in Free(t) /\ NumberOf(both, fr) \in Free(t)
       /\ NumberOf(both, tw) # NumberOf(both, fr)
       /\ both[NumberOf(both, tw)] = tw /\ both[NumberOf(both, fr)] = fr
       /\ \A d \in Descriptor : d \notin {NumberOf(both, tw), NumberOf(both, fr)} =>
              \/ both[d] \in ChildsEnds(k) /\ d \in Free(t)
              \/ both[d] = t[d]
       /\ \E d \in Free(t) : both[d] = tr
       /\ \E d \in Free(t) : both[d] = fw
       /\ \A d \in Descriptor : t[d] # None => both[d] = t[d]
    BY <1>4, <1>5, <1>7, <1>8, <1>9, <1>10
<1> QED BY <1>11 DEF both, t, tr, tw, fr, fw

-----------------------------------------------------------------------------
(* Forking a worker *)

\* What forkWorker does to an empty slot: the worker k gets the slot, with the
\* numbers a and b, and a copy of the coordinator's table, of which it will close
\* all but its own ends.
Forked(s, k, a, b) ==
    /\ k \in Pid /\ child[k] = "none"
    /\ a \in Free(table[0]) /\ b \in Free(table[0]) /\ a # b
    /\ child' = [child EXCEPT ![k] = "forked"]
    /\ slots' = [slots EXCEPT ![s] = [pid |-> k, toChild |-> a, fromChild |-> b]]
    /\ toClose' \in [Pid -> SUBSET Descriptor]
    /\ table' \in [Process -> Table]
    /\ \A d \in Descriptor : table'[0][d] =
           IF d = a THEN Side(k, "toChild", "write")
           ELSE IF d = b THEN Side(k, "fromChild", "read") ELSE table[0][d]
    /\ \A i \in Pid : i # k => table'[i] = table[i] /\ toClose'[i] = toClose[i]
    /\ {table'[k][d] : d \in Descriptor \ toClose'[k]} \ {None} = ChildsEnds(k)
    /\ \A d \in Descriptor : \A i \in Pid :
           table'[k][d] = Side(i, "fromChild", "write") => i = k
    /\ failures' = failures

LEMMA LiveNumbers ==
    ASSUME NEW s, NEW d
    PROVE  d \in LiveFdsExcept(s) <=>
               /\ d # None
               /\ \E o \in (1..pool) \ {s} : d \in {slots[o].toChild, slots[o].fromChild}
<1> DEFINE numbers(o) == {slots[o].toChild, slots[o].fromChild}
           all == {numbers(o) : o \in (1..pool) \ {s}}
<1>1. LiveFdsExcept(s) = (UNION all) \ {None}
    BY DEF LiveFdsExcept
<1>2. d \in UNION all <=> \E S \in all : d \in S
    OBVIOUS
<1>3. (\E S \in all : d \in S) <=> \E o \in (1..pool) \ {s} : d \in numbers(o)
    <2> HIDE DEF numbers
    <2> QED OBVIOUS
<1> HIDE DEF all
<1> QED BY <1>1, <1>2, <1>3

LEMMA ForkWorkerForks ==
    ASSUME IInv, NEW s \in Slot, slots[s] = Empty, ForkWorker(s)
    PROVE  \E k, a, b : Forked(s, k, a, b)
<1>1. Room
    BY DEF ForkWorker
<1>2. Stale(s) = {}
    BY DEF Stale, Empty
<1>3. PICK k \in Pid :
          /\ child[k] = "none"
          /\ LET both == BothPipes(table[0], k)
                 ours(pipe, side) == NumberOf(both, Side(k, pipe, side))
             IN  /\ table' = [table EXCEPT
                        ![k] = both,
                        ![0] = Close(both, Stale(s) \cup
                                     {d \in Descriptor : both[d] \in ChildsEnds(k)})]
                 /\ child' = [child EXCEPT ![k] = "forked"]
                 /\ toClose' = [toClose EXCEPT ![k] =
                        {ours("toChild", "write"), ours("fromChild", "read")}
                            \cup LiveFdsExcept(s)]
                 /\ slots' = [slots EXCEPT ![s] =
                        [pid |-> k, toChild |-> ours("toChild", "write"),
                         fromChild |-> ours("fromChild", "read")]]
                 /\ UNCHANGED failures
    BY DEF ForkWorker, BothPipes
<1> DEFINE t == table[0]
           both == BothPipes(t, k)
           a == NumberOf(both, Side(k, "toChild", "write"))
           b == NumberOf(both, Side(k, "fromChild", "read"))
           live == LiveFdsExcept(s)
           mine == {d \in Descriptor : both[d] \in ChildsEnds(k)}
<1>4. /\ table' = [table EXCEPT ![k] = both, ![0] = Close(both, Stale(s) \cup mine)]
      /\ child' = [child EXCEPT ![k] = "forked"]
      /\ toClose' = [toClose EXCEPT ![k] = {a, b} \cup live]
      /\ slots' = [slots EXCEPT ![s] = [pid |-> k, toChild |-> a, fromChild |-> b]]
      /\ failures' = failures
    BY <1>3
<1>5. /\ both \in Table
      /\ a \in Free(t) /\ b \in Free(t) /\ a # b
      /\ both[a] = Side(k, "toChild", "write")
      /\ both[b] = Side(k, "fromChild", "read")
      /\ \A d \in Descriptor : d \notin {a, b} =>
             \/ both[d] \in ChildsEnds(k) /\ d \in Free(t)
             \/ both[d] = t[d]
      /\ \E d \in Free(t) : both[d] = Side(k, "toChild", "read")
      /\ \E d \in Free(t) : both[d] = Side(k, "fromChild", "write")
      /\ \A d \in Descriptor : t[d] # None => both[d] = t[d]
    BY <1>1, <1>3, NumbersOfTheNew
<1>6. \A d \in Descriptor : t[d] # None => d \in live
    <2> TAKE d \in Descriptor
    <2> HAVE t[d] # None
    <2>1. PICK o \in Slot : o \in 1..pool /\ slots[o].toChild # None
                            /\ d \in {slots[o].toChild, slots[o].fromChild}
        BY HeldForAWorker
    <2>2. o # s
        BY <2>1 DEF Empty
    <2>3. d # None
        BY NoneAssumption, DescriptorsAssumption
    <2> QED BY <2>1, <2>2, <2>3, LiveNumbers
<1>7. \A d \in live : d \in Descriptor /\ t[d] # None
    <2> SUFFICES ASSUME NEW d \in live PROVE d \in Descriptor /\ t[d] # None
        OBVIOUS
    <2>1. PICK o \in (1..pool) \ {s} : d \in {slots[o].toChild, slots[o].fromChild} /\ d # None
        BY LiveNumbers
    <2>2. o \in Slot
        BY DescriptorsAssumption DEF IInv, TypeOK, Slot
    <2>3. slots[o].toChild # None /\ slots[o].fromChild # None /\ slots[o].pid # None
        BY <2>1, <2>2 DEF IInv, SlotsAreInStep
    <2>4. slots[o].pid \in Pid /\ slots[o].toChild \in Descriptor
          /\ slots[o].fromChild \in Descriptor
        BY <2>2, <2>3 DEF IInv, TypeOK
    <2>5. /\ t[slots[o].toChild] = Side(slots[o].pid, "toChild", "write")
          /\ t[slots[o].fromChild] = Side(slots[o].pid, "fromChild", "read")
        BY <2>2, <2>3 DEF IInv, NumbersAreRight
    <2>6. t[slots[o].toChild] # None /\ t[slots[o].fromChild] # None
        BY <2>4, <2>5, Sides
    <2> HIDE DEF live, t
    <2> QED BY <2>1, <2>4, <2>6
<1>8. /\ t \in Table /\ 0 \in Process /\ k # 0 /\ Pid \subseteq Process
      /\ table \in [Process -> Table] /\ toClose \in [Pid -> SUBSET Descriptor]
    <2>1. table \in [Process -> Table] /\ toClose \in [Pid -> SUBSET Descriptor]
        BY DEF IInv, TypeOK, Table
    <2> QED BY <2>1, CoordinatorsTable
<1>9. ChildsEnds(k) = {Side(k, "toChild", "read"), Side(k, "fromChild", "write")}
    BY DEF ChildsEnds
<1>10. \A d \in Descriptor : t[d] # None => t[d] \notin ChildsEnds(k) /\ t[d].of # k
    BY <1>3, <1>9, NothingOfTheUnborn, Sides
<1>11. /\ Side(k, "toChild", "write") \notin ChildsEnds(k)
       /\ Side(k, "fromChild", "read") \notin ChildsEnds(k)
       /\ None \notin ChildsEnds(k)
    BY <1>9, Sides
<1>12. \A d \in Descriptor : \A i \in Pid :
           t[d] = Side(i, "fromChild", "write") => FALSE
    <2> SUFFICES ASSUME NEW d \in Descriptor, NEW i \in Pid,
                        t[d] = Side(i, "fromChild", "write")
                 PROVE  FALSE
        OBVIOUS
    <2>1. t[d] # None
        BY Sides
    <2>2. PICK o \in Slot :
              /\ slots[o].pid \in Pid
              /\ \/ t[d] = Side(slots[o].pid, "toChild", "write")
                 \/ t[d] = Side(slots[o].pid, "fromChild", "read")
        BY <2>1, HeldForAWorker
    <2> QED BY <2>2, Sides
<1> HIDE DEF t, both, a, b, live
<1>13. table' \in [Process -> Table] /\ table'[k] = both
       /\ table'[0] = Close(both, mine)
       /\ \A i \in Pid : i # k => table'[i] = table[i]
    <2>1. Close(both, mine) \in Table
        BY <1>5, <1>8 DEF Close, Table
    <2>2. Stale(s) \cup mine = mine
        BY <1>2
    <2> HIDE DEF mine
    <2>3. table' = [table EXCEPT ![k] = both, ![0] = Close(both, mine)]
        BY <1>4, <2>2
    <2> DEFINE rest == Close(both, mine)
    <2> HIDE DEF rest
    <2>4. table' = [table EXCEPT ![k] = both, ![0] = rest]
        BY <2>3 DEF rest
    <2>5. rest \in Table
        BY <2>1 DEF rest
    <2>6. table' \in [Process -> Table]
        BY <1>5, <1>8, <2>4, <2>5
    <2>7. /\ table'[k] = both /\ table'[0] = rest
          /\ \A i \in Pid : i # k => table'[i] = table[i]
        <3>1. \A i \in Pid : i # 0 /\ i \in Process
            BY CoordinatorsTable
        <3> QED BY <1>8, <2>4, <3>1
    <2> QED BY <2>6, <2>7 DEF rest
<1>14. \A d \in Descriptor : table'[0][d] =
           IF d = a THEN Side(k, "toChild", "write")
           ELSE IF d = b THEN Side(k, "fromChild", "read") ELSE t[d]
    <2> TAKE d \in Descriptor
    <2>1. table'[0][d] = IF both[d] \in ChildsEnds(k) THEN None ELSE both[d]
        BY <1>13 DEF Close
    <2>2. CASE d \in {a, b}
        BY <1>5, <1>11, <2>1, <2>2
    <2>3. CASE d \notin {a, b} /\ both[d] \in ChildsEnds(k)
        <3>1. t[d] = None
            BY <1>5, <1>10, <2>3 DEF Free
        <3> QED BY <2>1, <2>3, <3>1
    <2>4. CASE d \notin {a, b} /\ both[d] \notin ChildsEnds(k)
        BY <1>5, <2>1, <2>4
    <2> QED BY <2>2, <2>3, <2>4
<1>15. toClose' \in [Pid -> SUBSET Descriptor] /\ toClose'[k] = {a, b} \cup live
       /\ \A i \in Pid : i # k => toClose'[i] = toClose[i]
    <2>1. {a, b} \cup live \subseteq Descriptor
        BY <1>5, <1>7 DEF Free
    <2> QED BY <1>4, <1>8, <2>1
<1>16. {both[d] : d \in Descriptor \ ({a, b} \cup live)} \ {None} = ChildsEnds(k)
    <2>1. ASSUME NEW d \in Descriptor, d \notin {a, b} \cup live, both[d] # None
          PROVE  both[d] \in ChildsEnds(k)
        BY <1>5, <1>6, <2>1
    <2>2. ASSUME NEW e \in ChildsEnds(k)
          PROVE  e # None /\ \E d \in Descriptor \ ({a, b} \cup live) : both[d] = e
        <3>1. PICK d \in Free(t) : both[d] = e
            BY <1>5, <1>9
        <3>2. d \in Descriptor /\ t[d] = None
            BY DEF Free
        <3>3. d \notin {a, b} /\ d \notin live
            BY <1>5, <1>7, <1>11, <3>1, <3>2
        <3> QED BY <1>11, <3>1, <3>2, <3>3
    <2> QED BY <2>1, <2>2
<1>17. \A d \in Descriptor : \A i \in Pid :
           both[d] = Side(i, "fromChild", "write") => i = k
    <2> TAKE d \in Descriptor
    <2> TAKE i \in Pid
    <2> HAVE both[d] = Side(i, "fromChild", "write")
    <2>1. both[d] # t[d]
        BY <1>12
    <2>2. both[d] \in ChildsEnds(k) \cup {Side(k, "toChild", "write"),
                                          Side(k, "fromChild", "read")}
        BY <1>5, <2>1
    <2>3. both[d].of = i /\ both[d].of = k
        BY <1>9, <2>2, Sides
    <2> QED BY <2>3
<1>18. /\ k \in Pid /\ child[k] = "none"
       /\ a \in Free(table[0]) /\ b \in Free(table[0]) /\ a # b
       /\ child' = [child EXCEPT ![k] = "forked"]
       /\ slots' = [slots EXCEPT ![s] = [pid |-> k, toChild |-> a, fromChild |-> b]]
       /\ failures' = failures
    BY <1>3, <1>4, <1>5 DEF t
<1>19. \A d \in Descriptor : table'[0][d] =
           IF d = a THEN Side(k, "toChild", "write")
           ELSE IF d = b THEN Side(k, "fromChild", "read") ELSE table[0][d]
    BY <1>14 DEF t
<1>20. {table'[k][d] : d \in Descriptor \ toClose'[k]} \ {None} = ChildsEnds(k)
    BY <1>13, <1>15, <1>16
<1>21. Forked(s, k, a, b)
    BY <1>13, <1>15, <1>17, <1>18, <1>19, <1>20 DEF Forked
<1> QED BY <1>21

-----------------------------------------------------------------------------
(* What the steps have in common *)

Types(t, c, n, sl) ==
    /\ t \in [Process -> Table] /\ c \in [Pid -> Stage]
    /\ n \in [Pid -> SUBSET Descriptor]
    /\ sl \in [Slot -> [pid: Pid \cup {None}, toChild: Descriptor \cup {None},
                        fromChild: Descriptor \cup {None}]]

LEMMA TypesOfState == ASSUME IInv PROVE Types(table, child, toClose, slots)
BY DEF IInv, TypeOK, Types, Table

ChildrenAreRight ==
    ChildWillHoldItsOwn /\ RunningHoldsItsOwn /\ TheGoneHoldNothing /\ AnswersAreOnesOwn

SlotsAreRight == SlotsAreOfWorkers /\ NumbersAreRight /\ NumbersAreKept

\* Forking keeps the children and the slots right.
LEMMA ForkKeepsSlotsRight ==
    ASSUME IInv, NEW s \in Slot, slots[s] = Empty,
           NEW k, NEW a, NEW b, Forked(s, k, a, b)
    PROVE  /\ Types(table', child', toClose', slots')
           /\ slots'[s] = [pid |-> k, toChild |-> a, fromChild |-> b]
           /\ a # None /\ b # None /\ k # None
           /\ \A o \in Slot : o # s => slots'[o] = slots[o]
           /\ SlotsAreRight'
<1>1. /\ k \in Pid /\ child[k] = "none"
      /\ a \in Descriptor /\ b \in Descriptor /\ a # b
      /\ table[0][a] = None /\ table[0][b] = None
      /\ child' = [child EXCEPT ![k] = "forked"]
      /\ slots' = [slots EXCEPT ![s] = [pid |-> k, toChild |-> a, fromChild |-> b]]
    BY DEF Forked, Free
<1>2. a # None /\ b # None /\ k # None
    BY <1>1, NoneAssumption, DescriptorsAssumption DEF Pid
<1>3. Types(table, child, toClose, slots)
    BY TypesOfState
<1>4. /\ slots'[s] = [pid |-> k, toChild |-> a, fromChild |-> b]
      /\ \A o \in Slot : o # s => slots'[o] = slots[o]
    BY <1>1, <1>3 DEF Types
<1>5. child' \in [Pid -> Stage] /\ \A i \in Pid : i # k => child'[i] = child[i]
    BY <1>1, <1>3 DEF Types, Stage
<1>6. Types(table', child', toClose', slots')
    <2>1. slots' \in [Slot -> [pid: Pid \cup {None}, toChild: Descriptor \cup {None},
                               fromChild: Descriptor \cup {None}]]
        BY <1>1, <1>3 DEF Types
    <2> QED BY <1>5, <2>1 DEF Types, Forked
<1>7. \A o \in Slot : slots[o].pid # None => slots[o].pid \in Pid /\ slots[o].pid # k
    BY <1>1, <1>3 DEF Types, IInv, SlotsAreOfWorkers
<1>8. SlotsAreOfWorkers'
    <2>1. child'[k] = "forked"
        BY <1>1, <1>3 DEF Types
    <2>2. \A o \in Slot : slots'[o].pid # None => child'[slots'[o].pid] # "none"
        BY <1>4, <1>5, <1>7, <2>1 DEF IInv, SlotsAreOfWorkers
    <2>3. \A o, q \in Slot : slots'[o].pid = slots'[q].pid /\ slots'[o].pid # None => o = q
        BY <1>4, <1>7 DEF IInv, SlotsAreOfWorkers
    <2> QED BY <2>2, <2>3 DEF SlotsAreOfWorkers
<1>9. \A d \in Descriptor : table'[0][d] =
          IF d = a THEN Side(k, "toChild", "write")
          ELSE IF d = b THEN Side(k, "fromChild", "read") ELSE table[0][d]
    BY DEF Forked
<1>10. ASSUME NEW o \in Slot, slots'[o].toChild # None
       PROVE  /\ table'[0][slots'[o].toChild] = Side(slots'[o].pid, "toChild", "write")
              /\ table'[0][slots'[o].fromChild] = Side(slots'[o].pid, "fromChild", "read")
    <2>1. CASE o = s
        BY <1>1, <1>4, <1>9, <2>1
    <2>2. CASE o # s
        <3>1. slots'[o] = slots[o] /\ slots[o].toChild # None
            BY <1>4, <1>10, <2>2
        <3>2. slots[o].fromChild # None /\ slots[o].pid # None
            BY <3>1 DEF IInv, SlotsAreInStep
        <3>3. slots[o].toChild \in Descriptor /\ slots[o].fromChild \in Descriptor
              /\ slots[o].pid \in Pid
            BY <1>3, <3>1, <3>2 DEF Types
        <3>4. /\ table[0][slots[o].toChild] = Side(slots[o].pid, "toChild", "write")
              /\ table[0][slots[o].fromChild] = Side(slots[o].pid, "fromChild", "read")
            BY <3>1 DEF IInv, NumbersAreRight
        <3>5. slots[o].toChild \notin {a, b} /\ slots[o].fromChild \notin {a, b}
            BY <1>1, <3>3, <3>4, Sides
        <3> QED BY <1>9, <3>1, <3>3, <3>4, <3>5
    <2> QED BY <2>1, <2>2
<1>11. NumbersAreRight'
    BY <1>10 DEF NumbersAreRight
<1>12. ASSUME NEW d \in Descriptor, table'[0][d] # None
       PROVE  \E o \in Slot : d \in Stale(o)'
    <2>0. d # None
        BY NoneAssumption, DescriptorsAssumption
    <2>1. CASE d \in {a, b}
        BY <1>4, <2>0, <2>1 DEF Stale
    <2>2. CASE d \notin {a, b}
        <3>1. table[0][d] # None
            BY <1>9, <1>12, <2>2
        <3>2. PICK o \in Slot : d \in Stale(o)
            BY <3>1 DEF IInv, NumbersAreKept
        <3>3. o # s
            BY <3>2 DEF Stale, Empty
        <3> QED BY <1>4, <3>2, <3>3 DEF Stale
    <2> QED BY <2>1, <2>2
<1>13. NumbersAreKept'
    BY <1>12 DEF NumbersAreKept
<1> QED BY <1>2, <1>4, <1>6, <1>8, <1>11, <1>13 DEF SlotsAreRight

LEMMA ForkKeepsChildrenRight ==
    ASSUME IInv, NEW s \in Slot, NEW k, NEW a, NEW b, Forked(s, k, a, b)
    PROVE  ChildrenAreRight'
<1>1. Types(table, child, toClose, slots) /\ k \in Pid
    BY TypesOfState DEF Forked
<1>2. child'[k] = "forked" /\ \A i \in Pid : i # k => child'[i] = child[i]
    BY <1>1 DEF Types, Forked
<1>3. \A i \in Pid : i # k => table'[i] = table[i] /\ toClose'[i] = toClose[i]
    BY DEF Forked
<1>4. {table'[k][d] : d \in Descriptor \ toClose'[k]} \ {None} = ChildsEnds(k)
    BY DEF Forked
<1>5. ChildWillHoldItsOwn'
    <2> SUFFICES ASSUME NEW i \in Pid, child'[i] \in {"forked", "armed"}
                 PROVE  {table'[i][d] : d \in Descriptor \ toClose'[i]} \ {None}
                            = ChildsEnds(i)
        BY DEF ChildWillHoldItsOwn, ChildsEnds, Side
    <2>1. CASE i = k
        BY <1>4, <2>1
    <2>2. CASE i # k
        <3>1. {table[i][d] : d \in Descriptor \ toClose[i]} \ {None} = ChildsEnds(i)
            BY <1>2, <2>2 DEF IInv, ChildWillHoldItsOwn
        <3> QED BY <1>3, <2>2, <3>1
    <2> QED BY <2>1, <2>2
<1>6. RunningHoldsItsOwn'
    BY <1>2, <1>3 DEF IInv, RunningHoldsItsOwn, Ends, Side
<1>7. TheGoneHoldNothing'
    BY <1>2, <1>3 DEF IInv, TheGoneHoldNothing, Nothing
<1>8. AnswersAreOnesOwn'
    <2>1. \A d \in Descriptor : \A i \in Pid :
              table'[k][d] = Side(i, "fromChild", "write") => i = k
        BY DEF Forked
    <2> QED BY <1>3, <2>1 DEF IInv, AnswersAreOnesOwn, Side
<1> QED BY <1>5, <1>6, <1>7, <1>8 DEF ChildrenAreRight

\* What else may become of a child: nothing; it dies; it takes the next step of
\* its life, or is waited for; or it closes what it was told to.
ChildStep(k) ==
    \/ child'[k] = child[k] /\ table'[k] = table[k] /\ toClose'[k] = toClose[k]
    \/ child'[k] = "dead" /\ table'[k] = Nothing
    \/ /\ <<child[k], child'[k]>> \in
              {<<"forked", "armed">>, <<"running", "leaving">>, <<"dead", "reaped">>}
       /\ table'[k] = table[k] /\ toClose'[k] = toClose[k]
    \/ /\ child[k] = "armed" /\ child'[k] = "running"
       /\ table'[k] = Close(table[k], toClose[k])

LEMMA ChildrenStayRight ==
    ASSUME IInv, \A k \in Pid : ChildStep(k)
    PROVE  ChildrenAreRight'
<1>0. \A d \in Descriptor : Nothing[d] = None
    BY DEF Nothing
<1>1. ASSUME NEW k \in Pid, child'[k] \in {"forked", "armed"}
      PROVE  {table'[k][d] : d \in Descriptor \ toClose'[k]} \ {None} = ChildsEnds(k)
    <2>1. /\ child[k] \in {"forked", "armed"}
          /\ table'[k] = table[k] /\ toClose'[k] = toClose[k]
        BY <1>1 DEF ChildStep
    <2>2. {table[k][d] : d \in Descriptor \ toClose[k]} \ {None} = ChildsEnds(k)
        BY <2>1 DEF IInv, ChildWillHoldItsOwn
    <2> QED BY <2>1, <2>2
<1>2. ASSUME NEW k \in Pid, child'[k] \in {"running", "leaving"}
      PROVE  {table'[k][d] : d \in Descriptor} \ {None} = ChildsEnds(k)
    <2>1. CASE child[k] \in {"running", "leaving"}
        <3>1. table'[k] = table[k]
            BY <1>2, <2>1 DEF ChildStep
        <3>2. {table[k][d] : d \in Descriptor} \ {None} = ChildsEnds(k)
            BY <2>1 DEF IInv, RunningHoldsItsOwn, Ends, ChildsEnds
        <3> QED BY <3>1, <3>2
    <2>2. CASE child[k] \notin {"running", "leaving"}
        <3>1. child[k] = "armed" /\ table'[k] = Close(table[k], toClose[k])
            BY <1>2, <2>2 DEF ChildStep
        <3>2. {table[k][d] : d \in Descriptor \ toClose[k]} \ {None} = ChildsEnds(k)
            BY <3>1 DEF IInv, ChildWillHoldItsOwn
        <3>3. \A d \in Descriptor :
                  table'[k][d] = IF d \in toClose[k] THEN None ELSE table[k][d]
            BY <3>1 DEF Close
        <3> QED BY <3>2, <3>3
    <2> QED BY <2>1, <2>2
<1>3. ASSUME NEW k \in Pid, child'[k] \in {"none", "dead", "reaped"}
      PROVE  table'[k] = Nothing
    <2>1. CASE table'[k] = Nothing
        BY <2>1
    <2>2. CASE table'[k] # Nothing
        <3>1. child[k] \in {"none", "dead", "reaped"} /\ table'[k] = table[k]
            BY <1>3, <2>2 DEF ChildStep
        <3> QED BY <3>1 DEF IInv, TheGoneHoldNothing
    <2> QED BY <2>1, <2>2
<1>4. ASSUME NEW k \in Pid, NEW i \in Pid, NEW d \in Descriptor,
             table'[k][d] = Side(i, "fromChild", "write")
      PROVE  i = k
    <2>1. Side(i, "fromChild", "write") # None
        BY Sides
    <2>2. table'[k] # Nothing
        BY <1>0, <1>4, <2>1
    <2>3. table'[k] = table[k] \/ table'[k] = Close(table[k], toClose[k])
        BY <2>2 DEF ChildStep
    <2>4. table'[k][d] \in {None, table[k][d]}
        BY <2>3 DEF Close
    <2>5. table[k][d] = Side(i, "fromChild", "write")
        BY <1>4, <2>1, <2>4
    <2> QED BY <2>5 DEF IInv, AnswersAreOnesOwn
<1>5. ChildWillHoldItsOwn'
    BY <1>1 DEF ChildWillHoldItsOwn, ChildsEnds, Side
<1>6. RunningHoldsItsOwn'
    BY <1>2 DEF RunningHoldsItsOwn, Ends, ChildsEnds, Side
<1>7. TheGoneHoldNothing'
    BY <1>3 DEF TheGoneHoldNothing, Nothing
<1>8. AnswersAreOnesOwn'
    BY <1>4 DEF AnswersAreOnesOwn, Side
<1> QED BY <1>5, <1>6, <1>7, <1>8 DEF ChildrenAreRight

\* The slots stay right while nobody touches them, and when one of them closes its
\* numbers and forgets them.
LEMMA SlotsStayRight ==
    ASSUME IInv, UNCHANGED <<slots>>, table'[0] = table[0],
           \A k \in Pid : child[k] # "none" => child'[k] # "none"
    PROVE  SlotsAreRight'
<1>1. \A s \in Slot : slots[s].pid # None => slots[s].pid \in Pid
    BY DEF IInv, TypeOK
<1>2. SlotsAreOfWorkers'
    BY <1>1 DEF IInv, SlotsAreOfWorkers
<1>3. NumbersAreRight'
    BY DEF IInv, NumbersAreRight, Side
<1>4. NumbersAreKept'
    BY DEF IInv, NumbersAreKept, Stale
<1> QED BY <1>2, <1>3, <1>4 DEF SlotsAreRight

LEMMA ClosingKeepsSlotsRight ==
    ASSUME IInv, NEW s \in Slot,
           table'[0] = Close(table[0], Stale(s)),
           slots' = [slots EXCEPT ![s] = ForgetNumbers(@)],
           \A k \in Pid : child[k] # "none" => child'[k] # "none"
    PROVE  /\ SlotsAreRight'
           /\ slots'[s] = [pid |-> slots[s].pid, toChild |-> None, fromChild |-> None]
           /\ \A o \in Slot : o # s => slots'[o] = slots[o]
           /\ slots' \in [Slot -> [pid: Pid \cup {None}, toChild: Descriptor \cup {None},
                                   fromChild: Descriptor \cup {None}]]
           /\ table'[0] \in Table
<1>1. Types(table, child, toClose, slots)
    BY TypesOfState
<1>2. /\ slots'[s] = [pid |-> slots[s].pid, toChild |-> None, fromChild |-> None]
      /\ \A o \in Slot : o # s => slots'[o] = slots[o]
      /\ slots' \in [Slot -> [pid: Pid \cup {None}, toChild: Descriptor \cup {None},
                              fromChild: Descriptor \cup {None}]]
    BY <1>1 DEF Types, ForgetNumbers, Empty
<1>3. table'[0] \in Table
    <2>1. table[0] \in Table
        BY CoordinatorsTable
    <2> QED BY <2>1 DEF Close, Table
<1>4. \A o \in Slot : slots'[o].pid = slots[o].pid
    BY <1>2
<1>5. SlotsAreOfWorkers'
    <2>1. \A o \in Slot : slots[o].pid # None => slots[o].pid \in Pid
        BY <1>1 DEF Types
    <2> QED BY <1>4, <2>1 DEF IInv, SlotsAreOfWorkers
<1>6. \A d \in Descriptor : table'[0][d] = IF d \in Stale(s) THEN None ELSE table[0][d]
    BY DEF Close
<1>7. ASSUME NEW o \in Slot, slots'[o].toChild # None
      PROVE  /\ table'[0][slots'[o].toChild] = Side(slots'[o].pid, "toChild", "write")
             /\ table'[0][slots'[o].fromChild] = Side(slots'[o].pid, "fromChild", "read")
    <2>1. o # s /\ slots'[o] = slots[o] /\ slots[o].toChild # None
        BY <1>2, <1>7
    <2>2. slots[o].fromChild # None /\ slots[o].pid # None
        BY <2>1 DEF IInv, SlotsAreInStep
    <2>3. slots[o].toChild \in Descriptor /\ slots[o].fromChild \in Descriptor
          /\ slots[o].pid \in Pid
        BY <1>1, <2>1, <2>2 DEF Types
    <2>4. /\ table[0][slots[o].toChild] = Side(slots[o].pid, "toChild", "write")
          /\ table[0][slots[o].fromChild] = Side(slots[o].pid, "fromChild", "read")
        BY <2>1 DEF IInv, NumbersAreRight
    <2>5. ASSUME NEW d \in Stale(s)
          PROVE  table[0][d] # Side(slots[o].pid, "toChild", "write")
                 /\ table[0][d] # Side(slots[o].pid, "fromChild", "read")
        <3>1. slots[s].toChild # None /\ slots[s].pid # None
              /\ d \in {slots[s].toChild, slots[s].fromChild}
            BY DEF IInv, SlotsAreInStep, Stale
        <3>2. slots[s].pid \in Pid
            BY <1>1, <3>1 DEF Types
        <3>3. table[0][d] \in {Side(slots[s].pid, "toChild", "write"),
                               Side(slots[s].pid, "fromChild", "read")}
            BY <3>1 DEF IInv, NumbersAreRight
        <3>4. slots[s].pid # slots[o].pid
            BY <2>1, <2>2 DEF IInv, SlotsAreOfWorkers
        <3> QED BY <2>3, <3>2, <3>3, <3>4, Sides
    <2>6. slots[o].toChild \notin Stale(s) /\ slots[o].fromChild \notin Stale(s)
        BY <2>4, <2>5
    <2> QED BY <1>6, <2>1, <2>3, <2>4, <2>6
<1>8. NumbersAreRight'
    BY <1>7 DEF NumbersAreRight
<1>9. ASSUME NEW d \in Descriptor, table'[0][d] # None
      PROVE  \E o \in Slot : d \in Stale(o)'
    <2>1. d \notin Stale(s) /\ table[0][d] # None
        BY <1>6, <1>9
    <2>2. PICK o \in Slot : d \in Stale(o)
        BY <2>1 DEF IInv, NumbersAreKept
    <2> QED BY <1>2, <2>1, <2>2 DEF Stale
<1>10. NumbersAreKept'
    BY <1>9 DEF NumbersAreKept
<1> QED BY <1>2, <1>3, <1>5, <1>8, <1>10 DEF SlotsAreRight

-----------------------------------------------------------------------------
(* One step *)

LEMMA InParts ==
    ASSUME TypeOK', SlotsAreInStep', SlotsAreRight', ChildrenAreRight', NoOrphan'
    PROVE  IInv'
BY DEF IInv, SlotsAreRight, ChildrenAreRight

LEMMA Numbers ==
    ASSUME IInv
    PROVE  /\ pool \in Nat /\ at \in Nat /\ pool <= MaxWorkers /\ MaxWorkers \in Nat
           /\ \A s \in Slot : s \in Nat /\ (s > pool \/ s \in 1..pool)
           /\ 1..pool \subseteq Slot
BY DescriptorsAssumption DEF IInv, TypeOK, Slot

LEMMA InitIsRight == Init => IInv
<1> SUFFICES ASSUME Init PROVE IInv
    OBVIOUS
<1> USE DescriptorsAssumption DEF Init
<1>0. \A d \in Descriptor : Nothing[d] = None
    BY DEF Nothing
<1>1. TypeOK
    <2>1. Nothing \in [Descriptor -> End \cup {None}]
        BY DEF Nothing
    <2>2. Empty \in [pid: Pid \cup {None}, toChild: Descriptor \cup {None},
                     fromChild: Descriptor \cup {None}]
        BY DEF Empty
    <2> QED BY <2>1, <2>2 DEF TypeOK, Stage
<1>2. SlotsAreInStep
    BY DEF SlotsAreInStep, Empty, Slot
<1>3. SlotsAreOfWorkers /\ NumbersAreRight
    BY DEF SlotsAreOfWorkers, NumbersAreRight, Empty
<1>4. 0 \in Process /\ Pid \subseteq Process
    BY DEF Process
<1>5. NumbersAreKept
    BY <1>0, <1>4 DEF NumbersAreKept
<1>6. ChildWillHoldItsOwn /\ RunningHoldsItsOwn /\ TheGoneHoldNothing /\ NoOrphan
    BY <1>4 DEF ChildWillHoldItsOwn, RunningHoldsItsOwn, TheGoneHoldNothing, NoOrphan, Living
<1>7. AnswersAreOnesOwn
    BY <1>0, <1>4, Sides DEF AnswersAreOnesOwn
<1> QED BY <1>1, <1>2, <1>3, <1>5, <1>6, <1>7 DEF IInv

\* A failure to fork leaves the table as it was: what was opened is closed.
LEMMA FailureClosesWhatItOpened ==
    ASSUME IInv, ForkFails
    PROVE  /\ table' = table /\ child' = child /\ toClose' = toClose /\ slots' = slots
           /\ failures' \in 0..Failures
<1>1. PICK k \in Pid :
          /\ child[k] = "none"
          /\ LET one == OpenPipe(table[0], k, "toChild")
             IN  \E opened \in {table[0], one, OpenPipe(one, k, "fromChild")} :
                     table' = [table EXCEPT ![0] = CloseOpened(opened, k)]
    BY DEF ForkFails
<1> DEFINE t == table[0]
           one == OpenPipe(t, k, "toChild")
           both == BothPipes(t, k)
<1>2. PICK opened \in {t, one, both} : table' = [table EXCEPT ![0] = CloseOpened(opened, k)]
    BY <1>1 DEF BothPipes
<1>3. t \in Table /\ Cardinality(Free(t)) >= 4 /\ Cardinality(Free(t)) \in Nat
    <2>1. Cardinality(Free(t)) \in Nat
        BY FS_Subset, FS_CardinalityType, DescriptorsAssumption DEF Free
    <2> QED BY <2>1, CoordinatorsTable DEF ForkFails, Room, Free
<1>4. \A d \in Descriptor : t[d] # None => t[d].of # k
    BY <1>1, NothingOfTheUnborn
<1> DEFINE Own(u) == /\ u \in Table
                     /\ \A d \in Descriptor : u[d] # t[d] => /\ t[d] = None
                                                              /\ u[d] # None /\ u[d].of = k
<1> HIDE DEF t
<1>5. Own(one)
    <2>1. /\ one \in Table
          /\ \E r, w \in Free(t) :
                 \A d \in Descriptor : one[d] =
                     IF d = r THEN Side(k, "toChild", "read")
                     ELSE IF d = w THEN Side(k, "toChild", "write") ELSE t[d]
        BY <1>3, PipeOpened
    <2> HIDE DEF one
    <2> QED BY <2>1, Sides DEF Free
<1>6. Own(both)
    <2>1. /\ both \in Table
          /\ \E a, b, c, e \in Free(t) :
                 \A d \in Descriptor : both[d] =
                         IF d = a THEN Side(k, "toChild", "read")
                         ELSE IF d = b THEN Side(k, "toChild", "write")
                         ELSE IF d = c THEN Side(k, "fromChild", "read")
                         ELSE IF d = e THEN Side(k, "fromChild", "write") ELSE t[d]
        BY <1>3, PipesOpened
    <2> HIDE DEF both
    <2> QED BY <2>1, Sides DEF Free
<1>7. Own(opened)
    BY <1>2, <1>3, <1>5, <1>6
<1>8. CloseOpened(opened, k) = t
    <2>1. \A d \in Descriptor :
              CloseOpened(opened, k)[d] =
                  IF opened[d] # None /\ opened[d].of = k THEN None ELSE opened[d]
        BY DEF CloseOpened, Close
    <2>2. \A d \in Descriptor : CloseOpened(opened, k)[d] = t[d]
        BY <1>4, <1>7, <2>1
    <2>3. CloseOpened(opened, k) = [d \in Descriptor |-> CloseOpened(opened, k)[d]]
        BY DEF CloseOpened, Close
    <2>4. t = [d \in Descriptor |-> t[d]]
        BY <1>3 DEF Table
    <2> QED BY <2>2, <2>3, <2>4
<1>9. table' = table
    <2>1. table \in [Process -> Table]
        BY TypesOfState DEF Types
    <2> QED BY <1>2, <1>8, <2>1 DEF t
<1>10. failures' \in 0..Failures
    BY DescriptorsAssumption DEF ForkFails, IInv, TypeOK
<1> QED BY <1>9, <1>10 DEF ForkFails

\* What a replacement leaves to be shown of the step that it is part of.
LEMMA ForkIsRight ==
    ASSUME IInv, NEW s \in Slot, slots[s] = Empty, ForkWorker(s)
    PROVE  /\ SlotsAreRight' /\ ChildrenAreRight'
           /\ Types(table', child', toClose', slots') /\ failures' \in 0..Failures
           /\ slots'[s].pid # None /\ slots'[s].toChild # None /\ slots'[s].fromChild # None
           /\ \A o \in Slot : o # s => slots'[o] = slots[o]
           /\ \A i \in Pid : child'[i] # child[i] => slots'[s].pid = i
<1>1. PICK k, a, b : Forked(s, k, a, b)
    BY ForkWorkerForks
<1>2. ChildrenAreRight'
    BY <1>1, ForkKeepsChildrenRight
<1>3. /\ Types(table', child', toClose', slots')
      /\ slots'[s] = [pid |-> k, toChild |-> a, fromChild |-> b]
      /\ a # None /\ b # None /\ k # None
      /\ \A o \in Slot : o # s => slots'[o] = slots[o]
      /\ SlotsAreRight'
    BY <1>1, ForkKeepsSlotsRight
<1>4. \A i \in Pid : child'[i] # child[i] => i = k
    BY <1>1, TypesOfState DEF Forked, Types
<1>5. failures' \in 0..Failures
    BY <1>1 DEF Forked, IInv, TypeOK
<1> QED BY <1>2, <1>3, <1>4, <1>5

LEMMA GrowPoolStep == IInv /\ GrowPool => IInv'
<1> SUFFICES ASSUME IInv, GrowPool PROVE IInv'
    OBVIOUS
<1>a. pool + 1 \in Slot /\ pool + 1 \in 1..MaxWorkers /\ slots[pool + 1] = Empty
    <2>1. pool + 1 \in Slot /\ pool + 1 > pool
        BY DescriptorsAssumption DEF GrowPool, IInv, TypeOK, Slot
    <2> QED BY <2>1 DEF Slot, IInv, SlotsAreInStep
<1>b. pool \in Nat /\ 1..pool \subseteq Slot /\ pc = "loop"
    <2>1. pool \in Nat /\ 1..pool \subseteq Slot
        BY Numbers
    <2> QED BY <2>1 DEF GrowPool
<1>1. CASE ForkWorker(pool + 1) /\ pool' = pool + 1 /\ UNCHANGED <<pc, at>>
    <2> DEFINE s == pool + 1
    <2>1. /\ SlotsAreRight' /\ ChildrenAreRight'
          /\ Types(table', child', toClose', slots') /\ failures' \in 0..Failures
          /\ slots'[s].pid # None /\ slots'[s].toChild # None /\ slots'[s].fromChild # None
          /\ \A o \in Slot : o # s => slots'[o] = slots[o]
          /\ \A i \in Pid : child'[i] # child[i] => slots'[s].pid = i
        BY <1>1, <1>a, ForkIsRight
    <2>2. pool' = s /\ pc' = "loop" /\ at' = at /\ s \in Slot /\ slots[s] = Empty
          /\ s \in 1..MaxWorkers
        BY <1>1, <1>a, <1>b
    <2>n. \A o \in Nat : (o > s => o > pool) /\ (o \in 1..s => o \in 1..pool \/ o = s)
                         /\ (o \in 1..pool => o \in 1..s)
        BY <1>b
    <2>s. s \in 1..s /\ 1..s \subseteq Slot /\ \A o \in Slot : o \in Nat
        BY <1>a, <1>b, DescriptorsAssumption DEF Slot
    <2> HIDE DEF s
    <2>3. TypeOK'
        BY <2>1, <2>2, DescriptorsAssumption DEF TypeOK, Types, IInv, Table
    <2>4. SlotsAreInStep'
        <3>1. \A o \in Slot : /\ slots'[o].toChild = None <=> slots'[o].fromChild = None
                              /\ slots'[o].pid = None => slots'[o].toChild = None
            BY <2>1 DEF IInv, SlotsAreInStep
        <3>2. \A o \in Slot : o > pool' => slots'[o] = Empty
            <4>1. \A o \in Slot : o > s => o # s /\ o > pool
                BY <2>n, <2>s
            <4> QED BY <2>1, <2>2, <4>1 DEF IInv, SlotsAreInStep
        <3>3. \A o \in 1..pool' : slots'[o].toChild # None
            <4>1. \A o \in 1..pool' : o \in Slot /\ (o = s \/ o \in 1..pool)
                BY <2>2, <2>n, <2>s
            <4> QED BY <1>b, <2>1, <4>1 DEF IInv, SlotsAreInStep
        <3> QED BY <2>2, <3>1, <3>2, <3>3 DEF SlotsAreInStep, Empty
    <2>5. NoOrphan'
        <3>1. ASSUME NEW i \in Pid, child'[i] \in Living \cup {"dead"}
              PROVE  \E o \in 1..pool' : slots'[o].pid = i
            <4>1. CASE child'[i] # child[i]
                BY <2>1, <2>2, <2>s, <4>1
            <4>2. CASE child'[i] = child[i]
                <5>1. PICK o \in 1..pool : slots[o].pid = i
                    BY <1>b, <3>1, <4>2 DEF IInv, NoOrphan
                <5>2. o # s
                    BY <2>2, <5>1, NoneAssumption DEF Empty, Pid
                <5>3. o \in 1..pool' /\ slots'[o] = slots[o]
                    BY <1>b, <2>1, <2>2, <2>n, <5>2
                <5> QED BY <5>1, <5>3
            <4> QED BY <4>1, <4>2
        <3> QED BY <2>2, <3>1 DEF NoOrphan, Living
    <2> QED BY <2>1, <2>3, <2>4, <2>5, InParts
<1>2. CASE ForkFails /\ pc' = "unwind" /\ at' = 1 /\ UNCHANGED pool
    <2>1. /\ table' = table /\ child' = child /\ toClose' = toClose /\ slots' = slots
          /\ failures' \in 0..Failures
        BY <1>2, FailureClosesWhatItOpened
    <2>2. TypeOK'
        BY <1>2, <2>1, DescriptorsAssumption DEF IInv, TypeOK
    <2>3. SlotsAreInStep'
        <3>1. \A s \in Slot : ~(s < 1)
            BY DEF Slot
        <3> QED BY <1>2, <2>1, <3>1 DEF IInv, SlotsAreInStep, Empty
    <2>4. SlotsAreRight'
        BY <2>1, SlotsStayRight
    <2>5. ChildrenAreRight'
        BY <2>1, ChildrenStayRight DEF ChildStep
    <2>6. NoOrphan'
        BY <1>2, <1>b, <2>1 DEF IInv, NoOrphan
    <2> QED BY <2>2, <2>3, <2>4, <2>5, <2>6, InParts
<1> QED BY <1>1, <1>2 DEF GrowPool

LEMMA ReforkStep == IInv /\ Refork => IInv'
<1> SUFFICES ASSUME IInv, Refork PROVE IInv'
    OBVIOUS
<1>a. /\ pc \in {"restart", "death"} /\ at \in 1..pool /\ at \in Slot /\ pool' = pool
      /\ 1..pool \subseteq Slot /\ slots[at].pid = None /\ slots[at].toChild = None
      /\ slots[at].fromChild = None
      /\ \A s \in 1..pool : slots[s].toChild = None <=> s = at
    <2>1. 1..pool \subseteq Slot
        BY Numbers
    <2>2. pc \in {"restart", "death"} /\ pool' = pool /\ slots[at].pid = None
        BY DEF Refork
    <2>3. at \in 1..pool /\ \A s \in 1..pool : slots[s].toChild = None <=> s = at
        BY <2>2 DEF IInv, SlotsAreInStep
    <2>4. at \in Slot /\ slots[at].toChild = None
        BY <2>1, <2>3
    <2>5. slots[at].fromChild = None
        BY <2>4 DEF IInv, SlotsAreInStep
    <2> QED BY <2>1, <2>2, <2>3, <2>4, <2>5
<1>b. slots[at] = Empty
    BY <1>a DEF Empty, IInv, TypeOK
<1>1. CASE ForkWorker(at) /\ pc' = "loop" /\ at' = 0
    <2>1. /\ SlotsAreRight' /\ ChildrenAreRight'
          /\ Types(table', child', toClose', slots') /\ failures' \in 0..Failures
          /\ slots'[at].pid # None /\ slots'[at].toChild # None
          /\ slots'[at].fromChild # None
          /\ \A o \in Slot : o # at => slots'[o] = slots[o]
          /\ \A i \in Pid : child'[i] # child[i] => slots'[at].pid = i
        BY <1>1, <1>a, <1>b, ForkIsRight
    <2>2. TypeOK'
        BY <1>1, <1>a, <2>1, DescriptorsAssumption DEF TypeOK, Types, IInv, Table
    <2>3. SlotsAreInStep'
        <3>1. \A o \in Slot : /\ slots'[o].toChild = None <=> slots'[o].fromChild = None
                              /\ slots'[o].pid = None => slots'[o].toChild = None
            BY <2>1 DEF IInv, SlotsAreInStep
        <3>2. \A o \in Slot : o > pool => slots'[o] = Empty
            <4>1. ~(at > pool)
                BY <1>a, Numbers
            <4> QED BY <2>1, <4>1 DEF IInv, SlotsAreInStep
        <3>3. \A o \in 1..pool : slots'[o].toChild # None
            BY <1>a, <2>1
        <3> QED BY <1>1, <1>a, <3>1, <3>2, <3>3 DEF SlotsAreInStep, Empty
    <2>4. NoOrphan'
        <3>1. ASSUME NEW i \in Pid, child'[i] \in Living \cup {"dead"}
              PROVE  \E o \in 1..pool : slots'[o].pid = i
            <4>1. CASE child'[i] # child[i]
                BY <1>a, <2>1, <4>1
            <4>2. CASE child'[i] = child[i]
                <5>1. PICK o \in 1..pool : slots[o].pid = i
                    BY <1>a, <3>1, <4>2 DEF IInv, NoOrphan
                <5>2. o # at
                    BY <1>a, <5>1, NoneAssumption DEF Pid
                <5> QED BY <1>a, <2>1, <5>1, <5>2
            <4> QED BY <4>1, <4>2
        <3> QED BY <1>1, <1>a, <3>1 DEF NoOrphan, Living
    <2> QED BY <2>1, <2>2, <2>3, <2>4, InParts
<1>2. CASE \/ ForkFails /\ pc = "restart" /\ pc' = "death" /\ UNCHANGED at
           \/ ForkFails /\ pc = "death" /\ pc' = "unwind" /\ at' = 1
    <2>1. /\ table' = table /\ child' = child /\ toClose' = toClose /\ slots' = slots
          /\ failures' \in 0..Failures
        BY <1>2, FailureClosesWhatItOpened
    <2>2. TypeOK'
        BY <1>2, <1>a, <2>1, DescriptorsAssumption DEF IInv, TypeOK
    <2>3. SlotsAreInStep'
        <3>1. \A s \in Slot : ~(s < 1)
            BY DEF Slot
        <3> QED BY <1>2, <1>a, <2>1, <3>1 DEF IInv, SlotsAreInStep, Empty
    <2>4. SlotsAreRight'
        BY <2>1, SlotsStayRight
    <2>5. ChildrenAreRight'
        BY <2>1, ChildrenStayRight DEF ChildStep
    <2>6. NoOrphan'
        BY <1>2, <1>a, <2>1 DEF IInv, NoOrphan
    <2> QED BY <2>2, <2>3, <2>4, <2>5, <2>6, InParts
<1> QED BY <1>1, <1>2 DEF Refork

\* Only a table and a stage change when a child does something.
ChildMoves(k) == Arm(k) \/ SetUp(k) \/ SayRestart(k) \/ Leave(k) \/ Crash(k)

LEMMA ChildMovesAreSteps ==
    ASSUME IInv, NEW k \in Pid, ChildMoves(k)
    PROVE  /\ ChildStep(k) /\ child[k] \in Living /\ child'[k] \in Living \cup {"dead"}
           /\ \A i \in Pid : i # k => /\ child'[i] = child[i] /\ table'[i] = table[i]
                                      /\ toClose'[i] = toClose[i]
           /\ table'[0] = table[0]
           /\ Types(table', child', toClose', slots)
           /\ UNCHANGED <<slots, pool, pc, at, failures>>
           /\ child'[k] \in {"running", "leaving"} => pc # "exited"
<1>a. /\ Types(table, child, toClose, slots) /\ 0 \in Process /\ k \in Process /\ k # 0
      /\ \A i \in Pid : i # 0 /\ i \in Process
    BY TypesOfState, CoordinatorsTable
<1>b. Nothing \in Table
    BY DEF Nothing, Table
<1>1. ASSUME child[k] \in Living, Dies(k), UNCHANGED <<slots, pool, pc, at, failures>>,
             toClose' \in [Pid -> SUBSET Descriptor],
             \A i \in Pid : i # k => toClose'[i] = toClose[i]
      PROVE  /\ ChildStep(k) /\ child'[k] = "dead"
             /\ \A i \in Pid : i # k => /\ child'[i] = child[i] /\ table'[i] = table[i]
                                        /\ toClose'[i] = toClose[i]
             /\ table'[0] = table[0]
             /\ Types(table', child', toClose', slots)
    <2>1. child'[k] = "dead" /\ table'[k] = Nothing /\ table'[0] = table[0]
        BY <1>1, <1>a DEF Dies, Types
    <2>2. \A i \in Pid : i # k => child'[i] = child[i] /\ table'[i] = table[i]
        BY <1>1, <1>a DEF Dies, Types
    <2>3. table' \in [Process -> Table] /\ child' \in [Pid -> Stage]
        BY <1>1, <1>a, <1>b DEF Dies, Types, Stage
    <2> QED BY <1>1, <1>a, <2>1, <2>2, <2>3 DEF ChildStep, Types
<1>2. ASSUME NEW stage \in {"armed", "leaving"}, child' = [child EXCEPT ![k] = stage],
             UNCHANGED <<table, toClose>>
      PROVE  /\ child'[k] = stage
             /\ \A i \in Pid : i # k => /\ child'[i] = child[i] /\ table'[i] = table[i]
                                        /\ toClose'[i] = toClose[i]
             /\ table'[0] = table[0]
             /\ table'[k] = table[k] /\ toClose'[k] = toClose[k]
             /\ Types(table', child', toClose', slots)
    BY <1>2, <1>a DEF Types, Stage
<1>3. CASE Arm(k)
    <2>1. /\ child[k] = "forked" /\ child' = [child EXCEPT ![k] = "armed"]
          /\ UNCHANGED <<table, toClose, slots, pool, pc, at, failures>>
        BY <1>3 DEF Arm
    <2> QED BY <1>2, <2>1 DEF ChildStep, Living
<1>4. CASE SayRestart(k)
    <2>1. /\ child[k] = "running" /\ child' = [child EXCEPT ![k] = "leaving"]
          /\ UNCHANGED <<table, toClose, slots, pool, pc, at, failures>>
        BY <1>4 DEF SayRestart
    <2>2. pc # "exited"
        BY <2>1 DEF IInv, NoOrphan
    <2> QED BY <1>2, <2>1, <2>2 DEF ChildStep, Living
<1>5. CASE Leave(k)
    <2>1. /\ child[k] \in {"leaving", "running"} /\ Dies(k)
          /\ UNCHANGED <<toClose, slots, pool, pc, at, failures>>
        BY <1>5 DEF Leave
    <2> QED BY <1>1, <1>a, <2>1 DEF Living, Types
<1>6. CASE Crash(k)
    <2>1. /\ child[k] \in Living /\ Dies(k)
          /\ UNCHANGED <<toClose, slots, pool, pc, at, failures>>
        BY <1>6 DEF Crash
    <2> QED BY <1>1, <1>a, <2>1 DEF Living, Types
<1>7. CASE SetUp(k)
    <2>1. /\ child[k] = "armed" /\ child[k] \in Living
          /\ toClose' = [toClose EXCEPT ![k] = {}]
          /\ UNCHANGED <<slots, pool, pc, at, failures>>
        BY <1>7 DEF SetUp, Living
    <2>2. /\ toClose' \in [Pid -> SUBSET Descriptor]
          /\ \A i \in Pid : i # k => toClose'[i] = toClose[i]
        BY <1>a, <2>1 DEF Types
    <2>3. CASE ~ParentLives
        <3>1. Dies(k)
            BY <1>7, <2>3 DEF SetUp
        <3> QED BY <1>1, <2>1, <2>2, <3>1
    <2>4. CASE ParentLives
        <3>1. /\ child' = [child EXCEPT ![k] = "running"]
              /\ table' = [table EXCEPT ![k] = Close(@, toClose[k])]
            BY <1>7, <2>4 DEF SetUp
        <3>2. Close(table[k], toClose[k]) \in Table
            BY <1>a DEF Types, Close, Table
        <3>3. /\ child'[k] = "running" /\ table'[k] = Close(table[k], toClose[k])
              /\ table'[0] = table[0]
              /\ \A i \in Pid : i # k => child'[i] = child[i] /\ table'[i] = table[i]
            BY <1>a, <3>1 DEF Types
        <3>4. table' \in [Process -> Table] /\ child' \in [Pid -> Stage]
            BY <1>a, <3>1, <3>2 DEF Types, Stage
        <3> QED BY <1>a, <2>1, <2>2, <2>4, <3>3, <3>4
                DEF Types, ChildStep, Living, ParentLives
    <2> QED BY <2>3, <2>4
<1> QED BY <1>3, <1>4, <1>5, <1>6, <1>7 DEF ChildMoves

LEMMA ChildMovesStep == IInv /\ (\E k \in Pid : ChildMoves(k)) => IInv'
<1> SUFFICES ASSUME IInv, NEW k \in Pid, ChildMoves(k) PROVE IInv'
    OBVIOUS
<1>1. /\ ChildStep(k) /\ child[k] \in Living /\ child'[k] \in Living \cup {"dead"}
      /\ \A i \in Pid : i # k => /\ child'[i] = child[i] /\ table'[i] = table[i]
                                 /\ toClose'[i] = toClose[i]
      /\ table'[0] = table[0]
      /\ Types(table', child', toClose', slots)
      /\ UNCHANGED <<slots, pool, pc, at, failures>>
      /\ child'[k] \in {"running", "leaving"} => pc # "exited"
    BY ChildMovesAreSteps
<1>2. TypeOK'
    BY <1>1 DEF IInv, TypeOK, Types, Table
<1>3. SlotsAreInStep'
    BY <1>1 DEF IInv, SlotsAreInStep, Empty
<1>4. SlotsAreRight'
    <2>1. \A i \in Pid : child[i] # "none" => child'[i] # "none"
        BY <1>1 DEF Living
    <2> QED BY <1>1, <2>1, SlotsStayRight
<1>5. ChildrenAreRight'
    <2>1. \A i \in Pid : ChildStep(i)
        BY <1>1 DEF ChildStep
    <2> QED BY <2>1, ChildrenStayRight
<1>6. NoOrphan'
    <2>1. ASSUME pc # "exited", NEW i \in Pid, child'[i] \in Living \cup {"dead"}
          PROVE  \E s \in 1..pool : slots[s].pid = i
        <3>1. child[i] \in Living \cup {"dead"}
            BY <1>1, <2>1
        <3> QED BY <2>1, <3>1 DEF IInv, NoOrphan
    <2>2. ASSUME pc = "exited", NEW i \in Pid
          PROVE  child'[i] \notin {"running", "leaving"}
        BY <1>1, <2>2 DEF IInv, NoOrphan
    <2> QED BY <1>1, <2>1, <2>2 DEF NoOrphan, Living
<1> QED BY <1>2, <1>3, <1>4, <1>5, <1>6, InParts

\* Steps of the coordinator that touch neither slots nor processes.
LEMMA CoordinatorMovesOn ==
    ASSUME IInv, UNCHANGED <<table, child, toClose, slots, pool>>,
           TypeOK', SlotsAreInStep',
           pc # "exited",
           pc' = "exited" => \A s \in Slot : slots[s] = Empty
    PROVE  IInv'
<1>1. SlotsAreRight'
    BY SlotsStayRight
<1>2. ChildrenAreRight'
    BY ChildrenStayRight DEF ChildStep
<1>3. NoOrphan'
    <2>1. ASSUME pc' = "exited", NEW i \in Pid
          PROVE  child[i] \notin {"running", "leaving"}
        <3>1. \A s \in 1..pool : slots[s].pid = None
            BY <2>1, Numbers DEF Empty
        <3>2. ~ \E s \in 1..pool : slots[s].pid = i
            BY <3>1, NoneAssumption DEF Pid
        <3> QED BY <3>2 DEF IInv, NoOrphan, Living
    <2> QED BY <2>1 DEF IInv, NoOrphan
<1> QED BY <1>1, <1>2, <1>3, InParts

LEMMA QuietStep == IInv /\ (Throw \/ Return \/ UNCHANGED vars) => IInv'
<1> SUFFICES ASSUME IInv, Throw \/ Return \/ UNCHANGED vars PROVE IInv'
    OBVIOUS
<1>0. \A s \in Slot : ~(s < 1)
    BY DEF Slot
<1>1. CASE Throw
    <2>1. /\ UNCHANGED <<table, child, toClose, slots, pool>>
          /\ pc = "loop" /\ pc' = "unwind" /\ at' = 1
        BY <1>1 DEF Throw
    <2>2. TypeOK'
        BY <1>1, DescriptorsAssumption DEF Throw, IInv, TypeOK
    <2>3. SlotsAreInStep'
        BY <1>0, <2>1 DEF IInv, SlotsAreInStep, Empty
    <2> QED BY <2>1, <2>2, <2>3, CoordinatorMovesOn
<1>2. CASE Return
    <2>1. /\ UNCHANGED <<table, child, toClose, slots, pool>>
          /\ pc = "unwind" /\ pc' = "exited" /\ at' = 0 /\ at > pool
        BY <1>2 DEF Return
    <2>2. TypeOK'
        BY <1>2, DescriptorsAssumption DEF Return, IInv, TypeOK
    <2>3. \A s \in Slot : slots[s] = Empty
        <3>1. \A s \in Slot : s < at => slots[s] = Empty
            BY <2>1 DEF IInv, SlotsAreInStep
        <3>2. \A s \in Slot : s > pool => slots[s] = Empty
            BY DEF IInv, SlotsAreInStep
        <3>3. pool \in Nat /\ at \in Nat /\ \A s \in Slot : s \in Nat
            BY Numbers
        <3> QED BY <2>1, <3>1, <3>2, <3>3
    <2>4. SlotsAreInStep'
        BY <2>1, <2>3 DEF IInv, SlotsAreInStep, Empty
    <2> QED BY <2>1, <2>2, <2>3, <2>4, CoordinatorMovesOn
<1>3. CASE UNCHANGED vars
    BY <1>3 DEF vars, IInv, TypeOK, SlotsAreInStep, SlotsAreOfWorkers, NumbersAreRight,
                NumbersAreKept, ChildWillHoldItsOwn, RunningHoldsItsOwn, TheGoneHoldNothing,
                AnswersAreOnesOwn, NoOrphan, Empty, Side, Stale, ChildsEnds, Nothing, Ends
<1> QED BY <1>1, <1>2, <1>3

\* The worker in a slot of the pool, while the loop runs, is one that was forked.
LEMMA WorkerInSlot ==
    ASSUME IInv, pc = "loop", NEW s \in 1..pool
    PROVE  /\ s \in Slot /\ slots[s].pid \in Pid /\ slots[s].pid # 0
           /\ child[slots[s].pid] # "none"
           /\ slots[s].toChild # None
<1>1. s \in Slot
    BY Numbers
<1>2. slots[s].toChild # None
    BY DEF IInv, SlotsAreInStep
<1>3. slots[s].pid # None
    BY <1>1, <1>2 DEF IInv, SlotsAreInStep
<1>4. slots[s].pid \in Pid
    BY <1>1, <1>3 DEF IInv, TypeOK
<1> QED BY <1>1, <1>2, <1>3, <1>4, CoordinatorsTable DEF IInv, SlotsAreOfWorkers

\* A slot of the loop's is emptied of its numbers, and becomes the one that the
\* coordinator is busy with.
LEMMA SlotTurnedTo ==
    ASSUME IInv, pc = "loop", NEW s \in 1..pool,
           table'[0] = Close(table[0], Stale(s)),
           slots' = [slots EXCEPT ![s] = ForgetNumbers(@)],
           \A k \in Pid : child[k] # "none" => child'[k] # "none",
           pc' \in {"restart", "death"}, at' = s, pool' = pool
    PROVE  /\ SlotsAreRight' /\ SlotsAreInStep'
           /\ slots' \in [Slot -> [pid: Pid \cup {None}, toChild: Descriptor \cup {None},
                                   fromChild: Descriptor \cup {None}]]
           /\ \A o \in Slot : slots'[o].pid = slots[o].pid
           /\ table'[0] \in Table
           /\ at' \in 0..(MaxWorkers + 1)
<1>1. s \in Slot
    BY WorkerInSlot
<1>2. /\ SlotsAreRight'
      /\ slots'[s] = [pid |-> slots[s].pid, toChild |-> None, fromChild |-> None]
      /\ \A o \in Slot : o # s => slots'[o] = slots[o]
      /\ slots' \in [Slot -> [pid: Pid \cup {None}, toChild: Descriptor \cup {None},
                              fromChild: Descriptor \cup {None}]]
      /\ table'[0] \in Table
    BY <1>1, ClosingKeepsSlotsRight
<1>3. SlotsAreInStep'
    <2>1. \A o \in Slot : /\ slots'[o].toChild = None <=> slots'[o].fromChild = None
                          /\ slots'[o].pid = None => slots'[o].toChild = None
        BY <1>2 DEF IInv, SlotsAreInStep
    <2>2. \A o \in Slot : o > pool => slots'[o] = Empty
        <3>1. ~(s > pool)
            BY Numbers
        <3> QED BY <1>2, <3>1 DEF IInv, SlotsAreInStep
    <2>3. \A o \in 1..pool : slots'[o].toChild = None <=> o = s
        BY <1>2, Numbers DEF IInv, SlotsAreInStep
    <2> QED BY <2>1, <2>2, <2>3 DEF SlotsAreInStep, Empty
<1>4. \A o \in Slot : slots'[o].pid = slots[o].pid
    BY <1>2
<1>5. at' \in 0..(MaxWorkers + 1)
    BY <1>1, DescriptorsAssumption DEF Slot
<1> QED BY <1>2, <1>3, <1>4, <1>5

LEMMA RestartStep == ASSUME IInv, NEW s \in Slot, Restart(s) PROVE IInv'
<1>1. /\ pc = "loop" /\ s \in 1..pool /\ CloseEnds(s)
      /\ pc' = "restart" /\ at' = s
      /\ UNCHANGED <<child, toClose, pool, failures>>
    BY DEF Restart
<1>2. /\ table' = [table EXCEPT ![0] = Close(@, Stale(s))]
      /\ slots' = [slots EXCEPT ![s] = ForgetNumbers(@)]
    BY <1>1 DEF CloseEnds
<1>3. /\ 0 \in Process /\ table \in [Process -> Table]
      /\ \A k \in Pid : k \in Process /\ k # 0
    BY CoordinatorsTable, TypesOfState DEF Types
<1>4. table'[0] = Close(table[0], Stale(s)) /\ \A k \in Pid : table'[k] = table[k]
    BY <1>2, <1>3
<1>5. /\ SlotsAreRight' /\ SlotsAreInStep'
      /\ slots' \in [Slot -> [pid: Pid \cup {None}, toChild: Descriptor \cup {None},
                              fromChild: Descriptor \cup {None}]]
      /\ \A o \in Slot : slots'[o].pid = slots[o].pid
      /\ table'[0] \in Table /\ at' \in 0..(MaxWorkers + 1)
    BY <1>1, <1>2, <1>4, SlotTurnedTo
<1>6. TypeOK'
    <2>1. table' \in [Process -> Table]
        BY <1>2, <1>3, <1>4, <1>5
    <2> QED BY <1>1, <1>5, <2>1 DEF IInv, TypeOK, Table
<1>7. ChildrenAreRight'
    BY <1>1, <1>4, ChildrenStayRight DEF ChildStep
<1>8. NoOrphan'
    BY <1>1, <1>5, Numbers DEF IInv, NoOrphan
<1> QED BY <1>5, <1>6, <1>7, <1>8, InParts

LEMMA ReplaceStep == ASSUME IInv, NEW s \in Slot, Replace(s) PROVE IInv'
<1> DEFINE k == slots[s].pid
<1>1. /\ pc = "loop" /\ s \in 1..pool
      /\ child' = [child EXCEPT ![k] = "dead"]
      /\ table' = [table EXCEPT ![k] = Nothing, ![0] = Close(@, Stale(s))]
      /\ slots' = [slots EXCEPT ![s] = ForgetNumbers(@)]
      /\ pc' = "death" /\ at' = s
      /\ UNCHANGED <<toClose, pool, failures>>
    BY DEF Replace
<1>2. k \in Pid /\ k # 0 /\ child[k] # "none"
    BY <1>1, WorkerInSlot
<1>3. /\ 0 \in Process /\ table \in [Process -> Table] /\ child \in [Pid -> Stage]
      /\ \A i \in Pid : i \in Process /\ i # 0
    BY CoordinatorsTable, TypesOfState DEF Types
<1> HIDE DEF k
<1>4. /\ table'[0] = Close(table[0], Stale(s)) /\ table'[k] = Nothing
      /\ \A i \in Pid : i # k => table'[i] = table[i]
    BY <1>1, <1>2, <1>3
<1>5. child'[k] = "dead" /\ \A i \in Pid : i # k => child'[i] = child[i]
    BY <1>1, <1>2, <1>3
<1>6. /\ SlotsAreRight' /\ SlotsAreInStep'
      /\ slots' \in [Slot -> [pid: Pid \cup {None}, toChild: Descriptor \cup {None},
                              fromChild: Descriptor \cup {None}]]
      /\ \A o \in Slot : slots'[o].pid = slots[o].pid
      /\ table'[0] \in Table /\ at' \in 0..(MaxWorkers + 1)
    <2>1. \A i \in Pid : child[i] # "none" => child'[i] # "none"
        BY <1>5
    <2> QED BY <1>1, <1>4, <2>1, SlotTurnedTo
<1>7. TypeOK'
    <2>1. Nothing \in Table
        BY DEF Nothing, Table
    <2>2. table' \in [Process -> Table]
        BY <1>1, <1>2, <1>3, <1>4, <1>6, <2>1
    <2>3. child' \in [Pid -> Stage]
        BY <1>1, <1>3 DEF Stage
    <2> QED BY <1>1, <1>6, <2>2, <2>3 DEF IInv, TypeOK, Table
<1>8. ChildrenAreRight'
    <2>1. \A i \in Pid : ChildStep(i)
        BY <1>1, <1>4, <1>5 DEF ChildStep
    <2> QED BY <2>1, ChildrenStayRight
<1>9. NoOrphan'
    <2>1. \A o \in 1..pool : slots'[o].pid = slots[o].pid
        BY <1>6, Numbers
    <2>2. \E o \in 1..pool : slots[o].pid = k
        BY <1>1 DEF k
    <2> QED BY <1>1, <1>5, <2>1, <2>2 DEF IInv, NoOrphan
<1> QED BY <1>6, <1>7, <1>8, <1>9, InParts

LEMMA ReapStep == IInv /\ Reap => IInv'
<1> SUFFICES ASSUME IInv, Reap PROVE IInv'
    OBVIOUS
<1> DEFINE k == slots[at].pid
<1>1. /\ at \in 1..pool /\ k # None /\ child[k] = "dead"
      /\ slots[at].toChild = None \/ pc \in {"restart", "death"}
      /\ child' = [child EXCEPT ![k] = "reaped"]
      /\ slots' = [slots EXCEPT ![at].pid = None]
      /\ UNCHANGED <<table, toClose, pool, pc, at, failures>>
    BY DEF Reap
<1>2. Types(table, child, toClose, slots)
    BY TypesOfState
<1>3. at \in Slot /\ k \in Pid
    BY <1>1, <1>2, Numbers DEF Types
<1>4. slots[at].toChild = None /\ slots[at].fromChild = None
    BY <1>1, <1>3 DEF IInv, SlotsAreInStep
<1>5. slots'[at] = Empty /\ \A o \in Slot : o # at => slots'[o] = slots[o]
    <2>1. slots[at] = [pid |-> k, toChild |-> None, fromChild |-> None]
        BY <1>2, <1>3, <1>4 DEF Types
    <2> QED BY <1>1, <1>2, <1>3, <2>1 DEF Types, Empty
<1>6. child'[k] = "reaped" /\ \A i \in Pid : i # k => child'[i] = child[i]
    BY <1>1, <1>2, <1>3 DEF Types
<1>k. \A o \in Slot : o # at => slots[o].pid # k
    BY <1>1, <1>3 DEF IInv, SlotsAreOfWorkers
<1>7. TypeOK'
    <2>1. child' \in [Pid -> Stage]
        BY <1>1, <1>2 DEF Types, Stage
    <2>2. slots' \in [Slot -> [pid: Pid \cup {None}, toChild: Descriptor \cup {None},
                               fromChild: Descriptor \cup {None}]]
        BY <1>1, <1>2, <1>3 DEF Types
    <2> QED BY <1>1, <2>1, <2>2 DEF IInv, TypeOK
<1>8. SlotsAreInStep'
    <2>1. \A o \in Slot : /\ slots'[o].toChild = None <=> slots'[o].fromChild = None
                          /\ slots'[o].pid = None => slots'[o].toChild = None
                          /\ slots'[o].toChild = slots[o].toChild
                          /\ slots[o] = Empty => slots'[o] = Empty
        BY <1>4, <1>5 DEF IInv, SlotsAreInStep, Empty
    <2>2. pc # "loop"
        BY <1>1, <1>4 DEF IInv, SlotsAreInStep
    <2>3. \A o \in 1..pool : o \in Slot
        BY Numbers
    <2>4. pc \in {"restart", "death"} =>
              at \in 1..pool /\ \A o \in 1..pool : slots'[o].toChild = None <=> o = at
        BY <2>1, <2>3 DEF IInv, SlotsAreInStep
    <2>5. /\ \A o \in Slot : o > pool => slots'[o] = Empty
          /\ pc = "unwind" => at > 0 /\ \A o \in Slot : o < at => slots'[o] = Empty
          /\ pc = "exited" => \A o \in Slot : slots'[o] = Empty
        BY <2>1 DEF IInv, SlotsAreInStep
    <2> QED BY <1>1, <2>1, <2>2, <2>4, <2>5 DEF SlotsAreInStep, Empty
<1>9. SlotsAreRight'
    <2>1. SlotsAreOfWorkers'
        <3>1. \A o \in Slot : slots[o].pid # None => slots[o].pid \in Pid
            BY <1>2 DEF Types
        <3>2. \A o \in Slot : slots'[o].pid # None => o # at /\ slots'[o].pid = slots[o].pid
            BY <1>5 DEF Empty
        <3> QED BY <1>6, <1>k, <3>1, <3>2 DEF IInv, SlotsAreOfWorkers
    <2>2. NumbersAreRight'
        <3>1. \A o \in Slot : slots'[o].toChild # None => slots'[o] = slots[o]
            BY <1>5 DEF Empty
        <3> QED BY <1>1, <3>1 DEF IInv, NumbersAreRight, Side
    <2>3. NumbersAreKept'
        <3>1. \A o \in Slot : \A d : d \in Stale(o) => d \in Stale(o)'
            BY <1>4, <1>5 DEF Stale, Empty
        <3> QED BY <1>1, <3>1 DEF IInv, NumbersAreKept
    <2> QED BY <2>1, <2>2, <2>3 DEF SlotsAreRight
<1>10. ChildrenAreRight'
    <2>1. \A i \in Pid : ChildStep(i)
        BY <1>1, <1>6 DEF ChildStep
    <2> QED BY <2>1, ChildrenStayRight
<1>11. NoOrphan'
    <2>1. ASSUME pc # "exited", NEW i \in Pid, child'[i] \in Living \cup {"dead"}
          PROVE  \E o \in 1..pool : slots'[o].pid = i
        <3>1. i # k /\ child[i] \in Living \cup {"dead"}
            BY <1>6, <2>1 DEF Living
        <3>2. PICK o \in 1..pool : slots[o].pid = i
            BY <2>1, <3>1 DEF IInv, NoOrphan
        <3>3. o # at /\ o \in Slot
            BY <3>1, <3>2, Numbers
        <3> QED BY <1>5, <3>2, <3>3
    <2>2. ASSUME pc = "exited", NEW i \in Pid
          PROVE  child'[i] \notin {"running", "leaving"}
        BY <1>6, <2>2 DEF IInv, NoOrphan
    <2> QED BY <1>1, <2>1, <2>2 DEF NoOrphan, Living
<1> QED BY <1>7, <1>8, <1>9, <1>10, <1>11, InParts

LEMMA ShutdownNextStep == IInv /\ ShutdownNext => IInv'
<1> SUFFICES ASSUME IInv, ShutdownNext PROVE IInv'
    OBVIOUS
<1>a. /\ pc = "unwind" /\ at <= pool /\ at > 0 /\ at \in Slot /\ at \in 1..pool
      /\ \A o \in Slot : o < at => slots[o] = Empty
      /\ UNCHANGED <<child, toClose, pool, pc, failures>>
    <2>1. /\ pc = "unwind" /\ at <= pool
          /\ UNCHANGED <<child, toClose, pool, pc, failures>>
        BY DEF ShutdownNext
    <2>2. at > 0 /\ \A o \in Slot : o < at => slots[o] = Empty
        BY <2>1 DEF IInv, SlotsAreInStep
    <2>3. at \in 1..pool /\ at \in Slot
        BY <2>1, <2>2, Numbers
    <2> QED BY <2>1, <2>2, <2>3
<1>b. /\ 0 \in Process /\ table \in [Process -> Table]
      /\ \A k \in Pid : k \in Process /\ k # 0
    BY CoordinatorsTable, TypesOfState DEF Types
<1>1. CASE slots[at].toChild # None /\ CloseEnds(at) /\ UNCHANGED at
    <2>1. /\ table' = [table EXCEPT ![0] = Close(@, Stale(at))]
          /\ slots' = [slots EXCEPT ![at] = ForgetNumbers(@)] /\ at' = at
        BY <1>1 DEF CloseEnds
    <2>2. table'[0] = Close(table[0], Stale(at)) /\ \A k \in Pid : table'[k] = table[k]
        BY <1>b, <2>1
    <2>3. /\ SlotsAreRight'
          /\ slots'[at] = [pid |-> slots[at].pid, toChild |-> None, fromChild |-> None]
          /\ \A o \in Slot : o # at => slots'[o] = slots[o]
          /\ slots' \in [Slot -> [pid: Pid \cup {None}, toChild: Descriptor \cup {None},
                                  fromChild: Descriptor \cup {None}]]
          /\ table'[0] \in Table
        BY <1>a, <2>1, <2>2, ClosingKeepsSlotsRight
    <2>4. TypeOK'
        <3>1. table' \in [Process -> Table]
            BY <1>b, <2>1, <2>2, <2>3
        <3> QED BY <1>a, <2>1, <2>3, <3>1 DEF IInv, TypeOK, Table
    <2>5. SlotsAreInStep'
        <3>1. \A o \in Slot : /\ slots'[o].toChild = None <=> slots'[o].fromChild = None
                              /\ slots'[o].pid = None => slots'[o].toChild = None
            BY <2>3 DEF IInv, SlotsAreInStep
        <3>2. \A o \in Slot : /\ o > pool => o # at
                              /\ o < at => o # at
            BY <1>a, Numbers
        <3>3. \A o \in Slot : /\ o > pool => slots'[o] = Empty
                              /\ o < at => slots'[o] = Empty
            BY <1>a, <2>3, <3>2 DEF IInv, SlotsAreInStep
        <3> QED BY <1>a, <2>1, <3>1, <3>3 DEF SlotsAreInStep, Empty
    <2>6. ChildrenAreRight'
        BY <1>a, <2>2, ChildrenStayRight DEF ChildStep
    <2>7. NoOrphan'
        <3>1. \A o \in 1..pool : slots'[o].pid = slots[o].pid
            BY <2>3, Numbers
        <3> QED BY <1>a, <3>1 DEF IInv, NoOrphan
    <2> QED BY <2>3, <2>4, <2>5, <2>6, <2>7, InParts
<1>2. CASE slots[at] = Empty /\ at' = at + 1 /\ UNCHANGED <<table, slots>>
    <2>1. TypeOK'
        <3>1. at' \in 0..(MaxWorkers + 1)
            BY <1>a, <1>2, DescriptorsAssumption DEF Slot
        <3> QED BY <1>a, <1>2, <3>1 DEF IInv, TypeOK
    <2>2. SlotsAreInStep'
        <3>1. \A o \in Slot : o < at' => o < at \/ o = at
            BY <1>a, <1>2, Numbers
        <3>2. at' > 0
            BY <1>a, <1>2
        <3> QED BY <1>a, <1>2, <3>1, <3>2 DEF IInv, SlotsAreInStep, Empty
    <2> QED BY <1>a, <1>2, <2>1, <2>2, CoordinatorMovesOn
<1> QED BY <1>1, <1>2 DEF ShutdownNext

LEMMA KillWorkersStep == IInv /\ KillWorkers => IInv'
<1> SUFFICES ASSUME IInv, KillWorkers PROVE IInv'
    OBVIOUS
<1> DEFINE live == {slots[s].pid : s \in Slot} \ {None}
<1>1. /\ pc = "loop" /\ pc' = "unwind" /\ at' = 1
      /\ child' = [k \in Pid |-> IF k \in live THEN "dead" ELSE child[k]]
      /\ table' = [p \in Process |-> IF p \in live THEN Nothing ELSE table[p]]
      /\ UNCHANGED <<toClose, slots, pool, failures>>
    BY DEF KillWorkers
<1>2. Types(table, child, toClose, slots)
    BY TypesOfState
<1>3. live \subseteq Pid
    BY <1>2 DEF Types
<1>4. 0 \in Process /\ \A k \in Pid : k \in Process /\ k # 0
    BY CoordinatorsTable
<1>5. /\ table'[0] = table[0]
      /\ \A k \in Pid : \/ child'[k] = "dead" /\ table'[k] = Nothing
                        \/ child'[k] = child[k] /\ table'[k] = table[k]
    <2> HIDE DEF live
    <2> QED BY <1>1, <1>3, <1>4
<1>6. TypeOK'
    <2>1. Nothing \in Table
        BY DEF Nothing, Table
    <2>2. table' \in [Process -> Table] /\ child' \in [Pid -> Stage]
        <3> HIDE DEF live
        <3> QED BY <1>1, <1>2, <2>1 DEF Types, Stage
    <2> QED BY <1>1, <2>2, DescriptorsAssumption DEF IInv, TypeOK, Table
<1>7. SlotsAreInStep'
    <2>1. \A s \in Slot : ~(s < 1)
        BY DEF Slot
    <2> QED BY <1>1, <2>1 DEF IInv, SlotsAreInStep, Empty
<1>8. SlotsAreRight'
    <2>1. \A k \in Pid : child[k] # "none" => child'[k] # "none"
        BY <1>5
    <2> QED BY <1>1, <1>5, <2>1, SlotsStayRight
<1>9. ChildrenAreRight'
    <2>1. \A k \in Pid : ChildStep(k)
        BY <1>1, <1>5 DEF ChildStep
    <2> QED BY <2>1, ChildrenStayRight
<1>10. NoOrphan'
    <2>1. ASSUME NEW k \in Pid, child'[k] \in Living \cup {"dead"}
          PROVE  \E s \in 1..pool : slots[s].pid = k
        <3>1. CASE k \in live
            <4>1. PICK s \in Slot : slots[s].pid = k /\ k # None
                BY <3>1
            <4>2. ~(s > pool)
                BY <4>1 DEF IInv, SlotsAreInStep, Empty
            <4> QED BY <4>1, <4>2, Numbers
        <3>2. CASE k \notin live
            <4>1. child[k] = child'[k]
                BY <1>1, <3>2
            <4> QED BY <1>1, <2>1, <4>1 DEF IInv, NoOrphan
        <3> QED BY <3>1, <3>2
    <2> QED BY <1>1, <2>1 DEF NoOrphan, Living
<1> QED BY <1>6, <1>7, <1>8, <1>9, <1>10, InParts

LEMMA CoordinatorKilledStep == IInv /\ CoordinatorKilled => IInv'
<1> SUFFICES ASSUME IInv, CoordinatorKilled PROVE IInv'
    OBVIOUS
<1> DEFINE armed == Living \ {"forked"}
<1>1. /\ pc' = "exited" /\ at' = 0
      /\ child' = [k \in Pid |-> IF child[k] \in armed THEN "dead" ELSE child[k]]
      /\ table' = [p \in Process |->
             IF p # 0 /\ child[p] = "forked" THEN table[p] ELSE Nothing]
      /\ slots' = [s \in Slot |-> Empty]
      /\ UNCHANGED <<toClose, pool, failures>>
    BY DEF CoordinatorKilled
<1>2. Types(table, child, toClose, slots)
    BY TypesOfState
<1>3. 0 \in Process /\ \A k \in Pid : k \in Process /\ k # 0
    BY CoordinatorsTable
<1>4. /\ table'[0] = Nothing /\ Nothing \in Table
      /\ \A d \in Descriptor : Nothing[d] = None
    BY <1>1, <1>3 DEF Nothing, Table
<1>5. ASSUME NEW k \in Pid
      PROVE  \/ child'[k] = "dead" /\ table'[k] = Nothing
             \/ child'[k] = child[k] /\ table'[k] = table[k]
    <2>1. CASE child[k] \in armed
        BY <1>1, <1>3, <2>1 DEF Living
    <2>2. CASE child[k] = "forked"
        BY <1>1, <1>3, <2>2 DEF Living
    <2>3. CASE child[k] \notin Living
        <3>1. table[k] = Nothing
            BY <1>2, <2>3 DEF Types, Stage, Living, IInv, TheGoneHoldNothing
        <3> QED BY <1>1, <1>3, <2>3, <3>1 DEF Living
    <2> QED BY <2>1, <2>2, <2>3
<1>6. TypeOK'
    <2>1. table' \in [Process -> Table]
        BY <1>1, <1>2, <1>4 DEF Types
    <2>2. child' \in [Pid -> Stage]
        BY <1>1, <1>2 DEF Types, Stage
    <2>3. slots' \in [Slot -> [pid: Pid \cup {None}, toChild: Descriptor \cup {None},
                               fromChild: Descriptor \cup {None}]]
        BY <1>1 DEF Empty
    <2> QED BY <1>1, <2>1, <2>2, <2>3, DescriptorsAssumption DEF IInv, TypeOK, Table
<1>7. SlotsAreInStep'
    BY <1>1 DEF SlotsAreInStep, Empty
<1>8. SlotsAreRight'
    <2>1. SlotsAreOfWorkers' /\ NumbersAreRight'
        BY <1>1 DEF SlotsAreOfWorkers, NumbersAreRight, Empty
    <2>2. NumbersAreKept'
        BY <1>4 DEF NumbersAreKept
    <2> QED BY <2>1, <2>2 DEF SlotsAreRight
<1>9. ChildrenAreRight'
    <2>1. \A k \in Pid : ChildStep(k)
        BY <1>1, <1>5 DEF ChildStep
    <2> QED BY <2>1, ChildrenStayRight
<1>10. NoOrphan'
    BY <1>1 DEF NoOrphan, Living
<1> QED BY <1>6, <1>7, <1>8, <1>9, <1>10, InParts

LEMMA IInvStep == IInv /\ [Next]_vars => IInv'
<1> SUFFICES ASSUME IInv, [Next]_vars PROVE IInv'
    OBVIOUS
<1>1. CASE Coordinates
    BY <1>1, GrowPoolStep, ReapStep, ReforkStep, ShutdownNextStep, QuietStep,
       KillWorkersStep, RestartStep, ReplaceStep DEF Coordinates
<1>2. CASE CoordinatorKilled
    BY <1>2, CoordinatorKilledStep
<1>3. CASE Exited \/ UNCHANGED vars
    BY <1>3, QuietStep DEF Exited
<1>4. ASSUME NEW k \in Pid, Arm(k) \/ SetUp(k) \/ SayRestart(k) \/ Leave(k) \/ Crash(k)
      PROVE  IInv'
    BY <1>4, ChildMovesStep DEF ChildMoves
<1> QED BY <1>1, <1>2, <1>3, <1>4 DEF Next

-----------------------------------------------------------------------------
(* What is shown of the descriptors *)

LEMMA AlwaysIInv == Spec => []IInv
BY InitIsRight, IInvStep, PTL DEF Spec

\* Whoever is past its set-up holds the ends that are its own, and no other
\* (forkWorker, liveFdsExcept, Worker::shutdown): the coordinator's are those its
\* slots name, and a worker's are the two that it reads and writes.
THEOREM NobodyHoldsAnothersEnds == Spec => []EachHoldsItsOwn
<1>1. ASSUME IInv PROVE SlotsAreAccurate
    <2>1. NumbersAreRight
        BY <1>1 DEF IInv
    <2>2. ASSUME NEW d \in Descriptor, table[0][d] # None
          PROVE  d \in UNION {Stale(s) : s \in Slot}
        BY <1>1, <2>2 DEF IInv, NumbersAreKept
    <2>3. ASSUME NEW s \in Slot, NEW d \in Stale(s)
          PROVE  d \in Descriptor /\ table[0][d] # None
        <3>1. slots[s].toChild # None /\ slots[s].fromChild # None /\ slots[s].pid # None
              /\ d \in {slots[s].toChild, slots[s].fromChild}
            BY <1>1 DEF IInv, SlotsAreInStep, Stale
        <3>2. d \in Descriptor /\ slots[s].pid \in Pid
            BY <1>1, <3>1 DEF IInv, TypeOK
        <3>3. table[0][d] \in {Side(slots[s].pid, "toChild", "write"),
                               Side(slots[s].pid, "fromChild", "read")}
            BY <2>1, <3>1 DEF NumbersAreRight
        <3> QED BY <3>2, <3>3, Sides
    <2> DEFINE named == UNION {Stale(s) : s \in Slot}
    <2>4. \A d \in named : d \in Descriptor /\ table[0][d] # None
        BY <2>3
    <2>5. \A d \in Descriptor : table[0][d] # None => d \in named
        BY <2>2
    <2> HIDE DEF named
    <2>6. Ends(0) = {table[0][d] : d \in named}
        BY <2>4, <2>5 DEF Ends
    <2> QED BY <2>1, <2>6 DEF SlotsAreAccurate, NumbersAreRight, named
<1>2. IInv => EachHoldsItsOwn
    BY <1>1 DEF EachHoldsItsOwn, IInv
<1> QED BY AlwaysIInv, <1>2, PTL

\* When a worker is dead, the pipe of its answers has ended, so that poll reports
\* it: nobody else was left with the writing end.
THEOREM EveryDeathShows == Spec => []DeathShows
<1>1. ASSUME IInv PROVE DeathShows
    <2> SUFFICES ASSUME NEW k \in Pid, child[k] \in {"dead", "reaped"}, NEW p \in Process,
                        Side(k, "fromChild", "write") \in Ends(p)
                 PROVE  FALSE
        BY DEF DeathShows, HeldBySomeone
    <2>1. Side(k, "fromChild", "write") # None
        BY Sides
    <2>2. PICK d \in Descriptor : table[p][d] = Side(k, "fromChild", "write")
        BY DEF Ends
    <2>3. CASE p = 0
        <3>1. \E s \in Slot :
                  /\ slots[s].pid \in Pid
                  /\ \/ table[0][d] = Side(slots[s].pid, "toChild", "write")
                     \/ table[0][d] = Side(slots[s].pid, "fromChild", "read")
            BY <1>1, <2>1, <2>2, <2>3, HeldForAWorker
        <3> QED BY <2>2, <2>3, <3>1, Sides
    <2>4. CASE p \in Pid
        <3>1. p = k
            BY <1>1, <2>2, <2>4 DEF IInv, AnswersAreOnesOwn
        <3>2. table[k] = Nothing
            BY <1>1 DEF IInv, TheGoneHoldNothing
        <3> QED BY <2>1, <2>2, <3>1, <3>2 DEF Nothing
    <2> QED BY <2>3, <2>4 DEF Process
<1> QED BY AlwaysIInv, <1>1, PTL

\* A child that has not been waited for is in a slot, and none evaluates when the
\* coordinator is gone ("an exception anywhere in the run cannot orphan a child").
THEOREM NobodyIsOrphaned == Spec => []NoOrphan
<1>1. IInv => NoOrphan
    BY DEF IInv
<1> QED BY AlwaysIInv, <1>1, PTL
=============================================================================
