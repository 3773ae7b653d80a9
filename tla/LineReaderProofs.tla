-------------------------- MODULE LineReaderProofs --------------------------
(***************************************************************************)
(* What is proved of LineReader, for any messages, any limit, and reads    *)
(* and writes of any size.                                                 *)
(***************************************************************************)
EXTENDS LineReader, SequenceTheorems, InductionFacts

-----------------------------------------------------------------------------
(* FlattenSeq *)

\* The function that FlattenSeq of SequencesExt takes the last value of.
Grown(g, f, i) == IF i = 1 THEN f[i] ELSE g[i - 1] \o f[i]
IsFlat(g, f, n) == g = [i \in 1..n |-> Grown(g, f, i)]
Flat(f, n) == CHOOSE g : IsFlat(g, f, n)

LEMMA FlattenIsFlat ==
    ASSUME NEW s
    PROVE  FlattenSeq(s) = IF Len(s) = 0 THEN s ELSE Flat(s, Len(s))[Len(s)]
BY DEF FlattenSeq, Flat, IsFlat, Grown

LEMMA FlatValues ==
    ASSUME NEW f, NEW n \in Nat, NEW g, IsFlat(g, f, n)
    PROVE  \A i \in 1..n : g[i] = Grown(g, f, i)
<1>1. g = [i \in 1..n |-> Grown(g, f, i)]
    BY DEF IsFlat
<1> QED BY <1>1

LEMMA GrownFromTheLast ==
    ASSUME NEW f, NEW g, NEW h, NEW k, NEW i \in Nat \ {0},
           f[i] = k[i], i # 1 => g[i - 1] = h[i - 1]
    PROVE  Grown(g, f, i) = Grown(h, k, i)
BY DEF Grown

\* There is such a function, of any length.
LEMMA FlatExists ==
    ASSUME NEW f, NEW m \in Nat
    PROVE  IsFlat(Flat(f, m), f, m)
<1> DEFINE Good == {n \in Nat : \E g : IsFlat(g, f, n)}
<1>1. 0 \in Good
    <2> DEFINE g == [i \in 1..0 |-> 0]
    <2>1. g = [i \in 1..0 |-> Grown(g, f, i)]
        OBVIOUS
    <2>2. IsFlat(g, f, 0)
        BY <2>1 DEF IsFlat
    <2> QED BY <2>2
<1>2. ASSUME NEW n \in Good PROVE n + 1 \in Good
    <2>1. n \in Nat /\ n + 1 \in Nat
        OBVIOUS
    <2>2. PICK old : IsFlat(old, f, n)
        OBVIOUS
    <2> DEFINE new == [i \in 1..(n + 1) |-> Grown(old, f, i)]
    <2>3. \A i \in 1..(n + 1) : new[i] = Grown(old, f, i)
        OBVIOUS
    <2>4. \A i \in 1..n : old[i] = Grown(old, f, i)
        BY <2>1, <2>2, FlatValues
    <2>5. \A i \in 1..n : i \in 1..(n + 1)
        BY <2>1
    <2>6. \A i \in 1..(n + 1) : i \in Nat \ {0} /\ (i # 1 => i - 1 \in 1..n)
        BY <2>1
    <2> HIDE DEF new
    <2>7. \A i \in 1..n : new[i] = old[i]
        BY <2>3, <2>4, <2>5
    <2>8. \A i \in 1..(n + 1) : i # 1 => new[i - 1] = old[i - 1]
        BY <2>6, <2>7
    <2>9. \A i \in 1..(n + 1) : Grown(old, f, i) = Grown(new, f, i)
        BY <2>6, <2>8, GrownFromTheLast
    <2>10. new = [i \in 1..(n + 1) |-> Grown(new, f, i)]
        BY <2>9 DEF new
    <2>11. IsFlat(new, f, n + 1)
        BY <2>10 DEF IsFlat
    <2> QED BY <2>1, <2>11
<1>3. Good = Nat
    <2>1. Good \in SUBSET Nat
        OBVIOUS
    <2> HIDE DEF Good
    <2> QED BY <1>1, <1>2, <2>1, Induction
<1>4. \E g : IsFlat(g, f, m)
    BY <1>3
<1> QED BY <1>4 DEF Flat

\* Its values depend on what it is made of, and not on its length.
LEMMA FlatAgrees ==
    ASSUME NEW f, NEW h, NEW n \in Nat, NEW m \in Nat, n <= m,
           \A i \in 1..n : f[i] = h[i]
    PROVE  \A i \in 1..n : Flat(f, n)[i] = Flat(h, m)[i]
<1> DEFINE F == Flat(f, n)
           H == Flat(h, m)
           Good == {i \in Nat : i \in 1..n => F[i] = H[i]}
<1>0. \A i \in 1..n : i \in 1..m
    OBVIOUS
<1>a. \A i \in 1..n : F[i] = Grown(F, f, i)
    BY FlatExists, FlatValues
<1>b. \A i \in 1..m : H[i] = Grown(H, h, i)
    BY FlatExists, FlatValues
<1> HIDE DEF F, H
<1>1. 0 \in Good
    OBVIOUS
<1>2. ASSUME NEW i \in Good PROVE i + 1 \in Good
    <2>1. i \in Nat /\ (i \in 1..n => F[i] = H[i])
        OBVIOUS
    <2>2. ASSUME i + 1 \in 1..n PROVE F[i + 1] = H[i + 1]
        <3>1. i + 1 \in Nat \ {0} /\ (i + 1) - 1 = i
            BY <2>1
        <3>2. i + 1 # 1 => i \in 1..n
            BY <2>1, <2>2
        <3>3. Grown(F, f, i + 1) = Grown(H, h, i + 1)
            BY <2>1, <2>2, <3>1, <3>2, GrownFromTheLast
        <3> QED BY <1>0, <1>a, <1>b, <2>2, <3>3
    <2> QED BY <2>1, <2>2
<1>3. Good = Nat
    <2>1. Good \in SUBSET Nat
        OBVIOUS
    <2> HIDE DEF Good
    <2> QED BY <1>1, <1>2, <2>1, Induction
<1>4. \A i \in 1..n : F[i] = H[i]
    BY <1>3
<1> QED BY <1>4 DEF F, H

\* A sequence more is its elements more.
LEMMA FlattenAppend ==
    ASSUME NEW S, NEW s \in Seq(Seq(S)), NEW e \in Seq(S)
    PROVE  FlattenSeq(Append(s, e)) = FlattenSeq(s) \o e
<1> DEFINE t == Append(s, e)
           n == Len(s)
<1>1. /\ n \in Nat /\ Len(t) = n + 1
      /\ \A i \in 1..n : t[i] = s[i]
      /\ t[n + 1] = e
    BY AppendProperties, LenProperties
<1> HIDE DEF t
<1>2. FlattenSeq(t) = Flat(t, n + 1)[n + 1]
    BY <1>1, FlattenIsFlat
<1>3. Flat(t, n + 1)[n + 1] = Grown(Flat(t, n + 1), t, n + 1)
    <2>1. n + 1 \in Nat /\ n + 1 \in 1..(n + 1)
        BY <1>1
    <2>2. IsFlat(Flat(t, n + 1), t, n + 1)
        BY <2>1, FlatExists
    <2> HIDE DEF n
    <2> QED BY <2>1, <2>2, FlatValues
<1>4. CASE n = 0
    <2>1. s = <<>>
        BY <1>4, EmptySeq
    <2>2. FlattenSeq(s) = <<>>
        BY <1>4, <2>1, FlattenIsFlat
    <2>3. <<>> \o e = e
        BY ConcatEmptySeq
    <2>4. FlattenSeq(t) = e
        BY <1>1, <1>2, <1>3, <1>4 DEF Grown
    <2>5. FlattenSeq(t) = FlattenSeq(s) \o e
        BY <2>2, <2>3, <2>4
    <2> QED BY <2>5 DEF t
<1>5. CASE n # 0
    <2>1. FlattenSeq(s) = Flat(s, n)[n]
        BY <1>5, FlattenIsFlat
    <2>2. n <= n + 1 /\ n \in 1..n /\ n + 1 \in Nat /\ n + 1 # 1 /\ (n + 1) - 1 = n
        BY <1>1, <1>5
    <2>3. \A i \in 1..n : Flat(s, n)[i] = Flat(t, n + 1)[i]
        <3> HIDE DEF n
        <3> QED BY <1>1, <2>2, FlatAgrees
    <2>4. Grown(Flat(t, n + 1), t, n + 1) = Flat(t, n + 1)[n] \o e
        BY <1>1, <2>2 DEF Grown
    <2>5. FlattenSeq(t) = FlattenSeq(s) \o e
        BY <1>2, <1>3, <2>1, <2>2, <2>3, <2>4
    <2> QED BY <2>5 DEF t
<1> QED BY <1>4, <1>5

-----------------------------------------------------------------------------
(* Lines, and the bytes that they are sent as *)

Bytes == Seq(Byte)
Lines == Seq(Bytes)

\* Bytes behind bytes.
LEMMA Joins ==
    ASSUME NEW s \in Bytes, NEW t \in Bytes
    PROVE  s \o t \in Bytes /\ Len(s \o t) = Len(s) + Len(t) /\ Len(s) \in Nat /\ Len(t) \in Nat
BY ConcatProperties, LenProperties DEF Bytes

LEMMA JoinIsAssociative == \A s, t, u \in Bytes : (s \o t) \o u = s \o (t \o u)
BY ConcatAssociative, SMT DEF Bytes

LEMMA JoinCancels ==
    ASSUME NEW s \in Bytes, NEW t \in Bytes, NEW u \in Bytes, s \o t = s \o u
    PROVE  t = u
<1>1. s \in Seq(Byte) /\ t \in Seq(Byte) /\ u \in Seq(Byte)
    BY DEF Bytes
<1> QED BY <1>1, ConcatSimplifications, Zenon

Framed(lines) == [i \in DOMAIN lines |-> Append(lines[i], Newline)]
Sent(lines) == FlattenSeq(Framed(lines))

LEMMA NewlineIsAByte == Newline \in Byte
BY DEF Newline, Byte

LEMMA FramedIsLines ==
    ASSUME NEW lines \in Lines
    PROVE  Framed(lines) \in Lines /\ Len(Framed(lines)) = Len(lines)
<1>1. Len(lines) \in Nat /\ DOMAIN lines = 1..Len(lines)
    BY LenProperties DEF Lines
<1>2. \A i \in 1..Len(lines) : Append(lines[i], Newline) \in Bytes
    <2> TAKE i \in 1..Len(lines)
    <2>1. lines[i] \in Bytes
        BY ElementOfSeq DEF Lines
    <2> QED BY <2>1, NewlineIsAByte, AppendProperties DEF Bytes
<1>3. Framed(lines) = [i \in 1..Len(lines) |-> Append(lines[i], Newline)]
    BY <1>1 DEF Framed
<1>4. Framed(lines) \in [1..Len(lines) -> Bytes]
    BY <1>2, <1>3
<1> QED BY <1>1, <1>4 DEF Lines

LEMMA SentNothing == Sent(<<>>) = <<>>
<1>1. Framed(<<>>) = <<>>
    BY DEF Framed
<1> QED BY <1>1, FlattenIsFlat DEF Sent

LEMMA SentOneMore ==
    ASSUME NEW lines \in Lines, NEW line \in Bytes
    PROVE  Sent(Append(lines, line)) = Sent(lines) \o Append(line, Newline)
<1> DEFINE more == Append(lines, line)
           end == Append(line, Newline)
           n == Len(lines)
<1>1. /\ more \in Lines /\ n \in Nat /\ Len(more) = n + 1 /\ more[n + 1] = line
      /\ \A i \in 1..n : more[i] = lines[i]
    BY AppendProperties, LenProperties DEF Lines
<1>2. end \in Bytes
    BY NewlineIsAByte, AppendProperties DEF Bytes
<1>3. Framed(lines) \in Lines /\ Len(Framed(lines)) = n
    BY FramedIsLines
<1>4. Framed(more) \in Lines /\ Len(Framed(more)) = n + 1
    BY <1>1, FramedIsLines
<1>5. \A i \in 1..(n + 1) : Framed(more)[i] = Append(more[i], Newline)
    <2>1. DOMAIN more = 1..(n + 1)
        BY <1>1, LenProperties DEF Lines
    <2> HIDE DEF more
    <2> QED BY <2>1 DEF Framed
<1>6. \A i \in 1..n : Framed(lines)[i] = Append(lines[i], Newline)
    <2>1. DOMAIN lines = 1..n
        BY LenProperties DEF Lines
    <2> QED BY <2>1 DEF Framed
<1> DEFINE ext == Append(Framed(lines), end)
<1>7. /\ ext \in Lines /\ Len(ext) = n + 1 /\ ext[n + 1] = end
      /\ \A i \in 1..n : ext[i] = Framed(lines)[i]
    BY <1>2, <1>3, AppendProperties DEF Lines
<1>8. \A i \in 1..(n + 1) : Framed(more)[i] = ext[i]
    <2>1. \A i \in 1..(n + 1) : i \in 1..n \/ i = n + 1
        BY <1>1
    <2>2. Append(more[n + 1], Newline) = end
        BY <1>1
    <2> HIDE DEF more, ext, end
    <2>3. n + 1 \in 1..(n + 1) /\ \A i \in 1..n : i \in 1..(n + 1)
        BY <1>1
    <2>4. Framed(more)[n + 1] = ext[n + 1]
        BY <1>5, <1>7, <2>2, <2>3
    <2>5. \A i \in 1..n : Framed(more)[i] = ext[i]
        BY <1>1, <1>5, <1>6, <1>7, <2>3
    <2> QED BY <2>1, <2>4, <2>5
<1>9. Framed(more) = ext
    <2> HIDE DEF more, ext
    <2> QED BY <1>4, <1>7, <1>8, SeqEqual DEF Lines
<1>10. FlattenSeq(ext) = FlattenSeq(Framed(lines)) \o end
    <2> HIDE DEF end
    <2> QED BY <1>2, <1>3, FlattenAppend DEF Lines, Bytes
<1> QED BY <1>9, <1>10 DEF Sent

\* The lines up to the n-th.
UpTo(lines, n) == SubSeq(lines, 1, n)

LEMMA UpToOneMore ==
    ASSUME NEW lines \in Lines, NEW n \in Nat, n < Len(lines)
    PROVE  /\ UpTo(lines, n) \in Lines /\ lines[n + 1] \in Bytes
           /\ UpTo(lines, n + 1) = Append(UpTo(lines, n), lines[n + 1])
<1>1. Len(lines) \in Nat /\ \A i \in 1..Len(lines) : lines[i] \in Bytes
    BY LenProperties, ElementOfSeq DEF Lines
<1>2. /\ UpTo(lines, n) \in Lines /\ Len(UpTo(lines, n)) = n
      /\ \A i \in 1..n : UpTo(lines, n)[i] = lines[i]
    <2>1. \A i \in 1..n : lines[i] \in Bytes
        BY <1>1
    <2>2. /\ UpTo(lines, n) \in Lines
          /\ Len(UpTo(lines, n)) = IF 1 <= n THEN n - 1 + 1 ELSE 0
          /\ \A i \in 1..(n - 1 + 1) : UpTo(lines, n)[i] = lines[1 + i - 1]
        BY <2>1, SubSeqProperties DEF UpTo, Lines
    <2> QED BY <2>2
<1>3. /\ UpTo(lines, n + 1) \in Lines /\ Len(UpTo(lines, n + 1)) = n + 1
      /\ \A i \in 1..(n + 1) : UpTo(lines, n + 1)[i] = lines[i]
    <2>1. n + 1 \in Int /\ \A i \in 1..(n + 1) : lines[i] \in Bytes
        BY <1>1
    <2>2. /\ UpTo(lines, n + 1) \in Lines
          /\ Len(UpTo(lines, n + 1)) = IF 1 <= n + 1 THEN n + 1 - 1 + 1 ELSE 0
          /\ \A i \in 1..(n + 1 - 1 + 1) : UpTo(lines, n + 1)[i] = lines[1 + i - 1]
        BY <2>1, SubSeqProperties DEF UpTo, Lines
    <2> QED BY <2>2
<1>4. lines[n + 1] \in Bytes
    BY <1>1
<1> DEFINE short == UpTo(lines, n)
           ext == Append(short, lines[n + 1])
<1>5. /\ ext \in Lines /\ Len(ext) = n + 1 /\ ext[n + 1] = lines[n + 1]
      /\ \A i \in 1..n : ext[i] = lines[i]
    <2> HIDE DEF short
    <2>1. short \in Lines /\ Len(short) = n /\ \A i \in 1..n : short[i] = lines[i]
        BY <1>2 DEF short
    <2> QED BY <1>4, <2>1, AppendProperties DEF Lines
<1>6. \A i \in 1..(n + 1) : UpTo(lines, n + 1)[i] = ext[i]
    <2>1. \A i \in 1..(n + 1) : i \in 1..n \/ i = n + 1
        OBVIOUS
    <2> HIDE DEF ext
    <2> QED BY <1>3, <1>5, <2>1
<1>7. UpTo(lines, n + 1) = ext
    <2> HIDE DEF ext
    <2> QED BY <1>3, <1>5, <1>6, SeqEqual DEF Lines
<1> QED BY <1>2, <1>4, <1>7

LEMMA UpToNone == ASSUME NEW lines \in Lines PROVE UpTo(lines, 0) = <<>>
BY SubSeqEmpty DEF UpTo

LEMMA UpToAll == ASSUME NEW lines \in Lines PROVE UpTo(lines, Len(lines)) = lines
BY SubSeqFull DEF UpTo, Lines

\* What is sent of lines is bytes, and begins with what is sent of the first ones.
LEMMA SentUpTo ==
    ASSUME NEW lines \in Lines, NEW n \in Nat, n < Len(lines)
    PROVE  Sent(UpTo(lines, n + 1)) = Sent(UpTo(lines, n)) \o Append(lines[n + 1], Newline)
BY UpToOneMore, SentOneMore

LEMMA SentIsBytes ==
    ASSUME NEW lines \in Lines, NEW m \in Nat, m <= Len(lines)
    PROVE  Sent(UpTo(lines, m)) \in Bytes
<1> DEFINE Good == {n \in Nat : n <= Len(lines) => Sent(UpTo(lines, n)) \in Bytes}
<1>0. Len(lines) \in Nat
    BY LenProperties DEF Lines
<1>1. 0 \in Good
    <2>1. <<>> \in Bytes
        BY EmptySeq DEF Bytes
    <2> QED BY <2>1, UpToNone, SentNothing
<1>2. ASSUME NEW n \in Good PROVE n + 1 \in Good
    <2>1. n \in Nat /\ n + 1 \in Nat /\ (n <= Len(lines) => Sent(UpTo(lines, n)) \in Bytes)
        OBVIOUS
    <2>2. ASSUME n + 1 <= Len(lines) PROVE Sent(UpTo(lines, n + 1)) \in Bytes
        <3>1. n < Len(lines) /\ n <= Len(lines)
            BY <1>0, <2>1, <2>2
        <3>2. Append(lines[n + 1], Newline) \in Bytes
            BY <2>1, <3>1, UpToOneMore, NewlineIsAByte, AppendProperties DEF Bytes
        <3>3. Sent(UpTo(lines, n + 1)) = Sent(UpTo(lines, n)) \o Append(lines[n + 1], Newline)
            BY <2>1, <3>1, SentUpTo
        <3> QED BY <2>1, <3>1, <3>2, <3>3, ConcatProperties DEF Bytes
    <2> QED BY <2>1, <2>2
<1>3. Good = Nat
    <2>1. Good \in SUBSET Nat
        OBVIOUS
    <2> HIDE DEF Good
    <2> QED BY <1>1, <1>2, <2>1, Induction
<1> QED BY <1>3

LEMMA SentBeginsWith ==
    ASSUME NEW lines \in Lines, NEW n \in Nat, n <= Len(lines)
    PROVE  \E rest \in Bytes : Sent(lines) = Sent(UpTo(lines, n)) \o rest
<1> DEFINE Begins(m) == \E rest \in Bytes :
                            Sent(UpTo(lines, m)) = Sent(UpTo(lines, n)) \o rest
           Good == {m \in Nat : m >= n /\ m <= Len(lines) => Begins(m)}
<1>0. Len(lines) \in Nat
    BY LenProperties DEF Lines
<1>a. Begins(n)
    <2>1. <<>> \in Bytes
        BY EmptySeq DEF Bytes
    <2>2. Sent(UpTo(lines, n)) = Sent(UpTo(lines, n)) \o <<>>
        BY SentIsBytes, ConcatEmptySeq DEF Bytes
    <2> QED BY <2>1, <2>2
<1>1. 0 \in Good
    <2>1. 0 >= n => n = 0
        OBVIOUS
    <2> HIDE DEF Begins
    <2> QED BY <1>a, <2>1
<1>2. ASSUME NEW m \in Good PROVE m + 1 \in Good
    <2>1. m \in Nat /\ m + 1 \in Nat /\ (m >= n /\ m <= Len(lines) => Begins(m))
        OBVIOUS
    <2>2. ASSUME m + 1 >= n, m + 1 <= Len(lines) PROVE Begins(m + 1)
        <3>1. CASE m + 1 = n
            BY <1>a, <3>1
        <3>2. CASE m + 1 # n
            <4>1. m >= n /\ m < Len(lines) /\ m <= Len(lines)
                BY <1>0, <2>1, <2>2, <3>2
            <4>2. PICK rest \in Bytes : Sent(UpTo(lines, m)) = Sent(UpTo(lines, n)) \o rest
                BY <2>1, <4>1
            <4>3. Append(lines[m + 1], Newline) \in Bytes
                BY <2>1, <4>1, UpToOneMore, NewlineIsAByte, AppendProperties DEF Bytes
            <4> DEFINE end == Append(lines[m + 1], Newline)
            <4>4. Sent(UpTo(lines, m + 1)) = Sent(UpTo(lines, m)) \o end
                BY <2>1, <4>1, SentUpTo
            <4>5. Sent(UpTo(lines, n)) \in Bytes
                BY SentIsBytes
            <4> HIDE DEF end
            <4>6. end \in Bytes
                BY <4>3 DEF end
            <4>7. (Sent(UpTo(lines, n)) \o rest) \o end = Sent(UpTo(lines, n)) \o (rest \o end)
                BY <4>5, <4>6, JoinIsAssociative
            <4>8. rest \o end \in Bytes
                BY <4>6, ConcatProperties DEF Bytes
            <4> QED BY <4>2, <4>4, <4>7, <4>8
        <3> QED BY <3>1, <3>2
    <2> HIDE DEF Begins
    <2> QED BY <2>1, <2>2
<1>3. Good = Nat
    <2>1. Good \in SUBSET Nat
        OBVIOUS
    <2> HIDE DEF Good
    <2> QED BY <1>1, <1>2, <2>1, Induction
<1>4. Begins(Len(lines))
    <2> HIDE DEF Begins
    <2> QED BY <1>0, <1>3
<1> QED BY <1>4, UpToAll

\* What is still to come behind the first n lines begins with the next.
LEMMA NextLine ==
    ASSUME NEW lines \in Lines, NEW n \in Nat, n < Len(lines),
           NEW remaining \in Bytes, Sent(UpTo(lines, n)) \o remaining = Sent(lines)
    PROVE  \E rest \in Bytes : remaining = Append(lines[n + 1], Newline) \o rest
<1> DEFINE before == Sent(UpTo(lines, n))
           end == Append(lines[n + 1], Newline)
<1>1. n + 1 \in Nat /\ n + 1 <= Len(lines) /\ n <= Len(lines)
    BY LenProperties DEF Lines
<1>2. before \in Bytes /\ end \in Bytes
    BY <1>1, SentIsBytes, UpToOneMore, NewlineIsAByte, AppendProperties DEF Bytes
<1>3. Sent(UpTo(lines, n + 1)) = before \o end
    BY SentUpTo
<1>4. PICK rest \in Bytes : Sent(lines) = Sent(UpTo(lines, n + 1)) \o rest
    BY <1>1, SentBeginsWith
<1> HIDE DEF before, end
<1>5. (before \o end) \o rest = before \o (end \o rest)
    BY <1>2, JoinIsAssociative
<1>6. end \o rest \in Bytes
    BY <1>2, ConcatProperties DEF Bytes
<1>7. before \o remaining = before \o (end \o rest)
    BY <1>3, <1>4, <1>5 DEF before
<1>8. remaining = end \o rest
    BY <1>2, <1>6, <1>7, JoinCancels
<1> QED BY <1>8 DEF end

\* Nothing is to come behind the last line.
LEMMA NoLineLeft ==
    ASSUME NEW lines \in Lines, NEW remaining \in Bytes,
           Sent(UpTo(lines, Len(lines))) \o remaining = Sent(lines)
    PROVE  remaining = <<>>
<1>1. Sent(lines) \in Bytes
    BY UpToAll, SentIsBytes, LenProperties DEF Lines
<1> QED BY <1>1, UpToAll, ConcatSimplifications DEF Bytes


\* A sequence of bytes cut in two.
LEMMA Cut ==
    ASSUME NEW s \in Bytes, NEW n \in 0..Len(s)
    PROVE  /\ SubSeq(s, 1, n) \in Bytes /\ Len(SubSeq(s, 1, n)) = n
           /\ Drop(s, n) \in Bytes /\ Len(Drop(s, n)) = Len(s) - n
           /\ SubSeq(s, 1, n) \o Drop(s, n) = s
<1>1. Len(s) \in Nat /\ \A i \in 1..Len(s) : s[i] \in Byte
    BY LenProperties, ElementOfSeq DEF Bytes
<1>2. SubSeq(s, 1, n) \in Seq(Byte) /\ Len(SubSeq(s, 1, n)) = n
    <2>1. \A i \in 1..n : s[i] \in Byte
        BY <1>1
    <2>2. /\ SubSeq(s, 1, n) \in Seq(Byte)
          /\ Len(SubSeq(s, 1, n)) = IF 1 <= n THEN n - 1 + 1 ELSE 0
        BY <1>1, <2>1, SubSeqProperties
    <2> QED BY <2>2
<1>3. SubSeq(s, n + 1, Len(s)) \in Seq(Byte) /\ Len(SubSeq(s, n + 1, Len(s))) = Len(s) - n
    <2>1. \A i \in (n + 1)..Len(s) : s[i] \in Byte
        BY <1>1
    <2>2. n + 1 \in Int /\ Len(s) \in Int
        BY <1>1
    <2>3. /\ SubSeq(s, n + 1, Len(s)) \in Seq(Byte)
          /\ Len(SubSeq(s, n + 1, Len(s)))
                = IF n + 1 <= Len(s) THEN Len(s) - (n + 1) + 1 ELSE 0
        BY <2>1, <2>2, SubSeqProperties
    <2> QED BY <1>1, <2>3
<1>4. SubSeq(s, 1, n) \o SubSeq(s, n + 1, Len(s)) = SubSeq(s, 1, Len(s))
    <2>1. 1 \in 1..(Len(s) + 1) /\ n \in (1 - 1)..Len(s) /\ Len(s) \in n..Len(s)
        BY <1>1
    <2> QED BY <2>1, ConcatAdjacentSubSeq DEF Bytes
<1>5. SubSeq(s, 1, Len(s)) = s
    BY SubSeqFull DEF Bytes
<1> QED BY <1>2, <1>3, <1>4, <1>5 DEF Drop, Bytes

\* The buffer begins with this line, and readLine takes it off.
BeginsWith(front, line) ==
    /\ LineEnd(front) = Len(line) + 1
    /\ SubSeq(front, 1, LineEnd(front) - 1) = line
    /\ Behind(front) \in Bytes
    /\ front = Append(line, Newline) \o Behind(front)

\* What readLine makes of a buffer that begins what is still to come.
LEMMA FirstLine ==
    ASSUME NEW front \in Bytes, NEW back \in Bytes, NEW line \in Bytes, NEW rest \in Bytes,
           front \o back = Append(line, Newline) \o rest,
           \A i \in 1..Len(line) : line[i] # Newline
    PROVE  /\ Newlines(front) = {} => Len(front) <= Len(line)
           /\ Newlines(front) # {} => BeginsWith(front, line)
<1> DEFINE m == Len(line)
           end == Append(line, Newline)
           n == Len(front)
           head(k) == SubSeq(front, 1, k)
<1>1. /\ m \in Nat /\ n \in Nat /\ end \in Bytes /\ Len(end) = m + 1
      /\ end[m + 1] = Newline /\ \A i \in 1..m : end[i] = line[i]
    BY NewlineIsAByte, AppendProperties, LenProperties DEF Bytes
<1>2. \A i \in 1..n : (front \o back)[i] = front[i]
    <2>1. /\ Len(back) \in Nat
          /\ \A i \in 1..(n + Len(back)) :
                (front \o back)[i] = IF i <= n THEN front[i] ELSE back[i - n]
        BY LenProperties, ConcatProperties DEF Bytes
    <2> QED BY <1>1, <2>1
<1>3. \A i \in 1..(m + 1) : (end \o rest)[i] = end[i]
    <2> HIDE DEF end
    <2>1. /\ Len(rest) \in Nat
          /\ \A i \in 1..(Len(end) + Len(rest)) :
                (end \o rest)[i] = IF i <= Len(end) THEN end[i] ELSE rest[i - Len(end)]
        BY <1>1, LenProperties, ConcatProperties DEF Bytes
    <2> QED BY <1>1, <2>1
<1>4. \A i \in 1..n : i <= m + 1 => front[i] = end[i]
    <2> DEFINE whole == front \o back
    <2>1. \A i \in 1..n : whole[i] = front[i]
        BY <1>2
    <2>2. \A i \in 1..(m + 1) : whole[i] = end[i]
        BY <1>3
    <2> HIDE DEF whole, end
    <2> QED BY <1>1, <2>1, <2>2
<1>5. DOMAIN front = 1..n
    BY LenProperties DEF Bytes
<1>6. \A i \in 1..n : front[i] = Newline => i >= m + 1
    <2> HIDE DEF end
    <2> QED BY <1>1, <1>4
<1>7. n >= m + 1 => front[m + 1] = Newline
    <2> HIDE DEF end
    <2> QED BY <1>1, <1>4
<1>8. ASSUME Newlines(front) = {} PROVE n <= m
    <2>1. n >= m + 1 => m + 1 \in Newlines(front)
        BY <1>1, <1>5, <1>7 DEF Newlines
    <2> QED BY <1>1, <1>8, <2>1
<1>9. ASSUME Newlines(front) # {}
      PROVE  LineEnd(front) = m + 1 /\ n >= m + 1
    <2>1. PICK i \in Newlines(front) : TRUE
        BY <1>9
    <2>2. i \in 1..n /\ i >= m + 1
        BY <2>1, <1>5, <1>6 DEF Newlines
    <2>3. m + 1 \in Newlines(front)
        BY <2>2, <1>1, <1>5, <1>7 DEF Newlines
    <2>4. \A j \in Newlines(front) : j \in Nat /\ m + 1 <= j
        BY <1>5, <1>6 DEF Newlines
    <2>5. \A k \in Newlines(front) :
             (\A j \in Newlines(front) : k <= j) => k = m + 1
        BY <2>3, <2>4, <1>1
    <2>6. \E k \in Newlines(front) : \A j \in Newlines(front) : k <= j
        BY <2>3, <2>4
    <2>7. LineEnd(front) = m + 1
        BY <2>5, <2>6 DEF LineEnd
    <2> QED BY <2>2, <2>7, <1>1
<1>10. ASSUME n >= m + 1
       PROVE  /\ head(m) = line
              /\ head(m + 1) = end
    <2>1. m \in 0..n /\ m + 1 \in 0..n
        BY <1>1, <1>10
    <2>2. head(m) \in Bytes /\ Len(head(m)) = m /\ head(m + 1) \in Bytes /\ Len(head(m + 1)) = m + 1
        <3> HIDE DEF m, n
        <3> QED BY <2>1, Cut DEF n
    <2>3. \A i \in 1..n : front[i] \in Byte
        BY ElementOfSeq DEF Bytes
    <2>4. \A k \in 0..n : \A i \in 1..k : head(k)[i] = front[i]
        <3> SUFFICES ASSUME NEW k \in 0..n PROVE \A i \in 1..k : head(k)[i] = front[i]
            OBVIOUS
        <3>1. \A i \in 1..k : front[i] \in Byte
            BY <2>3, <1>1
        <3>2. k \in Int /\ \A i \in 1..(k - 1 + 1) : SubSeq(front, 1, k)[i] = front[1 + i - 1]
            BY <3>1, <1>1, SubSeqProperties
        <3> QED BY <3>2, <1>1
    <2>5. \A i \in 1..m : head(m)[i] = line[i]
        <3> HIDE DEF head, end
        <3> QED BY <2>1, <2>4, <1>1, <1>4
    <2>6. \A i \in 1..(m + 1) : head(m + 1)[i] = end[i]
        <3> HIDE DEF head, end
        <3> QED BY <2>1, <2>4, <1>1, <1>4
    <2>7. head(m) = line
        <3> HIDE DEF head
        <3> QED BY <2>2, <2>5, SeqEqual DEF Bytes
    <2>8. head(m + 1) = end
        <3> HIDE DEF head, end
        <3> QED BY <2>2, <2>6, <1>1, SeqEqual DEF Bytes
    <2> QED BY <2>7, <2>8
<1>11. ASSUME n >= m + 1
       PROVE  Drop(front, m + 1) \in Bytes /\ front = head(m + 1) \o Drop(front, m + 1)
    <2>1. m + 1 \in 0..Len(front)
        BY <1>1, <1>11
    <2> HIDE DEF m
    <2> QED BY <2>1, Cut
<1>12. ASSUME Newlines(front) # {}
       PROVE  BeginsWith(front, line)
    <2>1. LineEnd(front) = m + 1 /\ n >= m + 1
        BY <1>9, <1>12
    <2>2. (m + 1) - 1 = m
        BY <1>1
    <2>3. Behind(front) = Drop(front, m + 1)
        BY <2>1 DEF Behind
    <2>4. SubSeq(front, 1, LineEnd(front) - 1) = head(m)
        BY <2>1, <2>2
    <2>5. head(m) = line /\ head(m + 1) = end
        BY <1>10, <2>1
    <2>6. Drop(front, m + 1) \in Bytes /\ front = head(m + 1) \o Drop(front, m + 1)
        BY <1>11, <2>1
    <2> HIDE DEF head, m, n
    <2>7. front = end \o Behind(front)
        BY <2>3, <2>5, <2>6
    <2> QED BY <2>1, <2>3, <2>4, <2>5, <2>6, <2>7 DEF BeginsWith, m, end
<1> QED BY <1>8, <1>12

-----------------------------------------------------------------------------
(* The messages of a script *)

Bodies(lengths) == [i \in DOMAIN lengths |-> Body(i, lengths[i])]

LEMMA BodyIsBytes ==
    ASSUME NEW i \in Nat \ {0}, NEW length \in Nat \ {0}
    PROVE  /\ Body(i, length) \in Bytes /\ Len(Body(i, length)) = length
           /\ Body(i, length) # <<>>
           /\ \A k \in 1..length : Body(i, length)[k] # Newline
<1>1. Body(i, length) \in [1..length -> Byte]
    BY DEF Body, Byte
<1>2. Body(i, length) \in Seq(Byte) /\ Len(Body(i, length)) = length
    BY <1>1
<1>3. Body(i, length) # <<>>
    BY <1>2, EmptySeq
<1> QED BY <1>2, <1>3 DEF Body, Bytes, Newline

LEMMA BodiesAreLines ==
    ASSUME NEW lengths \in Seq(Nat \ {0})
    PROVE  /\ Bodies(lengths) \in Lines /\ Len(Bodies(lengths)) = Len(lengths)
           /\ Len(lengths) \in Nat
           /\ \A i \in 1..Len(lengths) :
                 /\ Bodies(lengths)[i] = Body(i, lengths[i])
                 /\ lengths[i] \in Nat \ {0}
           /\ Wire(lengths) = Sent(Bodies(lengths))
<1>1. Len(lengths) \in Nat /\ DOMAIN lengths = 1..Len(lengths)
    BY LenProperties
<1>2. \A i \in 1..Len(lengths) : lengths[i] \in Nat \ {0}
    BY ElementOfSeq
<1>3. \A i \in 1..Len(lengths) : Body(i, lengths[i]) \in Bytes
    <2> TAKE i \in 1..Len(lengths)
    <2>1. i \in Nat \ {0}
        BY <1>1
    <2> QED BY <1>2, <2>1, BodyIsBytes
<1>4. Bodies(lengths) = [i \in 1..Len(lengths) |-> Body(i, lengths[i])]
    BY <1>1 DEF Bodies
<1>5. Bodies(lengths) \in [1..Len(lengths) -> Bytes]
    BY <1>3, <1>4
<1>6. Bodies(lengths) \in Lines /\ Len(Bodies(lengths)) = Len(lengths)
    BY <1>1, <1>5 DEF Lines
<1>7. \A i \in 1..Len(lengths) : Bodies(lengths)[i] = Body(i, lengths[i])
    BY <1>4
<1>8. DOMAIN Bodies(lengths) = DOMAIN lengths
    BY DEF Bodies
<1>9. Framed(Bodies(lengths)) = [i \in DOMAIN lengths |-> Append(Body(i, lengths[i]), Newline)]
    BY <1>1, <1>7, <1>8 DEF Framed
<1>10. Wire(lengths) = Sent(Bodies(lengths))
    BY <1>9 DEF Wire, Sent
<1> QED BY <1>1, <1>2, <1>6, <1>7, <1>10


-----------------------------------------------------------------------------
(* The invariant *)

Rest == buffer \o (pipe \o unsent)

\* Every line that was returned is a message, and the stream goes on behind its
\* newline.
CutAtNewline ==
    /\ Len(returned) <= Len(script)
    /\ returned = UpTo(Bodies(script), Len(returned))
    /\ Sent(returned) \o Rest = Wire(script)

\* The last line was returned without its newline, at the end of the file.  The
\* caller goes on reading only when that was all it lacked.
CutInside ==
    \E n \in 0..(Len(script) - 1) :
        LET part == returned[n + 1] IN
            /\ Len(returned) = n + 1
            /\ returned = Append(UpTo(Bodies(script), n), part)
            /\ part \in Bytes
            /\ Sent(UpTo(Bodies(script), n)) \o (part \o Rest) = Wire(script)
            /\ reading \in {"poll", "readLine"} => part = Bodies(script)[n + 1]

StreamIsCut == reading # "refused" => CutAtNewline \/ CutInside

IInv == TypeOK /\ StreamIsCut /\ NoLineWaits /\ RefusesOnlyLong

\* What the types say of the bytes.
LEMMA TypesOfBytes ==
    ASSUME TypeOK
    PROVE  /\ script \in Seq(Nat \ {0})
           /\ buffer \in Bytes /\ pipe \in Bytes /\ unsent \in Bytes /\ Rest \in Bytes
           /\ pipe \o unsent \in Bytes
           /\ returned \in Lines /\ Len(returned) \in Nat
<1>1. script \in Seq(Nat \ {0})
    BY LineReaderAssumption DEF TypeOK
<1>2. buffer \in Bytes /\ pipe \in Bytes /\ unsent \in Bytes /\ returned \in Lines
    BY DEF TypeOK, Bytes, Lines
<1>3. pipe \o unsent \in Bytes
    BY <1>2, Joins
<1>4. Rest \in Bytes
    BY <1>2, <1>3, Joins DEF Rest
<1>5. Len(returned) \in Nat
    BY <1>2, LenProperties DEF Lines
<1> QED BY <1>1, <1>2, <1>3, <1>4, <1>5

\* Behind a newline comes the next message, if there is one.
LEMMA BehindNewline ==
    ASSUME TypeOK, CutAtNewline, Rest # <<>>
    PROVE  /\ Len(returned) < Len(script)
           /\ \E rest \in Bytes :
                 Rest = Append(Bodies(script)[Len(returned) + 1], Newline) \o rest
<1> DEFINE n == Len(returned)
           lines == Bodies(script)
<1>1. /\ script \in Seq(Nat \ {0}) /\ Rest \in Bytes /\ n \in Nat
    BY TypesOfBytes
<1>2. lines \in Lines /\ Len(lines) = Len(script) /\ Wire(script) = Sent(lines) /\ Len(script) \in Nat
    BY <1>1, BodiesAreLines
<1>3. n <= Len(lines) /\ Sent(UpTo(lines, n)) \o Rest = Sent(lines)
    BY <1>2 DEF CutAtNewline
<1> HIDE DEF n, lines
<1>4. n # Len(lines)
    <2> SUFFICES ASSUME n = Len(lines) PROVE FALSE
        OBVIOUS
    <2> QED BY <1>1, <1>2, <1>3, NoLineLeft
<1>5. n < Len(lines)
    BY <1>1, <1>2, <1>3, <1>4
<1>6. \E rest \in Bytes : Rest = Append(lines[n + 1], Newline) \o rest
    BY <1>1, <1>2, <1>3, <1>5, NextLine
<1> QED BY <1>2, <1>5, <1>6 DEF n, lines

\* Behind a message that lacks its newline comes that newline.
LEMMA BehindMessage ==
    ASSUME TypeOK, CutInside, reading \in {"poll", "readLine"}
    PROVE  /\ Len(returned) \in 1..Len(script)
           /\ returned = UpTo(Bodies(script), Len(returned))
           /\ \E rest \in Bytes :
                 /\ Rest = Append(<<>>, Newline) \o rest
                 /\ Sent(returned) \o rest = Wire(script)
<1> DEFINE lines == Bodies(script)
<1>1. script \in Seq(Nat \ {0}) /\ Rest \in Bytes
    BY TypesOfBytes
<1>2. lines \in Lines /\ Len(lines) = Len(script) /\ Wire(script) = Sent(lines) /\ Len(script) \in Nat
    BY <1>1, BodiesAreLines
<1>3. PICK n \in 0..(Len(script) - 1) :
         /\ Len(returned) = n + 1
         /\ returned = Append(UpTo(lines, n), lines[n + 1])
         /\ Sent(UpTo(lines, n)) \o (lines[n + 1] \o Rest) = Wire(script)
    BY DEF CutInside
<1> HIDE DEF lines
<1>4. n \in Nat /\ n < Len(lines) /\ n + 1 <= Len(lines) /\ n <= Len(lines) /\ n + 1 \in Nat
    BY <1>2, <1>3
<1>5. lines[n + 1] \in Bytes /\ returned = UpTo(lines, n + 1)
    BY <1>2, <1>3, <1>4, UpToOneMore
<1>6. lines[n + 1] \o Rest \in Bytes
    BY <1>1, <1>5, Joins
<1>7. PICK rest \in Bytes : lines[n + 1] \o Rest = Append(lines[n + 1], Newline) \o rest
    <2> DEFINE remaining == lines[n + 1] \o Rest
    <2>1. remaining \in Bytes /\ Sent(UpTo(lines, n)) \o remaining = Sent(lines)
        BY <1>2, <1>3, <1>6
    <2> HIDE DEF remaining
    <2>2. \E rest \in Bytes : remaining = Append(lines[n + 1], Newline) \o rest
        BY <1>2, <1>4, <2>1, NextLine
    <2> QED BY <2>2 DEF remaining
<1> DEFINE end == <<Newline>>
<1>8. end \in Bytes /\ Append(lines[n + 1], Newline) = lines[n + 1] \o end
    BY <1>5, NewlineIsAByte, AppendIsConcat DEF Bytes
<1>9. Append(<<>>, Newline) = end
    OBVIOUS
<1> HIDE DEF end
<1>10. end \o rest \in Bytes /\ (lines[n + 1] \o end) \o rest = lines[n + 1] \o (end \o rest)
    BY <1>5, <1>8, Joins, JoinIsAssociative
<1>11. Rest = end \o rest
    BY <1>1, <1>5, <1>7, <1>8, <1>10, JoinCancels
<1>12. Sent(UpTo(lines, n)) \in Bytes /\ Append(lines[n + 1], Newline) \in Bytes
    BY <1>2, <1>4, <1>5, <1>8, SentIsBytes, Joins
<1>13. Sent(UpTo(lines, n + 1)) = Sent(UpTo(lines, n)) \o Append(lines[n + 1], Newline)
    BY <1>2, <1>4, SentUpTo
<1>14. (Sent(UpTo(lines, n)) \o Append(lines[n + 1], Newline)) \o rest
          = Sent(UpTo(lines, n)) \o (Append(lines[n + 1], Newline) \o rest)
    BY <1>12, JoinIsAssociative
<1>15. Sent(returned) \o rest = Wire(script)
    BY <1>3, <1>5, <1>7, <1>13, <1>14
<1>16. Len(returned) \in 1..Len(script) /\ returned = UpTo(lines, Len(returned))
    BY <1>2, <1>3, <1>4, <1>5
<1>17. Rest = Append(<<>>, Newline) \o rest
    BY <1>9, <1>11
<1> QED BY <1>15, <1>16, <1>17 DEF lines

-----------------------------------------------------------------------------
(* Its steps *)

\* The bytes of a step that takes no line stay where they are in the stream.
LEMMA StreamStays ==
    ASSUME StreamIsCut, UNCHANGED <<script, returned>>, Rest' = Rest,
           reading # "refused",
           reading' \in {"poll", "readLine"} => reading \in {"poll", "readLine"}
    PROVE  StreamIsCut'
<1>1. CASE CutAtNewline
    <2>1. CutAtNewline'
        BY <1>1 DEF CutAtNewline
    <2> QED BY <2>1 DEF StreamIsCut
<1>2. CASE CutInside
    <2>1. CutInside'
        BY <1>2 DEF CutInside
    <2> QED BY <2>1 DEF StreamIsCut
<1> QED BY <1>1, <1>2 DEF StreamIsCut

LEMMA WriteKeeps ==
    ASSUME IInv, Write
    PROVE  IInv'
<1> USE DEF IInv
<1>1. PICK n \in 1..Len(unsent) :
         pipe' = pipe \o SubSeq(unsent, 1, n) /\ unsent' = Drop(unsent, n)
    BY DEF Write
<1>2. /\ UNCHANGED <<script, faulty, open, buffer, reading, returned>>
    BY DEF Write
<1>3. buffer \in Bytes /\ pipe \in Bytes /\ unsent \in Bytes /\ Len(unsent) \in Nat
    BY TypesOfBytes, Joins
<1> DEFINE written == SubSeq(unsent, 1, n)
           left == Drop(unsent, n)
<1>4. written \in Bytes /\ left \in Bytes /\ written \o left = unsent
    <2>1. n \in 0..Len(unsent)
        BY <1>3
    <2> QED BY <1>3, <2>1, Cut
<1>5. pipe' = pipe \o written /\ unsent' = left
    BY <1>1
<1> HIDE DEF written, left
<1>6. pipe' \in Bytes /\ unsent' \in Bytes
    BY <1>3, <1>4, <1>5, Joins
<1>7. pipe' \o unsent' = pipe \o unsent
    BY <1>3, <1>4, <1>5, JoinIsAssociative
<1>8. Rest' = Rest
    BY <1>2, <1>7 DEF Rest
<1>9. TypeOK'
    BY <1>2, <1>6 DEF TypeOK, Bytes
<1>10. StreamIsCut'
    <2>1. CASE reading = "refused"
        BY <1>2, <2>1 DEF StreamIsCut
    <2>2. CASE reading # "refused"
        BY <1>2, <1>8, <2>2, StreamStays
    <2> QED BY <2>1, <2>2
<1>11. NoLineWaits' /\ RefusesOnlyLong'
    BY <1>2 DEF NoLineWaits, RefusesOnlyLong
<1> QED BY <1>9, <1>10, <1>11

\* Neither the end of the peer nor poll moves a byte.
LEMMA WaitingKeeps ==
    ASSUME IInv, HangUp \/ Poll \/ Over \/ UNCHANGED vars
    PROVE  IInv'
<1> USE DEF IInv
<1>1. /\ UNCHANGED <<script, faulty, unsent, pipe, buffer, returned>>
      /\ open' \in {open, FALSE}
      /\ reading' = reading \/ (reading = "poll" /\ reading' = "readLine")
    BY DEF HangUp, Poll, Over, vars
<1>2. TypeOK'
    BY <1>1 DEF TypeOK
<1>3. Rest' = Rest
    BY <1>1 DEF Rest
<1>4. StreamIsCut'
    <2>1. CASE reading = "refused"
        BY <1>1, <2>1 DEF StreamIsCut
    <2>2. CASE reading # "refused"
        BY <1>1, <1>3, <2>2, StreamStays
    <2> QED BY <2>1, <2>2
<1>5. NoLineWaits' /\ RefusesOnlyLong'
    BY <1>1 DEF NoLineWaits, RefusesOnlyLong
<1> QED BY <1>2, <1>4, <1>5


\* A line is taken whole, or is the newline that a message had still to have.
LEMMA TakeLineKeeps ==
    ASSUME IInv, TakeLine
    PROVE  IInv'
<1> USE DEF IInv
<1> DEFINE line == SubSeq(buffer, 1, LineEnd(buffer) - 1)
           left == Behind(buffer)
           tail == pipe \o unsent
<1>1. /\ reading = "readLine" /\ Newlines(buffer) # {}
      /\ returned' = IF line = <<>> THEN returned ELSE Append(returned, line)
      /\ buffer' = left
      /\ reading' = AfterLine(line, left)
      /\ UNCHANGED <<script, faulty, unsent, open, pipe>>
    BY DEF TakeLine
<1>2. /\ script \in Seq(Nat \ {0}) /\ buffer \in Bytes /\ tail \in Bytes /\ Rest \in Bytes
      /\ returned \in Lines /\ Len(returned) \in Nat
      /\ Rest = buffer \o tail
    BY TypesOfBytes DEF Rest
<1>3. /\ Len(script) \in Nat /\ Bodies(script) \in Lines /\ Len(Bodies(script)) = Len(script)
      /\ Wire(script) = Sent(Bodies(script))
      /\ \A i \in 1..Len(script) : Bodies(script)[i] = Body(i, script[i]) /\ script[i] \in Nat \ {0}
    BY <1>2, BodiesAreLines
<1>4. buffer # <<>>
    BY <1>1 DEF Newlines
<1>5. Rest # <<>>
    <2>1. Len(buffer) \in Nat \ {0}
        BY <1>2, <1>4, EmptySeq DEF Bytes
    <2>2. Len(Rest) # 0
        BY <1>2, <2>1, Joins
    <2> QED BY <2>2, EmptySeq
<1>6. ASSUME NEW whole \in Bytes, NEW rest \in Bytes,
             Rest = Append(whole, Newline) \o rest,
             \A i \in 1..Len(whole) : whole[i] # Newline
      PROVE  /\ line = whole /\ left \in Bytes /\ Len(left) <= Len(buffer)
             /\ rest = left \o tail
    <2> DEFINE end == Append(whole, Newline)
    <2>1. line = whole /\ left \in Bytes /\ buffer = end \o left
        <3> HIDE DEF tail
        <3>1. buffer \o tail = Append(whole, Newline) \o rest
            BY <1>2, <1>6
        <3>2. Newlines(buffer) # {} /\ buffer \in Bytes /\ tail \in Bytes
            BY <1>1, <1>2
        <3>3. \A i \in 1..Len(whole) : whole[i] # Newline
            BY <1>6
        <3>4. BeginsWith(buffer, whole)
            BY <3>1, <3>2, <3>3, FirstLine
        <3> QED BY <3>4 DEF BeginsWith
    <2>2. end \in Bytes
        BY NewlineIsAByte, AppendProperties DEF Bytes
    <2> HIDE DEF line, left, tail, end
    <2>3. Len(left) <= Len(buffer)
        BY <2>1, <2>2, Joins
    <2>4. left \o tail \in Bytes
        BY <1>2, <2>1, Joins
    <2>a. (end \o left) \o tail = end \o (left \o tail)
        <3>1. end \in Bytes /\ left \in Bytes /\ tail \in Bytes
            BY <1>2, <2>1, <2>2
        <3> QED BY <3>1, JoinIsAssociative
    <2>5. end \o rest = end \o (left \o tail)
        BY <1>2, <1>6, <2>1, <2>a DEF end
    <2>6. rest = left \o tail
        BY <2>2, <2>4, <2>5, JoinCancels
    <2> QED BY <2>1, <2>3, <2>6
<1>7. Rest' = left \o tail
    BY <1>1 DEF Rest
<1> HIDE DEF left, tail
<1>8. CASE CutAtNewline
    <2> DEFINE n == Len(returned)
               next == Bodies(script)[n + 1]
    <2>1. n < Len(script) /\ \E rest \in Bytes : Rest = Append(next, Newline) \o rest
        BY <1>5, <1>8, BehindNewline
    <2>2. PICK rest \in Bytes : Rest = Append(next, Newline) \o rest
        BY <2>1
    <2>3. n + 1 \in 1..Len(script) /\ n + 1 \in Nat \ {0} /\ n \in Nat
        BY <1>2, <1>3, <2>1
    <2>4. next = Body(n + 1, script[n + 1]) /\ script[n + 1] \in Nat \ {0}
        BY <1>3, <2>3
    <2>5. next \in Bytes /\ next # <<>> /\ \A i \in 1..Len(next) : next[i] # Newline
        <3> HIDE DEF n, next
        <3> QED BY <2>3, <2>4, BodyIsBytes
    <2> HIDE DEF next
    <2>6. line = next /\ left \in Bytes /\ Len(left) <= Len(buffer) /\ rest = left \o tail
        BY <1>6, <2>2, <2>5
    <2> HIDE DEF line
    <2>7. returned' = Append(returned, next)
        BY <1>1, <2>5, <2>6
    <2>8. Len(returned') = n + 1 /\ returned' \in Lines
        BY <1>2, <2>5, <2>7, AppendProperties DEF Lines
    <2>9. returned' = UpTo(Bodies(script), n + 1)
        <3>1. UpTo(Bodies(script), n + 1) = Append(UpTo(Bodies(script), n), next)
            BY <1>3, <2>1, <2>3, UpToOneMore DEF next
        <3> QED BY <1>8, <2>7, <3>1 DEF CutAtNewline
    <2>10. Sent(returned') \o Rest' = Wire(script)
        <3>1. Sent(returned') = Sent(returned) \o Append(next, Newline)
            BY <1>2, <2>5, <2>7, SentOneMore
        <3>2. Sent(returned) \in Bytes /\ Append(next, Newline) \in Bytes
            <4>1. Sent(UpTo(Bodies(script), n)) \in Bytes
                BY <1>3, <2>1, <2>3, SentIsBytes
            <4> QED BY <1>8, <2>5, <4>1, NewlineIsAByte, AppendProperties DEF CutAtNewline, Bytes
        <3> DEFINE sent == Sent(returned)
                   end == Append(next, Newline)
        <3>3. sent \in Bytes /\ end \in Bytes /\ Sent(returned') = sent \o end /\ Rest = end \o rest
              /\ sent \o Rest = Wire(script) /\ Rest' = rest
            BY <1>7, <1>8, <2>2, <2>6, <3>1, <3>2 DEF CutAtNewline
        <3> HIDE DEF sent, end
        <3>4. (sent \o end) \o rest = sent \o (end \o rest)
            BY <3>3, JoinIsAssociative
        <3> QED BY <3>3, <3>4
    <2>11. CutAtNewline'
        <3>1. script' = script /\ Len(returned') <= Len(script)
            BY <1>1, <1>3, <2>1, <2>3, <2>8
        <3>2. returned' = UpTo(Bodies(script), Len(returned'))
            BY <2>8, <2>9
        <3> HIDE DEF n
        <3> QED BY <2>10, <3>1, <3>2 DEF CutAtNewline
    <2>12. reading' \in {"readLine", "poll"} /\ (reading' = "poll" => Newlines(left) = {})
        BY <1>1, <2>5, <2>6 DEF AfterLine, HasBufferedLine
    <2>13. TypeOK'
        <3>1. Len(left) <= Limit
            <4>1. Len(left) \in Nat /\ Len(buffer) \in Nat /\ Len(buffer) <= Limit /\ Limit \in Nat
                BY <1>2, <2>6, LineReaderAssumption, LenProperties DEF Bytes, TypeOK
            <4> QED BY <2>6, <4>1
        <3> QED BY <1>1, <2>6, <2>8, <2>12, <3>1 DEF TypeOK, Bytes, Lines
    <2> QED BY <1>1, <2>11, <2>12, <2>13 DEF StreamIsCut, NoLineWaits, RefusesOnlyLong
<1>9. CASE CutInside
    <2>1. PICK rest \in Bytes : Rest = Append(<<>>, Newline) \o rest /\ Sent(returned) \o rest = Wire(script)
        BY <1>1, <1>9, BehindMessage
    <2>2. Len(returned) \in 1..Len(script) /\ returned = UpTo(Bodies(script), Len(returned))
        BY <1>1, <1>9, BehindMessage
    <2> DEFINE whole == <<>>
    <2>3. whole \in Bytes /\ \A i \in 1..Len(whole) : whole[i] # Newline
        BY EmptySeq DEF Bytes
    <2>4. Rest = Append(whole, Newline) \o rest
        BY <2>1
    <2>5. whole = <<>>
        OBVIOUS
    <2> HIDE DEF whole
    <2>6. line = whole /\ left \in Bytes /\ Len(left) <= Len(buffer) /\ rest = left \o tail
        BY <1>6, <2>3, <2>4
    <2> HIDE DEF line
    <2>7. returned' = returned /\ reading' = "ended"
        BY <1>1, <2>5, <2>6 DEF AfterLine
    <2>8. Sent(returned') \o Rest' = Wire(script)
        BY <1>7, <2>1, <2>6, <2>7
    <2>9. CutAtNewline'
        BY <1>1, <1>2, <1>3, <2>2, <2>7, <2>8 DEF CutAtNewline
    <2>10. TypeOK'
        <3>1. Len(left) <= Limit
            <4>1. Len(left) \in Nat /\ Len(buffer) \in Nat /\ Len(buffer) <= Limit /\ Limit \in Nat
                BY <1>2, <2>6, LineReaderAssumption, LenProperties DEF Bytes, TypeOK
            <4> QED BY <2>6, <4>1
        <3> QED BY <1>1, <2>6, <2>7, <3>1 DEF TypeOK, Bytes
    <2> QED BY <1>1, <2>7, <2>9, <2>10 DEF StreamIsCut, NoLineWaits, RefusesOnlyLong
<1> QED BY <1>1, <1>8, <1>9 DEF StreamIsCut

\* While no newline has come, the buffer is the beginning of one message.
LEMMA BufferIsOfOneMessage ==
    ASSUME TypeOK, StreamIsCut, reading = "readLine", Newlines(buffer) = {}, buffer # <<>>
    PROVE  /\ CutAtNewline /\ Len(returned) < Len(script)
           /\ Len(buffer) <= script[Len(returned) + 1]
<1>1. /\ script \in Seq(Nat \ {0}) /\ buffer \in Bytes /\ pipe \o unsent \in Bytes
      /\ Rest \in Bytes /\ Len(returned) \in Nat
      /\ Rest = buffer \o (pipe \o unsent)
    BY TypesOfBytes DEF Rest
<1> DEFINE tail == pipe \o unsent
<1> HIDE DEF tail
<1>2. Len(buffer) \in Nat \ {0}
    BY <1>1, EmptySeq DEF Bytes
<1>3. CutAtNewline
    <2> SUFFICES ASSUME CutInside PROVE FALSE
        BY DEF StreamIsCut
    <2>1. PICK rest \in Bytes : Rest = Append(<<>>, Newline) \o rest
        BY BehindMessage
    <2> DEFINE whole == <<>>
    <2>2. whole \in Bytes /\ Len(whole) = 0 /\ \A i \in 1..Len(whole) : whole[i] # Newline
        BY EmptySeq DEF Bytes
    <2>3. Rest = Append(whole, Newline) \o rest
        BY <2>1
    <2> HIDE DEF whole
    <2>4. buffer \o tail = Append(whole, Newline) \o rest /\ tail \in Bytes
        BY <1>1, <2>3 DEF tail
    <2>5. Len(buffer) <= Len(whole)
        BY <1>1, <2>2, <2>4, FirstLine
    <2> QED BY <1>2, <2>2, <2>5
<1>4. Rest # <<>>
    <2>1. Len(Rest) # 0
        BY <1>1, <1>2, Joins
    <2> QED BY <2>1, EmptySeq
<1> DEFINE n == Len(returned)
           next == Bodies(script)[n + 1]
<1>5. n < Len(script)
    BY <1>3, <1>4, BehindNewline
<1>6. PICK rest \in Bytes : Rest = Append(next, Newline) \o rest
    BY <1>3, <1>4, BehindNewline
<1>7. /\ Len(script) \in Nat
      /\ \A i \in 1..Len(script) : Bodies(script)[i] = Body(i, script[i]) /\ script[i] \in Nat \ {0}
    BY <1>1, BodiesAreLines
<1>8. n + 1 \in 1..Len(script) /\ n + 1 \in Nat \ {0}
    BY <1>1, <1>5, <1>7
<1>9. next = Body(n + 1, script[n + 1]) /\ script[n + 1] \in Nat \ {0}
    BY <1>7, <1>8
<1> HIDE DEF n, next
<1>10. next \in Bytes /\ Len(next) = script[n + 1]
    BY <1>8, <1>9, BodyIsBytes
<1>11. \A i \in 1..Len(next) : next[i] # Newline
    BY <1>8, <1>9, BodyIsBytes
<1>12. buffer \o tail = Append(next, Newline) \o rest /\ tail \in Bytes
    BY <1>1, <1>6 DEF tail
<1>13. Len(buffer) <= Len(next)
    BY <1>1, <1>10, <1>11, <1>12, FirstLine
<1> QED BY <1>3, <1>5, <1>10, <1>13 DEF n


\* What a read gets goes behind what is buffered.  When that is too long, then
\* since a read alone is not, a message is.
LEMMA ReadChunkKeeps ==
    ASSUME IInv, ReadChunk
    PROVE  IInv'
<1> USE DEF IInv
<1> DEFINE got == IF Len(pipe) < Chunk THEN Len(pipe) ELSE Chunk
           chunk == SubSeq(pipe, 1, got)
           left == Drop(pipe, got)
           filled == buffer \o chunk
<1>1. /\ reading = "readLine" /\ Newlines(buffer) = {} /\ pipe # <<>>
      /\ pipe' = left
      /\ \/ Len(filled) > Limit /\ buffer' = <<>> /\ reading' = "refused"
         \/ ~(Len(filled) > Limit) /\ buffer' = filled /\ reading' = reading
      /\ UNCHANGED <<script, faulty, unsent, open, returned>>
    BY DEF ReadChunk, TooLong
<1>2. /\ Limit \in Nat \ {0} /\ Chunk \in Nat \ {0} /\ Chunk <= Limit
    BY LineReaderAssumption
<1>3. /\ script \in Seq(Nat \ {0}) /\ buffer \in Bytes /\ pipe \in Bytes /\ unsent \in Bytes
    BY TypesOfBytes
<1>4. Len(pipe) \in Nat /\ Len(buffer) \in Nat
    BY <1>3, LenProperties DEF Bytes
<1>5. got \in 0..Len(pipe) /\ got <= Chunk /\ got \in Nat
    BY <1>2, <1>4
<1> HIDE DEF got
<1>6. chunk \in Bytes /\ left \in Bytes /\ Len(chunk) = got /\ chunk \o left = pipe
    BY <1>3, <1>5, Cut
<1> HIDE DEF chunk, left
<1>7. filled \in Bytes /\ Len(filled) = Len(buffer) + got
    BY <1>3, <1>6, Joins
<1>8. filled \o (left \o unsent) = buffer \o (pipe \o unsent)
    <2>1. left \o unsent \in Bytes
        BY <1>3, <1>6, Joins
    <2>a. buffer \in Bytes /\ chunk \in Bytes /\ left \in Bytes /\ unsent \in Bytes
        BY <1>3, <1>6
    <2>2. (buffer \o chunk) \o (left \o unsent) = buffer \o (chunk \o (left \o unsent))
        BY <2>1, <2>a, JoinIsAssociative
    <2>3. (chunk \o left) \o unsent = chunk \o (left \o unsent)
        BY <2>a, JoinIsAssociative
    <2>4. (chunk \o left) \o unsent = pipe \o unsent
        BY <1>6
    <2> QED BY <2>2, <2>3, <2>4
<1> HIDE DEF filled
<1>9. CASE Len(filled) > Limit
    <2>1. buffer' = <<>> /\ reading' = "refused" /\ returned' = returned /\ script' = script
        BY <1>1, <1>9
    <2>2. Len(buffer) > 0
        BY <1>2, <1>4, <1>5, <1>7, <1>9
    <2>3. buffer # <<>>
        BY <2>2, EmptySeq
    <2>4. /\ CutAtNewline /\ Len(returned) < Len(script)
          /\ Len(buffer) <= script[Len(returned) + 1]
        BY <1>1, <2>3, BufferIsOfOneMessage
    <2>5. script[Len(returned) + 1] \in Nat
        <3>1. /\ Len(returned) \in Nat /\ Len(script) \in Nat
              /\ \A i \in 1..Len(script) : script[i] \in Nat
            BY <1>3, TypesOfBytes, LenProperties, ElementOfSeq
        <3>2. Len(returned) + 1 \in 1..Len(script)
            BY <2>4, <3>1
        <3> QED BY <3>1, <3>2
    <2>6. script[Len(returned) + 1] + Chunk > Limit
        BY <1>2, <1>4, <1>5, <1>7, <1>9, <2>4, <2>5
    <2>7. RefusesOnlyLong'
        BY <1>1, <2>1, <2>6 DEF RefusesOnlyLong
    <2>8. TypeOK'
        <3>1. <<>> \in Seq(Byte) /\ Len(<<>>) = 0
            BY EmptySeq
        <3> QED BY <1>1, <1>2, <1>6, <2>1, <3>1 DEF TypeOK, Bytes
    <2> QED BY <2>1, <2>7, <2>8 DEF StreamIsCut, NoLineWaits
<1>10. CASE ~(Len(filled) > Limit)
    <2>1. buffer' = filled /\ reading' = "readLine"
        BY <1>1, <1>10
    <2>2. Rest' = Rest
        BY <1>1, <1>8, <2>1 DEF Rest
    <2>3. StreamIsCut'
        BY <1>1, <2>1, <2>2, StreamStays
    <2>4. Len(filled) <= Limit
        BY <1>2, <1>4, <1>5, <1>7, <1>10
    <2>5. TypeOK'
        BY <1>1, <1>6, <1>7, <2>1, <2>4 DEF TypeOK, Bytes
    <2> QED BY <2>1, <2>3, <2>5 DEF NoLineWaits, RefusesOnlyLong
<1> QED BY <1>9, <1>10

\* At the end of the file what is buffered is returned: a message but for its
\* newline, or the beginning of one.
LEMMA ReturnRestKeeps ==
    ASSUME IInv, ReturnRest
    PROVE  IInv'
<1> USE DEF IInv
<1> DEFINE tail == pipe \o unsent
           n == Len(returned)
           lines == Bodies(script)
<1>1. /\ reading = "readLine" /\ Newlines(buffer) = {}
      /\ returned' = IF buffer = <<>> THEN returned ELSE Append(returned, buffer)
      /\ buffer' = <<>>
      /\ reading' = IF Whole(buffer) THEN "poll" ELSE "ended"
      /\ UNCHANGED <<script, faulty, unsent, open, pipe>>
    BY DEF ReturnRest
<1>2. /\ script \in Seq(Nat \ {0}) /\ buffer \in Bytes /\ tail \in Bytes
      /\ returned \in Lines /\ n \in Nat
      /\ Rest = buffer \o tail
    BY TypesOfBytes DEF Rest
<1>3. <<>> \in Bytes /\ Newlines(<<>>) = {} /\ Len(<<>>) = 0
    BY EmptySeq DEF Bytes, Newlines
<1>4. Rest' = tail
    <2>1. Rest' = <<>> \o tail
        BY <1>1 DEF Rest
    <2> QED BY <1>2, <2>1, ConcatEmptySeq DEF Bytes
<1>5. /\ Len(script) \in Nat /\ lines \in Lines /\ Len(lines) = Len(script)
      /\ \A i \in 1..Len(script) : lines[i] = Body(i, script[i]) /\ script[i] \in Nat \ {0}
    BY <1>2, BodiesAreLines
<1>6. returned' \in Lines
    BY <1>1, <1>2, AppendProperties DEF Lines
<1>7. TypeOK'
    BY <1>1, <1>3, <1>6, LineReaderAssumption DEF TypeOK, Bytes, Lines
<1>8. NoLineWaits' /\ RefusesOnlyLong'
    BY <1>1, <1>3 DEF NoLineWaits, RefusesOnlyLong
<1> HIDE DEF tail
<1>9. CASE buffer = <<>>
    <2>1. ~Whole(buffer)
        <3> SUFFICES ASSUME Whole(buffer) PROVE FALSE
            OBVIOUS
        <3>1. n < Len(script) /\ buffer = Body(n + 1, script[n + 1])
            BY DEF Whole
        <3>2. n + 1 \in 1..Len(script) /\ n + 1 \in Nat \ {0}
            BY <1>2, <1>5, <3>1
        <3>3. script[n + 1] \in Nat \ {0}
            BY <1>5, <3>2
        <3>4. Body(n + 1, script[n + 1]) # <<>>
            <4> HIDE DEF n
            <4> QED BY <3>2, <3>3, BodyIsBytes
        <3> QED BY <1>9, <3>1, <3>4
    <2>2. returned' = returned /\ reading' = "ended" /\ script' = script
        BY <1>1, <1>9, <2>1
    <2>3. Rest' = Rest
        <3>1. Rest = <<>> \o tail
            BY <1>2, <1>9
        <3>2. <<>> \o tail = tail
            BY <1>2, ConcatEmptySeq DEF Bytes
        <3> QED BY <1>4, <3>1, <3>2
    <2>4. StreamIsCut'
        BY <1>1, <2>2, <2>3, StreamStays
    <2> QED BY <1>7, <1>8, <2>4
<1>10. CASE buffer # <<>>
    <2>1. CutAtNewline /\ n < Len(script)
        BY <1>1, <1>10, BufferIsOfOneMessage
    <2>2. returned' = Append(returned, buffer) /\ script' = script
        BY <1>1, <1>10
    <2>3. Len(returned') = n + 1 /\ returned'[n + 1] = buffer
        BY <1>2, <2>2, AppendProperties DEF Lines
    <2>4. n \in 0..(Len(script) - 1)
        BY <1>2, <1>5, <2>1
    <2>5. returned' = Append(UpTo(lines, n), buffer)
        BY <2>1, <2>2 DEF CutAtNewline
    <2>6. Sent(UpTo(lines, n)) \o (buffer \o tail) = Wire(script)
        BY <1>2, <2>1 DEF CutAtNewline
    <2>7. reading' \in {"poll", "readLine"} => buffer = lines[n + 1]
        <3> SUFFICES ASSUME Whole(buffer) PROVE buffer = lines[n + 1]
            BY <1>1
        <3>1. n + 1 \in 1..Len(script)
            BY <2>4, <1>5
        <3> QED BY <1>5, <3>1 DEF Whole
    <2>8. CutInside'
        <3> DEFINE part == returned'[n + 1]
        <3>1. part = buffer
            BY <2>3
        <3> HIDE DEF part
        <3>2. /\ Len(returned') = n + 1
              /\ returned' = Append(UpTo(Bodies(script'), n), part)
              /\ part \in Bytes
              /\ Sent(UpTo(Bodies(script'), n)) \o (part \o Rest') = Wire(script')
              /\ reading' \in {"poll", "readLine"} => part = Bodies(script')[n + 1]
            BY <1>2, <1>4, <2>2, <2>3, <2>5, <2>6, <2>7, <3>1
        <3>3. PICK m \in 0..(Len(script') - 1) : m = n
            BY <2>2, <2>4
        <3> HIDE DEF n
        <3> QED BY <3>2, <3>3 DEF CutInside, part
    <2> QED BY <1>7, <1>8, <2>8 DEF StreamIsCut
<1> QED BY <1>9, <1>10

-----------------------------------------------------------------------------
(* Theorems *)

LEMMA StartsRight ==
    ASSUME Init
    PROVE  IInv
<1>1. script \in Seq(Nat \ {0})
    BY LineReaderAssumption DEF Init
<1>2. /\ Len(script) \in Nat /\ Bodies(script) \in Lines
      /\ Len(Bodies(script)) = Len(script) /\ Wire(script) = Sent(Bodies(script))
    BY <1>1, BodiesAreLines
<1>3. Wire(script) \in Bytes
    BY <1>2, UpToAll, SentIsBytes
<1>4. <<>> \in Bytes /\ <<>> \in Seq(Bytes) /\ Len(<<>>) = 0 /\ Newlines(<<>>) = {}
    BY EmptySeq DEF Bytes, Newlines
<1>5. TypeOK
    BY <1>3, <1>4, LineReaderAssumption DEF Init, TypeOK, Bytes
<1>6. \A s \in Bytes : <<>> \o s = s
    BY ConcatEmptySeq DEF Bytes
<1>7. Rest = Wire(script)
    BY <1>3, <1>6 DEF Init, Rest
<1>8. Sent(returned) \o Rest = Wire(script)
    BY <1>3, <1>6, <1>7, SentNothing DEF Init
<1>9. returned = UpTo(Bodies(script), Len(returned)) /\ Len(returned) <= Len(script)
    BY <1>2, <1>4, UpToNone DEF Init
<1>10. CutAtNewline
    BY <1>8, <1>9 DEF CutAtNewline
<1> QED BY <1>4, <1>5, <1>10 DEF IInv, StreamIsCut, NoLineWaits, RefusesOnlyLong, Init

LEMMA StepsKeep ==
    ASSUME IInv, [Next]_vars
    PROVE  IInv'
BY WriteKeeps, WaitingKeeps, TakeLineKeeps, ReadChunkKeeps, ReturnRestKeeps
   DEF Next, ReadLine

LEMMA CutIsConserved ==
    ASSUME IInv
    PROVE  BytesConserved
<1> USE DEF IInv
<1> DEFINE consumed == FlattenSeq([i \in DOMAIN returned |-> Append(returned[i], Newline)])
           remaining == buffer \o pipe \o unsent
<1>1. consumed = Sent(returned)
    BY DEF Sent, Framed
<1>2. /\ script \in Seq(Nat \ {0}) /\ buffer \in Bytes /\ pipe \in Bytes /\ unsent \in Bytes
      /\ Rest \in Bytes
    BY TypesOfBytes
<1>3. remaining = Rest
    BY <1>2, JoinIsAssociative DEF Rest
<1> HIDE DEF consumed, remaining
<1>4. ASSUME CutAtNewline
      PROVE  consumed \o remaining = Wire(script)
    BY <1>1, <1>3, <1>4 DEF CutAtNewline
<1>5. ASSUME CutInside
      PROVE  returned # <<>> /\ Front(consumed) \o remaining = Wire(script)
    <2> DEFINE lines == Bodies(script)
    <2>1. PICK n \in 0..(Len(script) - 1) :
             /\ Len(returned) = n + 1
             /\ returned = Append(UpTo(lines, n), returned[n + 1])
             /\ returned[n + 1] \in Bytes
             /\ Sent(UpTo(lines, n)) \o (returned[n + 1] \o Rest) = Wire(script)
        BY <1>5 DEF CutInside
    <2>2. lines \in Lines /\ Len(lines) = Len(script) /\ Len(script) \in Nat
        BY <1>2, BodiesAreLines
    <2> HIDE DEF lines
    <2>3. n \in Nat /\ n < Len(lines) /\ n <= Len(lines)
        BY <2>1, <2>2
    <2> DEFINE part == returned[n + 1]
               sent == Sent(UpTo(lines, n))
               end == <<Newline>>
    <2>4. /\ part \in Bytes /\ sent \in Bytes /\ UpTo(lines, n) \in Lines
        BY <2>1, <2>2, <2>3, SentIsBytes, UpToOneMore
    <2>5. returned = Append(UpTo(lines, n), part) /\ sent \o (part \o Rest) = Wire(script)
        BY <2>1
    <2>6. end \in Bytes /\ Len(end) = 1
        BY NewlineIsAByte DEF Bytes
    <2> HIDE DEF part, end
    <2>7. Append(part, Newline) = part \o end
        BY <2>4, NewlineIsAByte, AppendIsConcat DEF Bytes, end
    <2>8. Sent(Append(UpTo(lines, n), part)) = sent \o (part \o end)
        BY <2>4, <2>7, SentOneMore
    <2> HIDE DEF sent
    <2>9. consumed = (sent \o part) \o end
        BY <1>1, <2>4, <2>5, <2>6, <2>8, JoinIsAssociative
    <2> DEFINE body == sent \o part
    <2>10. body \in Bytes /\ Len(body) \in Nat
        BY <2>4, Joins
    <2>11. consumed = body \o end
        BY <2>9
    <2>12. body \o Rest = Wire(script)
        <3>1. part \in Bytes /\ sent \in Bytes /\ Rest \in Bytes
            BY <1>2, <2>4
        <3> HIDE DEF body
        <3>2. (sent \o part) \o Rest = sent \o (part \o Rest)
            BY <3>1, JoinIsAssociative
        <3> QED BY <2>5, <3>2 DEF body
    <2> HIDE DEF body
    <2>13. consumed \in Bytes /\ Len(consumed) = Len(body) + 1
        BY <2>6, <2>10, <2>11, Joins
    <2>14. Front(consumed) = SubSeq(consumed, 1, Len(body))
        BY <2>10, <2>13 DEF Front
    <2>15. SubSeq(consumed, 1, Len(body)) = body
        <3>1. Len(body) \in 0..Len(consumed)
            BY <2>10, <2>13
        <3>2. /\ SubSeq(consumed, 1, Len(body)) \in Bytes
              /\ Len(SubSeq(consumed, 1, Len(body))) = Len(body)
            BY <2>13, <3>1, Cut
        <3>3. \A i \in 1..Len(body) : consumed[i] = body[i]
            BY <2>6, <2>10, <2>11, ConcatProperties DEF Bytes
        <3>4. \A i \in 1..Len(body) : SubSeq(consumed, 1, Len(body))[i] = consumed[i]
            <4>1. \A i \in 1..Len(body) : consumed[i] \in Byte
                BY <2>10, <2>13, ElementOfSeq DEF Bytes
            <4>2. \A i \in 1..(Len(body) - 1 + 1) :
                     SubSeq(consumed, 1, Len(body))[i] = consumed[1 + i - 1]
                BY <2>10, <4>1, SubSeqProperties
            <4> QED BY <2>10, <4>2
        <3> QED BY <2>10, <3>2, <3>3, <3>4, SeqEqual DEF Bytes
    <2>16. returned # <<>>
        BY <2>1, <2>3, EmptySeq
    <2> QED BY <1>3, <2>12, <2>14, <2>15, <2>16
<1> QED BY <1>4, <1>5 DEF BytesConserved, StreamIsCut, consumed, remaining

\* However the peer's writes and the reads cut the stream, wherever it dies, and
\* whichever read fails (readLine, hasBufferedLine, the loop around them): no byte
\* is lost, doubled or moved, the buffer stays within its limit, no line waits
\* where poll would not see it, and only a long message is refused.
THEOREM NothingIsMisplaced == Spec => []NothingMisplaced
<1>1. Init => IInv
    BY StartsRight
<1>2. IInv /\ [Next]_vars => IInv'
    BY StepsKeep
<1>3. IInv => NothingMisplaced
    BY CutIsConserved DEF IInv, NothingMisplaced
<1> QED BY <1>1, <1>2, <1>3, PTL DEF Spec

-----------------------------------------------------------------------------
(* How much has been sent *)

LEMMA UpToValues ==
    ASSUME NEW lines \in Lines, NEW n \in Nat, n <= Len(lines)
    PROVE  /\ UpTo(lines, n) \in Lines /\ Len(UpTo(lines, n)) = n
           /\ \A i \in 1..n : UpTo(lines, n)[i] = lines[i]
<1>1. Len(lines) \in Nat /\ \A i \in 1..Len(lines) : lines[i] \in Bytes
    BY LenProperties, ElementOfSeq DEF Lines
<1>2. \A i \in 1..n : lines[i] \in Bytes
    BY <1>1
<1>3. /\ UpTo(lines, n) \in Lines
      /\ Len(UpTo(lines, n)) = IF 1 <= n THEN n - 1 + 1 ELSE 0
      /\ \A i \in 1..(n - 1 + 1) : UpTo(lines, n)[i] = lines[1 + i - 1]
    BY <1>2, SubSeqProperties DEF UpTo, Lines
<1> QED BY <1>3

\* The bytes of the first n messages.
Size(n) == Len(Sent(UpTo(Bodies(script), n)))

LEMMA WireOfTheFirst ==
    ASSUME TypeOK, NEW n \in Nat, n <= Len(script)
    PROVE  Len(Wire(SubSeq(script, 1, n))) = Size(n)
<1> DEFINE first == SubSeq(script, 1, n)
<1>1. script \in Seq(Nat \ {0})
    BY TypesOfBytes
<1>2. /\ Bodies(script) \in Lines /\ Len(Bodies(script)) = Len(script) /\ Len(script) \in Nat
      /\ \A i \in 1..Len(script) : Bodies(script)[i] = Body(i, script[i])
    BY <1>1, BodiesAreLines
<1>3. \A i \in 1..n : script[i] \in Nat \ {0}
    BY <1>1, <1>2, ElementOfSeq
<1>4. first \in Seq(Nat \ {0}) /\ Len(first) = n /\ \A i \in 1..n : first[i] = script[i]
    <2>1. /\ first \in Seq(Nat \ {0})
          /\ Len(first) = IF 1 <= n THEN n - 1 + 1 ELSE 0
          /\ \A i \in 1..(n - 1 + 1) : first[i] = script[1 + i - 1]
        BY <1>3, SubSeqProperties
    <2> HIDE DEF first
    <2> QED BY <2>1
<1> HIDE DEF first
<1>5. /\ Bodies(first) \in Lines /\ Len(Bodies(first)) = n
      /\ \A i \in 1..n : Bodies(first)[i] = Body(i, first[i])
      /\ Wire(first) = Sent(Bodies(first))
    BY <1>4, BodiesAreLines
<1> DEFINE some == UpTo(Bodies(script), n)
<1>6. some \in Lines /\ Len(some) = n /\ \A i \in 1..n : some[i] = Bodies(script)[i]
    BY <1>2, UpToValues
<1> HIDE DEF some
<1>7. \A i \in 1..n : Bodies(first)[i] = some[i]
    BY <1>2, <1>4, <1>5, <1>6
<1>8. Bodies(first) = some
    BY <1>5, <1>6, <1>7, SeqEqual DEF Lines
<1> QED BY <1>5, <1>8 DEF Size, some, first

\* Each message adds its body and a newline.
LEMMA SizeGrows ==
    ASSUME TypeOK
    PROVE  /\ Size(0) = 0
           /\ \A n \in 0..Len(script) : Size(n) \in Nat
           /\ \A n \in 0..(Len(script) - 1) :
                 Size(n + 1) = Size(n) + script[n + 1] + 1 /\ script[n + 1] \in Nat \ {0}
<1> DEFINE lines == Bodies(script)
<1>1. script \in Seq(Nat \ {0})
    BY TypesOfBytes
<1>2. /\ lines \in Lines /\ Len(lines) = Len(script) /\ Len(script) \in Nat
      /\ \A i \in 1..Len(script) : lines[i] = Body(i, script[i]) /\ script[i] \in Nat \ {0}
    BY <1>1, BodiesAreLines
<1> HIDE DEF lines
<1>3. Size(0) = 0
    BY <1>2, UpToNone, SentNothing, EmptySeq DEF Size, lines
<1>4. ASSUME NEW n \in 0..Len(script)
      PROVE  Sent(UpTo(lines, n)) \in Bytes /\ Size(n) \in Nat
    <2>1. Sent(UpTo(lines, n)) \in Bytes
        BY <1>2, SentIsBytes
    <2> QED BY <2>1, LenProperties DEF Size, lines, Bytes
<1>5. ASSUME NEW n \in 0..(Len(script) - 1)
      PROVE  Size(n + 1) = Size(n) + script[n + 1] + 1 /\ script[n + 1] \in Nat \ {0}
    <2>1. n \in Nat /\ n < Len(lines) /\ n + 1 \in 1..Len(script) /\ n + 1 \in Nat \ {0}
          /\ n \in 0..Len(script)
        BY <1>2
    <2>2. lines[n + 1] = Body(n + 1, script[n + 1]) /\ script[n + 1] \in Nat \ {0}
        BY <1>2, <2>1
    <2> DEFINE line == lines[n + 1]
               end == Append(line, Newline)
               before == Sent(UpTo(lines, n))
    <2>3. line \in Bytes /\ Len(line) = script[n + 1]
        BY <2>1, <2>2, BodyIsBytes
    <2>4. Sent(UpTo(lines, n + 1)) = before \o end /\ before \in Bytes
        BY <1>2, <1>4, <2>1, SentUpTo
    <2> HIDE DEF line
    <2>5. end \in Bytes /\ Len(end) = Len(line) + 1
        BY <2>3, NewlineIsAByte, AppendProperties DEF Bytes
    <2> HIDE DEF end, before
    <2>6. Len(before \o end) = Len(before) + Len(end)
        BY <2>4, <2>5, Joins
    <2>7. Size(n) = Len(before) /\ Size(n + 1) = Len(before \o end)
        BY <2>4 DEF Size, lines, before
    <2>8. Size(n) \in Nat
        BY <1>4, <2>1
    <2> QED BY <2>2, <2>3, <2>5, <2>6, <2>7, <2>8
<1> QED BY <1>3, <1>4, <1>5

LEMMA SizeIsMonotone ==
    ASSUME TypeOK, NEW m \in Nat, NEW n \in Nat, m <= n, n <= Len(script)
    PROVE  Size(m) <= Size(n)
<1> DEFINE Good == {k \in Nat : m <= k /\ k <= Len(script) => Size(m) <= Size(k)}
<1>1. Len(script) \in Nat
    BY TypesOfBytes, LenProperties
<1>2. Good \in SUBSET Nat
    OBVIOUS
<1>3. \A k \in 0..Len(script) : Size(k) \in Nat
    BY SizeGrows
<1>4. 0 \in Good
    BY <1>3
<1>5. ASSUME NEW k \in Good
      PROVE  k + 1 \in Good
    <2>1. k \in Nat /\ k + 1 \in Nat
        OBVIOUS
    <2>2. ASSUME m <= k + 1, k + 1 <= Len(script)
          PROVE  Size(m) <= Size(k + 1)
        <3>1. CASE m = k + 1
            <4>1. Size(m) \in Nat
                BY <1>1, <1>3, <2>2, <3>1
            <4> QED BY <3>1, <4>1
        <3>2. CASE m <= k
            <4>1. Size(m) <= Size(k)
                BY <1>1, <2>1, <2>2, <3>2
            <4>2. k \in 0..(Len(script) - 1) /\ k \in 0..Len(script) /\ m \in 0..Len(script)
                BY <1>1, <2>1, <2>2, <3>2
            <4>3. Size(k + 1) = Size(k) + script[k + 1] + 1 /\ script[k + 1] \in Nat
                BY <4>2, SizeGrows
            <4>4. Size(m) \in Nat /\ Size(k) \in Nat
                BY <1>3, <4>2
            <4> QED BY <4>1, <4>3, <4>4
        <3> QED BY <2>1, <2>2, <3>1, <3>2
    <2> QED BY <2>1, <2>2
<1> HIDE DEF Good
<1>6. Good = Nat
    BY <1>2, <1>4, <1>5, Induction
<1>7. n \in Good
    BY <1>6
<1> QED BY <1>7 DEF Good

SentMessages == {i \in DOMAIN script : Len(Wire(SubSeq(script, 1, i))) - 1 <= Written}

LEMMA SentMessagesAre ==
    ASSUME TypeOK
    PROVE  /\ SentWhole = Cardinality(SentMessages)
           /\ SentMessages = {i \in 1..Len(script) : Size(i) - 1 <= Written}
           /\ IsFiniteSet(1..Len(script)) /\ Cardinality(1..Len(script)) = Len(script)
           /\ Written \in Int /\ Len(script) \in Nat
<1>1. script \in Seq(Nat \ {0}) /\ unsent \in Bytes
    BY TypesOfBytes
<1>2. Len(script) \in Nat /\ DOMAIN script = 1..Len(script)
    BY <1>1, LenProperties
<1>3. \A i \in 1..Len(script) : Len(Wire(SubSeq(script, 1, i))) = Size(i)
    BY <1>2, WireOfTheFirst
<1>4. Wire(script) \in Bytes
    <2>1. Bodies(script) \in Lines /\ Len(Bodies(script)) = Len(script) /\ Wire(script) = Sent(Bodies(script))
        BY <1>1, BodiesAreLines
    <2>2. Sent(UpTo(Bodies(script), Len(script))) \in Bytes
        BY <1>2, <2>1, SentIsBytes
    <2> QED BY <2>1, <2>2, UpToAll
<1>5. Written \in Int
    BY <1>1, <1>4, LenProperties DEF Written, Bytes
<1>6. IsFiniteSet(1..Len(script)) /\ Cardinality(1..Len(script)) = Len(script)
    <2> DEFINE n == Len(script)
    <2>1. n \in Nat
        BY <1>2
    <2> HIDE DEF n
    <2>2. IsFiniteSet(1..n) /\ Cardinality(1..n) = n
        BY <2>1, FS_Interval
    <2> QED BY <2>2 DEF n
<1>7. SentMessages = {i \in 1..Len(script) : Size(i) - 1 <= Written}
    BY <1>2, <1>3 DEF SentMessages
<1> QED BY <1>2, <1>5, <1>6, <1>7 DEF SentWhole, SentMessages

SentIsCounted ==
    /\ SentMessages = {i \in 1..Len(script) : Size(i) - 1 <= Written}
    /\ SentWhole = Cardinality(SentMessages) /\ SentWhole \in 0..Len(script)

LEMMA SentWholeIsCounted ==
    ASSUME TypeOK
    PROVE  /\ SentWhole \in 0..Len(script)
           /\ \A n \in 0..Len(script) : Size(n) - 1 <= Written => n <= SentWhole
<1> DEFINE All == 1..Len(script)
<1>1. /\ SentWhole = Cardinality(SentMessages)
      /\ SentMessages = {i \in All : Size(i) - 1 <= Written}
      /\ IsFiniteSet(All) /\ Cardinality(All) = Len(script)
      /\ Written \in Int /\ Len(script) \in Nat
    BY SentMessagesAre
<1>2. SentMessages \subseteq All
    BY <1>1
<1>3. IsFiniteSet(SentMessages) /\ Cardinality(SentMessages) <= Cardinality(All)
      /\ Cardinality(SentMessages) \in Nat
    BY <1>1, <1>2, FS_Subset, FS_CardinalityType
<1>4. ASSUME NEW n \in 0..Len(script), Size(n) - 1 <= Written
      PROVE  n <= SentWhole
    <2>1. n \in Nat /\ n <= Len(script)
        BY <1>1
    <2>2. 1..n \subseteq SentMessages
        <3> SUFFICES ASSUME NEW i \in 1..n PROVE i \in SentMessages
            OBVIOUS
        <3>1. i \in Nat /\ i <= n /\ i \in All
            BY <1>1, <2>1
        <3>2. Size(i) <= Size(n)
            BY <2>1, <3>1, SizeIsMonotone
        <3>3. Size(i) \in Nat /\ Size(n) \in Nat
            BY <1>1, <2>1, <3>1, SizeGrows
        <3> QED BY <1>1, <1>4, <3>1, <3>2, <3>3
    <2>3. Cardinality(1..n) = n
        BY <2>1, FS_Interval
    <2>4. Cardinality(1..n) <= Cardinality(SentMessages)
        BY <1>3, <2>2, FS_Subset
    <2> QED BY <1>1, <2>3, <2>4
<1> QED BY <1>1, <1>3, <1>4

LEMMA WhatIsSentIsCounted == TypeOK => SentIsCounted
BY SentMessagesAre, SentWholeIsCounted DEF SentIsCounted

\* No message of which less than the body has been sent counts.
LEMMA NoMoreIsSent ==
    ASSUME TypeOK, NEW n \in 0..(Len(script) - 1), Written < Size(n + 1) - 1
    PROVE  SentWhole <= n
<1>1. /\ SentWhole = Cardinality(SentMessages)
      /\ SentMessages = {i \in 1..Len(script) : Size(i) - 1 <= Written}
      /\ Written \in Int /\ Len(script) \in Nat
    BY SentMessagesAre
<1>2. n \in Nat /\ n + 1 \in 0..Len(script)
    BY <1>1
<1>3. SentMessages \subseteq 1..n
    <2> SUFFICES ASSUME NEW i \in 1..Len(script), Size(i) - 1 <= Written, n < i
                 PROVE  FALSE
        BY <1>1, <1>2
    <2>1. n + 1 \in Nat /\ i \in Nat /\ n + 1 <= i /\ i <= Len(script) /\ i \in 0..Len(script)
        BY <1>1, <1>2
    <2>2. Size(n + 1) <= Size(i)
        BY <2>1, SizeIsMonotone
    <2>3. Size(i) \in Nat /\ Size(n + 1) \in Nat
        BY <1>2, <2>1, SizeGrows
    <2> QED BY <1>1, <2>2, <2>3
<1>4. IsFiniteSet(1..n) /\ Cardinality(1..n) = n
    BY <1>2, FS_Interval
<1>5. Cardinality(SentMessages) <= Cardinality(1..n)
    BY <1>3, <1>4, FS_Subset
<1> QED BY <1>1, <1>4, <1>5

\* What has been written is what has been returned, is buffered or is in the pipe.
LEMMA WrittenIsKnown ==
    ASSUME TypeOK
    PROVE  /\ CutAtNewline => Written = Size(Len(returned)) + Len(buffer) + Len(pipe)
           /\ CutInside => \E n \in 0..(Len(script) - 1) :
                 /\ Len(returned) = n + 1
                 /\ Written = Size(n) + Len(returned[n + 1]) + Len(buffer) + Len(pipe)
                 /\ Len(returned[n + 1]) \in Nat
                 /\ reading \in {"poll", "readLine"} => Len(returned[n + 1]) = script[n + 1]
<1>1. /\ script \in Seq(Nat \ {0}) /\ returned \in Lines
      /\ buffer \in Bytes /\ pipe \in Bytes /\ unsent \in Bytes /\ pipe \o unsent \in Bytes
      /\ Rest \in Bytes
    BY TypesOfBytes
<1>2. Bodies(script) \in Lines /\ Len(Bodies(script)) = Len(script) /\ Len(script) \in Nat
      /\ \A i \in 1..Len(script) : Bodies(script)[i] = Body(i, script[i]) /\ script[i] \in Nat \ {0}
    BY <1>1, BodiesAreLines
<1>3. Len(Rest) = Len(buffer) + Len(pipe) + Len(unsent)
      /\ Len(buffer) \in Nat /\ Len(pipe) \in Nat /\ Len(unsent) \in Nat
    <2>1. Len(pipe \o unsent) = Len(pipe) + Len(unsent) /\ Len(pipe) \in Nat /\ Len(unsent) \in Nat
        BY <1>1, Joins
    <2>2. Len(buffer \o (pipe \o unsent)) = Len(buffer) + Len(pipe \o unsent) /\ Len(buffer) \in Nat
        BY <1>1, Joins
    <2> QED BY <2>1, <2>2 DEF Rest
<1>4. \A n \in 0..Len(script) :
         Sent(UpTo(Bodies(script), n)) \in Bytes /\ Size(n) = Len(Sent(UpTo(Bodies(script), n)))
         /\ Size(n) \in Nat
    BY <1>2, SentIsBytes, SizeGrows DEF Size
<1>5. ASSUME CutAtNewline
      PROVE  Written = Size(Len(returned)) + Len(buffer) + Len(pipe)
    <2> DEFINE n == Len(returned)
               before == Sent(UpTo(Bodies(script), n))
    <2>1. n \in 0..Len(script)
        BY <1>1, <1>2, <1>5, LenProperties DEF CutAtNewline, Lines
    <2>2. before \o Rest = Wire(script)
        BY <1>5 DEF CutAtNewline
    <2>3. before \in Bytes /\ Len(before) = Size(n) /\ Size(n) \in Nat
        BY <1>4, <2>1
    <2> HIDE DEF n, before
    <2>4. Len(before \o Rest) = Len(before) + Len(Rest)
        BY <1>1, <2>3, Joins
    <2>5. Len(Wire(script)) = Size(n) + Len(Rest)
        BY <2>2, <2>3, <2>4
    <2>6. Written = Size(n) + Len(buffer) + Len(pipe)
        BY <1>3, <2>3, <2>5 DEF Written
    <2> QED BY <2>6 DEF n
<1>6. ASSUME CutInside
      PROVE  \E n \in 0..(Len(script) - 1) :
                 /\ Len(returned) = n + 1
                 /\ Written = Size(n) + Len(returned[n + 1]) + Len(buffer) + Len(pipe)
                 /\ Len(returned[n + 1]) \in Nat
                 /\ reading \in {"poll", "readLine"} => Len(returned[n + 1]) = script[n + 1]
    <2>1. PICK n \in 0..(Len(script) - 1) :
             /\ Len(returned) = n + 1
             /\ returned[n + 1] \in Bytes
             /\ Sent(UpTo(Bodies(script), n)) \o (returned[n + 1] \o Rest) = Wire(script)
             /\ reading \in {"poll", "readLine"} => returned[n + 1] = Bodies(script)[n + 1]
        BY <1>6 DEF CutInside
    <2> DEFINE part == returned[n + 1]
               before == Sent(UpTo(Bodies(script), n))
               after == part \o Rest
    <2>2. n \in 0..Len(script) /\ n + 1 \in 1..Len(script) /\ n + 1 \in Nat \ {0}
        BY <1>2, <2>1
    <2>3. before \in Bytes /\ Len(before) = Size(n) /\ Size(n) \in Nat
        BY <1>4, <2>2
    <2>4. part \in Bytes /\ before \o after = Wire(script)
        BY <2>1
    <2> HIDE DEF part, before
    <2>5. after \in Bytes /\ Len(after) = Len(part) + Len(Rest) /\ Len(part) \in Nat
        BY <1>1, <2>4, Joins
    <2> HIDE DEF after
    <2>6. Len(before \o after) = Len(before) + Len(after)
        BY <2>3, <2>5, Joins
    <2>7. Len(Wire(script)) = Size(n) + Len(part) + Len(Rest)
        BY <1>3, <2>3, <2>4, <2>5, <2>6
    <2>8. Written = Size(n) + Len(part) + Len(buffer) + Len(pipe)
        BY <1>3, <2>3, <2>5, <2>7 DEF Written
    <2>9. ASSUME reading \in {"poll", "readLine"}
          PROVE  Len(part) = script[n + 1]
        <3>1. part = Body(n + 1, script[n + 1]) /\ script[n + 1] \in Nat \ {0}
            BY <1>2, <2>1, <2>2, <2>9 DEF part
        <3> QED BY <2>2, <3>1, BodyIsBytes
    <2> QED BY <2>1, <2>5, <2>8, <2>9 DEF part
<1> QED BY <1>5, <1>6

\* While the stream is in use, what has been returned is the first messages, and
\* they have been sent.
LEMMA ReturnedAreMessages ==
    ASSUME IInv, reading \in {"poll", "readLine"}
    PROVE  /\ Len(returned) \in 0..Len(script)
           /\ returned = UpTo(Bodies(script), Len(returned))
           /\ ~LastIsTorn
           /\ Len(returned) <= SentWhole
<1> USE DEF IInv
<1> DEFINE n == Len(returned)
<1>1. script \in Seq(Nat \ {0}) /\ returned \in Lines /\ n \in Nat
      /\ Len(buffer) \in Nat /\ Len(pipe) \in Nat
    BY TypesOfBytes, LenProperties DEF Bytes
<1>2. /\ Bodies(script) \in Lines /\ Len(Bodies(script)) = Len(script) /\ Len(script) \in Nat
      /\ \A i \in 1..Len(script) : Bodies(script)[i] = Body(i, script[i])
    BY <1>1, BodiesAreLines
<1>3. CutAtNewline \/ CutInside
    BY DEF StreamIsCut
<1>4. n \in 0..Len(script) /\ returned = UpTo(Bodies(script), n)
    <2>1. CASE CutAtNewline
        BY <1>1, <1>2, <2>1 DEF CutAtNewline
    <2>2. CASE CutInside
        <3>1. n \in 1..Len(script) /\ returned = UpTo(Bodies(script), n)
            BY <2>2, BehindMessage
        <3> QED BY <1>2, <3>1
    <2> QED BY <1>3, <2>1, <2>2
<1>5. Size(n) - 1 <= Written
    <2>1. CASE CutAtNewline
        <3>1. Written = Size(n) + Len(buffer) + Len(pipe) /\ Size(n) \in Nat
            BY <1>4, <2>1, WrittenIsKnown, SizeGrows
        <3> QED BY <1>1, <3>1
    <2>2. CASE CutInside
        <3>1. PICK m \in 0..(Len(script) - 1) :
                 /\ n = m + 1
                 /\ Written = Size(m) + Len(returned[m + 1]) + Len(buffer) + Len(pipe)
                 /\ Len(returned[m + 1]) = script[m + 1]
            BY <2>2, WrittenIsKnown
        <3>2. Size(m + 1) = Size(m) + script[m + 1] + 1 /\ script[m + 1] \in Nat
            BY SizeGrows
        <3>3. Size(m) \in Nat
            BY <1>2, SizeGrows
        <3> QED BY <1>1, <3>1, <3>2, <3>3
    <2> QED BY <1>3, <2>1, <2>2
<1>6. n <= SentWhole
    BY <1>4, <1>5, SentWholeIsCounted
<1>7. ASSUME returned # <<>>
      PROVE  Last(returned) = Body(n, script[n])
    <2>1. n \in 1..Len(script) /\ n \in Nat /\ n <= Len(script)
        <3>1. n # 0
            BY <1>1, <1>7, EmptySeq DEF Lines
        <3> QED BY <1>2, <1>4, <3>1
    <2>2. \A i \in 1..n : UpTo(Bodies(script), n)[i] = Bodies(script)[i]
        BY <1>2, <2>1, UpToValues
    <2>3. n \in 1..n
        BY <2>1
    <2>4. Last(returned) = returned[n]
        BY DEF Last
    <2> HIDE DEF n
    <2>5. UpTo(Bodies(script), n)[n] = Body(n, script[n])
        BY <1>2, <2>1, <2>2, <2>3
    <2> QED BY <1>4, <2>4, <2>5
<1> QED BY <1>4, <1>6, <1>7 DEF LastIsTorn

NoneIsTorn == ~LastIsTorn /\ Len(returned) <= SentWhole /\ Len(returned) \in 0..Len(script)

InUse == reading \in {"poll", "readLine"}

LEMMA NoneIsTornInUse == IInv /\ InUse => NoneIsTorn
BY ReturnedAreMessages DEF NoneIsTorn, InUse

\* What is buffered at the end of a message's bytes is that message.
LEMMA BufferedMessage ==
    ASSUME TypeOK, CutAtNewline, buffer # <<>>, Len(buffer) = script[Len(returned) + 1]
    PROVE  buffer = Body(Len(returned) + 1, script[Len(returned) + 1])
<1> DEFINE n == Len(returned)
           next == Bodies(script)[n + 1]
           tail == pipe \o unsent
<1>1. /\ script \in Seq(Nat \ {0}) /\ buffer \in Bytes /\ tail \in Bytes /\ n \in Nat
      /\ Rest = buffer \o tail
    BY TypesOfBytes DEF Rest
<1>2. /\ Len(script) \in Nat
      /\ \A i \in 1..Len(script) : Bodies(script)[i] = Body(i, script[i]) /\ script[i] \in Nat \ {0}
    BY <1>1, BodiesAreLines
<1>3. Rest # <<>>
    <2>1. Len(buffer) # 0 /\ Len(buffer) \in Nat /\ Len(tail) \in Nat
        BY <1>1, EmptySeq, LenProperties DEF Bytes
    <2> HIDE DEF tail
    <2>2. Len(Rest) # 0
        BY <1>1, <2>1, Joins
    <2> QED BY <2>2, EmptySeq
<1>4. n < Len(script)
    BY <1>3, BehindNewline
<1>5. PICK rest \in Bytes : Rest = Append(next, Newline) \o rest
    BY <1>3, BehindNewline
<1>6. n + 1 \in 1..Len(script) /\ n + 1 \in Nat \ {0}
    BY <1>1, <1>2, <1>4
<1>7. next = Body(n + 1, script[n + 1]) /\ script[n + 1] \in Nat \ {0}
    BY <1>2, <1>6
<1>8. next \in Bytes /\ Len(next) = script[n + 1]
    BY <1>6, <1>7, BodyIsBytes
<1>9. Len(buffer) = Len(next) /\ Len(next) \in Nat
    BY <1>7, <1>8
<1> HIDE DEF n, next, tail
<1> DEFINE end == Append(next, Newline)
<1>10. /\ end \in Bytes /\ Len(end) = Len(next) + 1
       /\ \A i \in 1..Len(next) : end[i] = next[i]
    BY <1>8, <1>9, NewlineIsAByte, AppendProperties DEF Bytes
<1> HIDE DEF end
<1>11. \A i \in 1..Len(buffer) : Rest[i] = buffer[i]
    BY <1>1, ConcatProperties DEF Bytes
<1>12. \A i \in 1..Len(next) : Rest[i] = end[i]
    <2>1. \A i \in 1..Len(end) : (end \o rest)[i] = end[i]
        BY <1>10, ConcatProperties DEF Bytes
    <2>2. Rest = end \o rest
        BY <1>5 DEF end
    <2> QED BY <1>9, <1>10, <2>1, <2>2
<1>13. \A i \in 1..Len(buffer) : buffer[i] = next[i]
    BY <1>9, <1>10, <1>11, <1>12
<1>14. buffer = next
    BY <1>1, <1>8, <1>9, <1>13, SeqEqual DEF Bytes
<1> QED BY <1>7, <1>14 DEF n

LEMMA AppendedLength ==
    ASSUME TypeOK, NEW line, returned' = Append(returned, line)
    PROVE  Len(returned') = Len(returned) + 1
<1>1. Len(returned) \in Nat
    BY TypesOfBytes
<1> QED BY <1>1 DEF TypeOK

-----------------------------------------------------------------------------
(* Every step is a step of the stream of messages, or none of it *)

Received == IF LastIsTorn THEN Len(returned) - 1 ELSE Len(returned)
StreamStands == UNCHANGED <<script, faulty, SentWhole, Received, LastIsTorn>>

LEMMA InitIsStream ==
    ASSUME Init
    PROVE  Stream!Init
<1>1. TypeOK
    BY StartsRight DEF IInv
<1>2. script \in Seq(Nat \ {0}) /\ Len(script) \in Nat
    BY <1>1, TypesOfBytes, LenProperties
<1>3. /\ unsent = Wire(script) /\ returned = <<>> /\ faulty \in BOOLEAN
      /\ reading = "poll"
    BY DEF Init
<1>4. ~LastIsTorn /\ Len(returned) = 0
    BY <1>3, EmptySeq DEF LastIsTorn
<1>5. unsent \in Bytes
    BY <1>1, TypesOfBytes
<1>6. Written = 0
    BY <1>3, <1>5, LenProperties DEF Written, Bytes
<1>7. SentWhole \in 0..Len(script)
    BY <1>1, SentWholeIsCounted
<1>8. SentWhole = 0
    <2>1. CASE Len(script) = 0
        BY <1>7, <2>1
    <2>2. CASE Len(script) # 0
        <3>1. 0 \in 0..(Len(script) - 1)
            BY <1>2, <2>2
        <3>2. Size(0) = 0 /\ Size(0 + 1) = Size(0) + script[0 + 1] + 1 /\ script[0 + 1] \in Nat \ {0}
            BY <1>1, <3>1, SizeGrows
        <3>3. Written < Size(0 + 1) - 1
            BY <1>6, <3>2
        <3> QED BY <1>1, <1>7, <3>1, <3>3, NoMoreIsSent
    <2> QED BY <2>1, <2>2
<1> QED BY <1>2, <1>3, <1>4, <1>8 DEF Stream!Init

LEMMA WriteIsSend ==
    ASSUME IInv, Write
    PROVE  [Stream!Next]_(Stream!vars)
<1>1. UNCHANGED <<script, faulty, reading, returned>>
    BY DEF Write
<1>2. PICK n \in 1..Len(unsent) : unsent' = Drop(unsent, n)
    BY DEF Write
<1>3. TypeOK /\ TypeOK'
    BY WriteKeeps DEF IInv
<1>4. unsent \in Bytes /\ Len(unsent) \in Nat
    BY <1>3, TypesOfBytes, LenProperties DEF Bytes
<1>5. Len(unsent') = Len(unsent) - n /\ n \in Nat
    <2>1. n \in 0..Len(unsent)
        BY <1>4
    <2> QED BY <1>2, <1>4, <2>1, Cut
<1>6. Len(Wire(script)) = Written + Len(unsent) /\ Written \in Int
    <2>1. script \in Seq(Nat \ {0})
        BY <1>3, TypesOfBytes
    <2>2. Bodies(script) \in Lines /\ Len(Bodies(script)) = Len(script)
          /\ Wire(script) = Sent(Bodies(script)) /\ Len(script) \in Nat
        BY <2>1, BodiesAreLines
    <2>3. Sent(UpTo(Bodies(script), Len(script))) \in Bytes
        BY <2>2, SentIsBytes
    <2>4. Len(Wire(script)) \in Nat
        BY <2>2, <2>3, UpToAll, LenProperties DEF Bytes
    <2> QED BY <1>4, <2>4 DEF Written
<1>7. Written' = Written + n
    BY <1>1, <1>4, <1>5, <1>6 DEF Written
<1>8. /\ SentMessages = {i \in 1..Len(script) : Size(i) - 1 <= Written}
      /\ SentWhole = Cardinality(SentMessages) /\ SentWhole \in 0..Len(script)
    BY <1>3, WhatIsSentIsCounted DEF SentIsCounted
<1>9. /\ SentMessages' = {i \in 1..Len(script) : Size(i) - 1 <= Written'}
      /\ SentWhole' = Cardinality(SentMessages') /\ SentWhole' \in 0..Len(script)
    <2>1. /\ SentMessages' = {i \in 1..Len(script') : Size(i)' - 1 <= Written'}
          /\ SentWhole' = Cardinality(SentMessages') /\ SentWhole' \in 0..Len(script')
        <3>1. SentIsCounted'
            BY <1>3, WhatIsSentIsCounted, PTL
        <3> QED BY <3>1 DEF SentIsCounted
    <2>2. \A i : Size(i)' = Size(i)
        BY <1>1 DEF Size, Bodies
    <2> QED BY <1>1, <2>1, <2>2
<1>10. \A i \in 1..Len(script) : Size(i) \in Nat
    <2>1. Len(script) \in Nat
        BY <1>3, SentMessagesAre
    <2> QED BY <1>3, <2>1, SizeGrows
<1>11. SentMessages \subseteq SentMessages'
    BY <1>5, <1>6, <1>7, <1>8, <1>9, <1>10
<1>12. IsFiniteSet(SentMessages')
    <2>1. IsFiniteSet(1..Len(script))
        BY <1>3, SentMessagesAre
    <2>2. SentMessages' \subseteq 1..Len(script)
        BY <1>9
    <2> QED BY <2>1, <2>2, FS_Subset
<1>13. SentWhole <= SentWhole'
    BY <1>8, <1>9, <1>11, <1>12, FS_Subset
<1>14. UNCHANGED <<Received, LastIsTorn, reading>>
    BY <1>1 DEF Received, LastIsTorn
<1>15. SentWhole' = SentWhole \/ SentWhole' \in (SentWhole + 1)..Len(script)
    BY <1>8, <1>9, <1>13
<1> QED BY <1>1, <1>14, <1>15 DEF Stream!Next, Stream!Send, Stream!vars, Received

\* A step that sends and returns nothing, and refuses nothing.
LEMMA StandsStill ==
    ASSUME UNCHANGED <<script, faulty, unsent, returned>>,
           reading' = "refused" <=> reading = "refused"
    PROVE  [Stream!Next]_(Stream!vars)
<1>1. UNCHANGED <<SentWhole, LastIsTorn>>
    BY DEF SentWhole, Written, LastIsTorn
<1> QED BY <1>1 DEF Stream!vars

\* A line that is returned while the stream stays in use is a message that has
\* been sent.
LEMMA MessageArrives ==
    ASSUME IInv, IInv', InUse, InUse', UNCHANGED <<script, faulty, unsent>>,
           NEW line, returned' = Append(returned, line)
    PROVE  Stream!Receive
<1>1. ~LastIsTorn /\ Len(returned) \in Nat
    BY NoneIsTornInUse, TypesOfBytes DEF IInv, NoneIsTorn
<1>2. ~LastIsTorn' /\ Len(returned') <= SentWhole'
    <2>1. NoneIsTorn'
        BY NoneIsTornInUse, PTL
    <2> QED BY <2>1 DEF NoneIsTorn
<1>3. SentWhole' = SentWhole
    BY DEF SentWhole, Written
<1>4. SentWhole \in Nat
    <2>1. SentWhole \in 0..Len(script)
        BY SentWholeIsCounted DEF IInv
    <2> QED BY <2>1
<1>5. Len(returned') = Len(returned) + 1
    BY AppendedLength DEF IInv
<1>6. Len(returned) < SentWhole
    BY <1>1, <1>2, <1>3, <1>4, <1>5
<1>7. reading # "refused" /\ reading' # "refused"
    BY DEF InUse
<1>8. ~Stream!Over
    BY <1>1, <1>7 DEF Stream!Over
<1>9. Received = Len(returned) /\ Received' = Len(returned')
    BY <1>1, <1>2 DEF Received
<1>10. LastIsTorn' = LastIsTorn
    BY <1>1, <1>2 DEF LastIsTorn
<1>11. (reading = "refused")' = (reading = "refused")
    BY <1>7
<1> QED BY <1>3, <1>5, <1>6, <1>8, <1>9, <1>10, <1>11 DEF Stream!Receive, Received

LEMMA TakeLineIsReceive ==
    ASSUME IInv, TakeLine
    PROVE  [Stream!Next]_(Stream!vars)
<1> DEFINE line == SubSeq(buffer, 1, LineEnd(buffer) - 1)
<1>1. /\ UNCHANGED <<script, faulty, unsent>>
      /\ reading = "readLine" /\ reading' \in {"ended", "readLine", "poll"}
      /\ line = <<>> => returned' = returned
      /\ line # <<>> => reading' # "ended" /\ returned' = Append(returned, line)
    BY DEF TakeLine, AfterLine
<1> HIDE DEF line
<1>2. CASE line = <<>>
    BY <1>1, <1>2, StandsStill
<1>3. CASE line # <<>>
    <2>1. InUse /\ InUse'
        BY <1>1, <1>3 DEF InUse
    <2>2. Stream!Receive
        BY <1>1, <1>3, <2>1, TakeLineKeeps, MessageArrives
    <2> QED BY <2>2 DEF Stream!Next
<1> QED BY <1>2, <1>3

\* Only a message that is too long is refused, and none that has arrived.
LEMMA ReadChunkIsRefusal ==
    ASSUME IInv, ReadChunk
    PROVE  [Stream!Next]_(Stream!vars)
<1> USE DEF IInv
<1>1. /\ UNCHANGED <<script, faulty, unsent, returned>>
      /\ reading = "readLine" /\ Newlines(buffer) = {}
    BY DEF ReadChunk
<1>2. CASE reading' # "refused"
    BY <1>1, <1>2, StandsStill
<1>3. CASE reading' = "refused"
    <2>1. NoneIsTorn
        BY <1>1, NoneIsTornInUse DEF InUse
    <2>2. Len(returned) < Len(script)
        <3>1. CASE buffer # <<>>
            BY <1>1, <3>1, BufferIsOfOneMessage
        <3>2. CASE buffer = <<>>
            <4> DEFINE got == IF Len(pipe) < Chunk THEN Len(pipe) ELSE Chunk
                       chunk == SubSeq(pipe, 1, got)
            <4>1. TooLong(buffer \o chunk)
                BY <1>1, <1>3 DEF ReadChunk
            <4>2. pipe \in Bytes /\ buffer \in Bytes /\ Len(pipe) \in Nat
                BY TypesOfBytes, LenProperties DEF Bytes
            <4>3. got \in 0..Len(pipe) /\ got <= Chunk
                BY <4>2, LineReaderAssumption
            <4> HIDE DEF got
            <4>4. chunk \in Bytes /\ Len(chunk) = got
                BY <4>2, <4>3, Cut
            <4> HIDE DEF chunk
            <4>5. Len(buffer \o chunk) = Len(buffer) + Len(chunk)
                BY <4>2, <4>4, Joins
            <4>6. Len(buffer) = 0
                BY <3>2, EmptySeq
            <4> QED BY <4>1, <4>2, <4>3, <4>4, <4>5, <4>6, LineReaderAssumption DEF TooLong
        <3> QED BY <3>1, <3>2
    <2>3. UNCHANGED <<SentWhole, Received, LastIsTorn>>
        BY <1>1 DEF SentWhole, Written, Received, LastIsTorn
    <2>4. ~Stream!Over
        BY <1>1, <2>1 DEF Stream!Over, NoneIsTorn
    <2>5. Received < Len(script)
        BY <2>1, <2>2 DEF Received, NoneIsTorn
    <2>6. Stream!Refuse
        BY <1>1, <1>3, <2>3, <2>4, <2>5 DEF Stream!Refuse, Received
    <2> QED BY <2>6 DEF Stream!Next
<1> QED BY <1>2, <1>3

\* Without a failing read, what is torn is the part of a message that the peer
\* wrote before it was gone.
LEMMA ReturnRestIsTear ==
    ASSUME IInv, ReturnRest
    PROVE  [Stream!Next]_(Stream!vars)
<1> USE DEF IInv
<1> DEFINE n == Len(returned)
<1>1. /\ UNCHANGED <<script, faulty, unsent>>
      /\ reading = "readLine" /\ Newlines(buffer) = {}
      /\ faulty \/ pipe = <<>>
      /\ returned' = IF buffer = <<>> THEN returned ELSE Append(returned, buffer)
      /\ reading' = IF Whole(buffer) THEN "poll" ELSE "ended"
    BY DEF ReturnRest
<1>2. CASE buffer = <<>>
    BY <1>1, <1>2, StandsStill
<1>3. CASE buffer # <<>> /\ Whole(buffer)
    <2>1. InUse /\ InUse'
        BY <1>1, <1>3 DEF InUse
    <2>2. Stream!Receive
        BY <1>1, <1>3, <2>1, ReturnRestKeeps, MessageArrives
    <2> QED BY <2>2 DEF Stream!Next
<1>4. CASE buffer # <<>> /\ ~Whole(buffer)
    <2>1. NoneIsTorn
        BY <1>1, NoneIsTornInUse DEF InUse
    <2>2. /\ CutAtNewline /\ n < Len(script) /\ n \in Nat /\ Len(script) \in Nat
          /\ Len(buffer) <= script[n + 1] /\ Len(buffer) \in Nat /\ Len(pipe) \in Nat
        <3>1. CutAtNewline /\ n < Len(script) /\ Len(buffer) <= script[n + 1]
            BY <1>1, <1>4, BufferIsOfOneMessage
        <3>2. script \in Seq(Nat \ {0}) /\ buffer \in Bytes /\ pipe \in Bytes /\ n \in Nat
            BY TypesOfBytes
        <3> QED BY <3>1, <3>2, LenProperties DEF Bytes
    <2>3. Len(buffer) # script[n + 1]
        BY <1>4, <2>2, BufferedMessage DEF Whole
    <2>4. SentWhole = n \/ faulty
        <3> SUFFICES ASSUME ~faulty PROVE SentWhole = n
            OBVIOUS
        <3>1. Len(pipe) = 0
            BY <1>1, EmptySeq
        <3>2. Written = Size(n) + Len(buffer)
            BY <2>2, <3>1, WrittenIsKnown, SizeGrows
        <3>3. n \in 0..(Len(script) - 1) /\ n \in 0..Len(script)
            BY <2>2
        <3>4. /\ Size(n) \in Nat /\ script[n + 1] \in Nat
              /\ Size(n + 1) = Size(n) + script[n + 1] + 1
            BY <3>3, SizeGrows
        <3>5. Written < Size(n + 1) - 1
            BY <2>2, <2>3, <3>2, <3>4
        <3>6. SentWhole <= n
            BY <3>3, <3>5, NoMoreIsSent
        <3>7. SentWhole \in Nat
            <4>1. SentWhole \in 0..Len(script)
                BY SentWholeIsCounted
            <4> QED BY <4>1
        <3> QED BY <2>1, <2>2, <3>6, <3>7 DEF NoneIsTorn
    <2>5. returned' = Append(returned, buffer) /\ Len(returned') = n + 1
        BY <1>1, <1>4, AppendedLength
    <2>6. LastIsTorn'
        <3>1. returned \in Seq(Seq(Byte)) /\ buffer \in Seq(Byte)
            BY DEF TypeOK
        <3>2. Append(returned, buffer)[n + 1] = buffer
            BY <3>1
        <3>3. Last(returned)' = buffer
            BY <2>5, <3>2 DEF Last
        <3>4. returned' # <<>>
            BY <2>2, <2>5, EmptySeq
        <3>5. buffer # Body(n + 1, script[n + 1])
            BY <1>4, <2>2 DEF Whole
        <3>6. Last(returned)' # Body(Len(returned'), script'[Len(returned')])
            BY <1>1, <2>5, <3>3, <3>5
        <3> QED BY <3>4, <3>6 DEF LastIsTorn
    <2>7. Received = n /\ Received' = n
        BY <2>1, <2>2, <2>5, <2>6 DEF Received, NoneIsTorn
    <2>8. SentWhole' = SentWhole
        BY <1>1 DEF SentWhole, Written
    <2>9. ~Stream!Over /\ reading # "refused" /\ reading' # "refused"
        BY <1>1, <1>4, <2>1 DEF Stream!Over, NoneIsTorn
    <2>10. LastIsTorn' = TRUE
        BY <2>6 DEF LastIsTorn
    <2>11. (reading = "refused")' = (reading = "refused")
        BY <2>9
    <2> HIDE DEF n
    <2>12. Stream!Tear
        BY <1>1, <2>2, <2>4, <2>7, <2>8, <2>9, <2>10, <2>11 DEF Stream!Tear, Received
    <2> QED BY <2>12 DEF Stream!Next
<1> QED BY <1>2, <1>3, <1>4

LEMMA StepIsStream ==
    ASSUME IInv, [Next]_vars
    PROVE  [Stream!Next]_(Stream!vars)
<1>1. CASE HangUp \/ Poll \/ Over \/ UNCHANGED vars
    <2>1. UNCHANGED <<script, faulty, unsent, returned>>
          /\ (reading' = "refused" <=> reading = "refused")
        BY <1>1 DEF HangUp, Poll, Over, vars
    <2> QED BY <2>1, StandsStill
<1> QED BY <1>1, WriteIsSend, TakeLineIsReceive, ReadChunkIsRefusal, ReturnRestIsTear
        DEF Next, ReadLine

\* Bytes, reads of any size, the limit and a peer that may die anywhere implement
\* the stream of messages that the event loop reads: whole and in order, none that
\* was not sent, then at most one torn piece, and nothing more once a message has
\* been refused.
THEOREM ReaderImplementsStream == Spec => ImplementsStream
<1>1. Init => Stream!Init
    BY InitIsStream
<1>2. Init => IInv
    BY StartsRight
<1>3. IInv /\ [Next]_vars => IInv'
    BY StepsKeep
<1>4. IInv /\ [Next]_vars => [Stream!Next]_(Stream!vars)
    BY StepIsStream
<1> QED BY <1>1, <1>2, <1>3, <1>4, PTL DEF Spec, ImplementsStream, Stream!Spec
=============================================================================
