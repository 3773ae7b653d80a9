------------------------- MODULE CommandLineProofs -------------------------
(***************************************************************************)
(* What is proved of CommandLine, for every command line, every size_t and *)
(* every machine.                                                          *)
(***************************************************************************)
EXTENDS CommandLine, SequenceTheorems, InductionFacts

-----------------------------------------------------------------------------
(* Numbers in a text *)

Appended(n, d) == 10 * n + d

\* Each digit is taken behind those before it.
LEMMA NumberIsBuilt ==
    ASSUME NEW text \in Seq(Digit)
    PROVE  \E p : /\ p[0] = 0 /\ Number(text) = p[Len(text)]
                  /\ \A m \in 0..(Len(text) - 1) : p[m + 1] = Appended(p[m], DigitValue[text[m + 1]])
<1> DEFINE n == Len(text)
           IsIter(iter) ==
               iter = [s \in SUBSET (1..n) |->
                          IF s = {} THEN 0 ELSE Appended(iter[s \ {Max(s)}], DigitValue[text[Max(s)]])]
           step == [x \in Nat \X (1..n) |-> Appended(x[1], DigitValue[text[x[2]]])]
<1>0. n \in Nat /\ DOMAIN text = 1..n /\ \A j \in 1..n : text[j] \in Digit
    BY LenProperties, ElementOfSeq
<1>1. Number(text) = (CHOOSE iter : IsIter(iter))[1..n]
    <2> HIDE DEF n
    <2> QED BY <1>0 DEF Number, FoldLeft, MapThenFoldSet, Appended
<1>2. \E iter : IsIter(iter)
    <2>1. \A m \in Nat, j \in 1..n : Appended(m, DigitValue[text[j]]) \in Nat
        <3> TAKE m \in Nat, j \in 1..n
        <3>1. DigitValue[text[j]] \in Nat
            BY <1>0, DigitsHaveValues
        <3> QED BY <3>1 DEF Appended
    <2>2. /\ step \in [Nat \X (1..n) -> Nat]
          /\ \A m \in Nat, j \in 1..n : step[<<m, j>>] = Appended(m, DigitValue[text[j]])
        BY <2>1
    <2> HIDE DEF step, n
    <2>3. PICK iter \in [SUBSET (1..n) -> Nat] : IsFold(iter, 0, step, n)
        BY <1>0, <2>2, FoldExists
    <2>4. \A s \in SUBSET (1..n) :
              iter[s] = IF s = {} THEN 0 ELSE step[<<iter[s \ {Max(s)}], Max(s)>>]
        BY <2>3 DEF IsFold
    <2>5. ASSUME NEW s \in SUBSET (1..n)
          PROVE  iter[s] = IF s = {} THEN 0 ELSE Appended(iter[s \ {Max(s)}], DigitValue[text[Max(s)]])
        <3>1. CASE s = {}
            BY <2>4, <3>1
        <3>2. CASE s # {}
            <4>1. Max(s) \in 1..n
                BY <1>0, <3>2, MaxOfSome
            <4>2. iter[s \ {Max(s)}] \in Nat
                BY <2>3
            <4> QED BY <2>2, <2>4, <3>2, <4>1, <4>2
        <3> QED BY <3>1, <3>2
    <2>6. IsIter(iter)
        BY <2>3, <2>5
    <2> QED BY <2>6
<1> DEFINE iter == CHOOSE iter : IsIter(iter)
           p == [m \in 0..n |-> iter[1..m]]
<1>3. IsIter(iter)
    <2> HIDE DEF IsIter
    <2> QED BY <1>2
<1>4. \A s \in SUBSET (1..n) :
          iter[s] = IF s = {} THEN 0 ELSE Appended(iter[s \ {Max(s)}], DigitValue[text[Max(s)]])
    <2> HIDE DEF iter
    <2> QED BY <1>3
<1> HIDE DEF iter
<1>5. p[0] = 0
    <2>1. {} \in SUBSET (1..n) /\ 1..0 = {} /\ 0 \in 0..n
        BY <1>0
    <2> QED BY <1>4, <2>1
<1>6. ASSUME NEW m \in 0..(n - 1) PROVE p[m + 1] = Appended(p[m], DigitValue[text[m + 1]])
    <2>1. m \in Nat /\ m \in 0..n /\ m + 1 \in 0..n /\ 1..(m + 1) \in SUBSET (1..n)
        BY <1>0
    <2>2. /\ 1..(m + 1) # {} /\ Max(1..(m + 1)) = m + 1
          /\ (1..(m + 1)) \ {m + 1} = 1..m
        BY <2>1, LastOfFirst
    <2>3. iter[1..(m + 1)] = Appended(iter[1..m], DigitValue[text[m + 1]])
        BY <1>4, <2>1, <2>2
    <2> QED BY <2>1, <2>3
<1>7. Number(text) = p[n]
    <2>1. n \in 0..n
        BY <1>0
    <2> QED BY <1>1, <2>1 DEF iter
<1> HIDE DEF p
<1> QED BY <1>5, <1>6, <1>7

\* Dividing by ten times t is dividing by t and then by ten.
LEMMA DividedTwice ==
    ASSUME NEW n \in Nat, NEW t \in Nat, t >= 1
    PROVE  /\ n \div t \in Nat
           /\ n \div (10 * t) = (n \div t) \div 10
           /\ n \div t = 0 <=> n < t
<1> DEFINE q == n \div t
           tens == 10 * t
           r == q \div 10
<1>1. \A a, b, k \in Nat : b >= 1 => a \div b \in Nat /\ (a \div b >= k <=> a >= k * b)
    OBVIOUS
<1>2. q \in Nat /\ \A k \in Nat : q >= k <=> n >= k * t
    BY <1>1
<1>3. tens \in Nat /\ tens >= 1 /\ \A k \in Nat : k * tens = (10 * k) * t
    OBVIOUS
<1>4. n \div tens \in Nat /\ \A k \in Nat : n \div tens >= k <=> n >= k * tens
    BY <1>1, <1>3
<1>5. r \in Nat /\ \A k \in Nat : r >= k <=> q >= 10 * k
    <2> HIDE DEF q
    <2> QED BY <1>2
<1> HIDE DEF q, r, tens
<1>6. \A k \in Nat : n \div tens >= k <=> r >= k
    <2> TAKE k \in Nat
    <2>1. 10 * k \in Nat
        OBVIOUS
    <2>2. n \div tens >= k <=> n >= (10 * k) * t
        BY <1>3, <1>4
    <2>3. r >= k <=> n >= (10 * k) * t
        BY <1>2, <1>5, <2>1
    <2> QED BY <2>2, <2>3
<1>7. n \div tens = r
    BY <1>4, <1>5, <1>6
<1>8. q = 0 <=> n < t
    <2>1. q >= 1 <=> n >= 1 * t
        BY <1>2
    <2> QED BY <1>2, <2>1
<1> QED BY <1>2, <1>7, <1>8 DEF q, r, tens

LEMMA AllDigitsMeans ==
    ASSUME NEW text \in Seq(STRING)
    PROVE  /\ AllDigits(text) <=> Len(text) > 0 /\ \A k \in 1..Len(text) : text[k] \in Digit
           /\ AllDigits(text) => text \in Seq(Digit)
<1>1. DOMAIN text = 1..Len(text) /\ Len(text) \in Nat /\ text \in [1..Len(text) -> STRING]
    BY LenProperties
<1>2. text # <<>> <=> Len(text) > 0
    BY <1>1, EmptySeq
<1>3. Range(text) \subseteq Digit <=> \A k \in 1..Len(text) : text[k] \in Digit
    BY <1>1 DEF Range
<1>4. ASSUME \A k \in 1..Len(text) : text[k] \in Digit PROVE text \in Seq(Digit)
    <2>1. text \in [1..Len(text) -> Digit]
        BY <1>1, <1>4
    <2> QED BY <1>1, <2>1
<1> QED BY <1>2, <1>3, <1>4 DEF AllDigits

\* What parsePositive makes of a text is the number that the text has in decimal.
LEMMA NumberIsRead ==
    ASSUME NEW text \in Seq(STRING)
    PROVE  /\ AllDigits(text) => Number(text) \in Nat
           /\ \A n \in Nat : Reads(text, n) <=> AllDigits(text) /\ Number(text) = n
<1> DEFINE L == Len(text)
           D(k) == DigitValue[text[k]]
           Quotient(n, k) == n \div TenTo[L - k]
<1>1. L \in Nat /\ DOMAIN text = 1..L
    BY LenProperties
<1>2. \A n : Reads(text, n) <=> /\ AllDigits(text) /\ n < TenTo[L]
                                /\ \A k \in 1..L : D(k) = Quotient(n, k) % 10
    <2>1. text # <<>> <=> L > 0
        BY <1>1, EmptySeq
    <2> HIDE DEF L
    <2> QED BY <1>1, <2>1, AllDigitsMeans DEF Reads, L
<1>3. SUFFICES ASSUME AllDigits(text)
               PROVE  /\ Number(text) \in Nat
                      /\ \A n \in Nat : n < TenTo[L] /\ (\A k \in 1..L : D(k) = Quotient(n, k) % 10)
                            <=> Number(text) = n
    <2> HIDE DEF D, L, Quotient
    <2> QED BY <1>2
<1>4. text \in Seq(Digit) /\ \A k \in 1..L : text[k] \in Digit
    BY <1>3, AllDigitsMeans
<1>5. \A k \in 1..L : D(k) \in 0..9
    BY <1>4, DigitsHaveValues
<1>6. PICK p : /\ p[0] = 0 /\ Number(text) = p[L]
               /\ \A m \in 0..(L - 1) : p[m + 1] = Appended(p[m], DigitValue[text[m + 1]])
    BY <1>4, NumberIsBuilt
<1>7. \A m \in 0..(L - 1) : p[m + 1] = 10 * p[m] + D(m + 1) /\ D(m + 1) \in 0..9
    <2> TAKE m \in 0..(L - 1)
    <2>1. m + 1 \in 1..L
        BY <1>1
    <2> QED BY <1>5, <1>6, <2>1 DEF Appended
<1> HIDE DEF D, L
<1>8. \A m \in 0..L : p[m] \in Nat
    <2> DEFINE Good == {m \in Nat : m <= L => p[m] \in Nat}
    <2>1. 0 \in Good
        BY <1>6
    <2>2. ASSUME NEW m \in Good PROVE m + 1 \in Good
        <3>1. m \in Nat /\ m + 1 \in Nat
            OBVIOUS
        <3>2. ASSUME m + 1 <= L PROVE p[m + 1] \in Nat
            <4>1. m \in 0..(L - 1) /\ m <= L
                BY <1>1, <3>1, <3>2
            <4>2. p[m] \in Nat
                BY <4>1
            <4>3. p[m + 1] = 10 * p[m] + D(m + 1) /\ D(m + 1) \in 0..9
                BY <1>7, <4>1
            <4> HIDE DEF Good
            <4> QED BY <4>2, <4>3
        <3> QED BY <3>1, <3>2
    <2>3. Good = Nat
        <3>1. Good \in SUBSET Nat
            OBVIOUS
        <3> HIDE DEF Good
        <3> QED BY <2>1, <2>2, <3>1, Induction
    <2> QED BY <1>1, <2>3
<1>9. Number(text) \in Nat
    BY <1>1, <1>6, <1>8
\* One digit fewer is ten times fewer.
<1>10. ASSUME NEW n \in Nat, NEW m \in 0..(L - 1)
       PROVE  /\ Quotient(n, m) \in Nat /\ Quotient(n, m + 1) \in Nat
              /\ Quotient(n, m) = Quotient(n, m + 1) \div 10
    <2> DEFINE t == TenTo[L - (m + 1)]
    <2>1. L - (m + 1) \in Nat /\ L - m = (L - (m + 1)) + 1
        BY <1>1
    <2>2. t \in Nat /\ t >= 1 /\ TenTo[L - m] = 10 * t
        BY <2>1, PowersOfTen
    <2>3. Quotient(n, m + 1) = n \div t /\ Quotient(n, m) = n \div (10 * t)
        BY <2>2
    <2> HIDE DEF t, Quotient
    <2>4. n \div t \in Nat /\ n \div (10 * t) = (n \div t) \div 10
        BY <2>2, DividedTwice
    <2>5. (n \div t) \div 10 \in Nat
        BY <2>4
    <2> QED BY <2>3, <2>4, <2>5
<1>11. \A n \in Nat : Quotient(n, L) = n /\ (Quotient(n, 0) = 0 <=> n < TenTo[L])
    <2> TAKE n \in Nat
    <2>1. L - L = 0 /\ L - 0 = L
        BY <1>1
    <2>2. Quotient(n, L) = n
        <3>1. TenTo[L - L] = 1
            BY <2>1, PowersOfTen
        <3>2. n \div 1 = n
            OBVIOUS
        <3> QED BY <3>1, <3>2
    <2>3. TenTo[L] \in Nat /\ TenTo[L] >= 1
        BY <1>1, PowersOfTen
    <2>4. Quotient(n, 0) = n \div TenTo[L]
        BY <2>1
    <2> HIDE DEF Quotient
    <2> QED BY <2>2, <2>3, <2>4, DividedTwice
<1> HIDE DEF Quotient
\* From the first digit to the last: a number read is the one accumulated.
<1>12. ASSUME NEW n \in Nat, n < TenTo[L], \A k \in 1..L : D(k) = Quotient(n, k) % 10
       PROVE  Number(text) = n
    <2> DEFINE Good == {m \in Nat : m <= L => p[m] = Quotient(n, m)}
    <2>1. 0 \in Good
        BY <1>6, <1>11, <1>12
    <2>2. ASSUME NEW m \in Good PROVE m + 1 \in Good
        <3>1. m \in Nat /\ m + 1 \in Nat
            OBVIOUS
        <3>2. ASSUME m + 1 <= L PROVE p[m + 1] = Quotient(n, m + 1)
            <4>1. m \in 0..(L - 1) /\ m <= L /\ m + 1 \in 1..L
                BY <1>1, <3>1, <3>2
            <4>2. p[m] = Quotient(n, m)
                BY <4>1
            <4>3. p[m + 1] = 10 * p[m] + D(m + 1)
                BY <1>7, <4>1
            <4>4. D(m + 1) = Quotient(n, m + 1) % 10
                BY <1>12, <4>1
            <4>5. Quotient(n, m + 1) \in Nat /\ Quotient(n, m) = Quotient(n, m + 1) \div 10
                BY <1>10, <4>1
            <4> HIDE DEF Good
            <4> QED BY <4>2, <4>3, <4>4, <4>5
        <3> QED BY <3>1, <3>2
    <2>3. Good = Nat
        <3>1. Good \in SUBSET Nat
            OBVIOUS
        <3> HIDE DEF Good
        <3> QED BY <2>1, <2>2, <3>1, Induction
    <2>4. p[L] = Quotient(n, L)
        BY <1>1, <2>3
    <2> QED BY <1>6, <1>11, <2>4
\* From the last digit to the first: what is accumulated has these digits.
<1>13. \A m \in 0..L : p[m] = Quotient(Number(text), m)
    <2> DEFINE N == Number(text)
               Good == {d \in Nat : d <= L => p[L - d] = Quotient(N, L - d)}
    <2>1. 0 \in Good
        BY <1>1, <1>6, <1>9, <1>11
    <2>2. ASSUME NEW d \in Good PROVE d + 1 \in Good
        <3>1. d \in Nat /\ d + 1 \in Nat
            OBVIOUS
        <3>2. ASSUME d + 1 <= L PROVE p[L - (d + 1)] = Quotient(N, L - (d + 1))
            <4> DEFINE m == L - (d + 1)
            <4>1. m \in 0..(L - 1) /\ m \in 0..L /\ m + 1 = L - d /\ d <= L
                BY <1>1, <3>1, <3>2
            <4>2. p[m + 1] = Quotient(N, m + 1)
                BY <4>1
            <4> HIDE DEF m, Good, N
            <4>3. p[m + 1] = 10 * p[m] + D(m + 1) /\ D(m + 1) \in 0..9 /\ p[m] \in Nat
                BY <1>7, <1>8, <4>1
            <4>4. Quotient(N, m) = Quotient(N, m + 1) \div 10
                BY <1>9, <1>10, <4>1 DEF N
            <4>5. (10 * p[m] + D(m + 1)) \div 10 = p[m]
                <5>1. \A a \in Nat, b \in 0..9 : (10 * a + b) \div 10 = a
                    OBVIOUS
                <5> QED BY <4>3, <5>1
            <4> QED BY <4>2, <4>3, <4>4, <4>5 DEF m
        <3> QED BY <3>1, <3>2
    <2>3. Good = Nat
        <3>1. Good \in SUBSET Nat
            OBVIOUS
        <3> HIDE DEF Good
        <3> QED BY <2>1, <2>2, <3>1, Induction
    <2> TAKE m \in 0..L
    <2>4. L - m \in Nat /\ L - m <= L /\ L - (L - m) = m
        BY <1>1
    <2>5. L - m \in Good
        BY <2>3, <2>4
    <2> QED BY <2>4, <2>5
<1>14. Number(text) < TenTo[L]
    BY <1>1, <1>6, <1>9, <1>11, <1>13
<1>15. ASSUME NEW k \in 1..L PROVE D(k) = Quotient(Number(text), k) % 10
    <2>1. k - 1 \in 0..(L - 1) /\ (k - 1) + 1 = k /\ k \in 0..L /\ k - 1 \in 0..L
        BY <1>1
    <2>2. p[k] = 10 * p[k - 1] + D(k) /\ D(k) \in 0..9 /\ p[k - 1] \in Nat
        <3>1. p[(k - 1) + 1] = 10 * p[k - 1] + D((k - 1) + 1) /\ D((k - 1) + 1) \in 0..9
            BY <1>7, <2>1
        <3> QED BY <1>8, <2>1, <3>1
    <2>3. (10 * p[k - 1] + D(k)) % 10 = D(k)
        BY <2>2
    <2> QED BY <1>13, <2>1, <2>2, <2>3
<1> QED BY <1>9, <1>12, <1>14, <1>15

\* What parsePositive accepts.
LEMMA PositiveIsRead ==
    ASSUME NEW text \in Seq(STRING)
    PROVE  /\ IsPositive(text) <=> \E n \in 1..MaxSize : Reads(text, n)
           /\ IsPositive(text) => Number(text) \in 1..MaxSize /\ Reads(text, Number(text))
<1>1. \A n \in 1..MaxSize : n \in Nat
    BY CommandLineAssumption
<1> QED BY <1>1, NumberIsRead DEF IsPositive

-----------------------------------------------------------------------------
(* Flags and values *)

LEMMA ArgvIsTyped ==
    ASSUME argv \in Argvs
    PROVE  /\ argv \in Seq(Seq(STRING)) /\ Len(argv) \in Nat /\ DOMAIN argv = 1..Len(argv)
           /\ \A k \in 1..Len(argv) : argv[k] \in Seq(STRING)
<1>1. argv \in Seq(Seq(STRING))
    BY CommandLineAssumption
<1> QED BY <1>1, LenProperties, ElementOfSeq

\* Where the unbroken row of words that want a value begins.
Begins(j, k) ==
    /\ j \in 1..k /\ \A n \in j..k : argv[n] \in WithValue
    /\ j > 1 => argv[j - 1] \notin WithValue

LEMMA RowsBegin ==
    ASSUME NEW k \in Nat \ {0}, argv[k] \in WithValue
    PROVE  \E j \in 1..k : Begins(j, k)
<1> DEFINE S == {j \in 1..k : \A n \in j..k : argv[n] \in WithValue}
<1>1. k \in S /\ S \in SUBSET Nat /\ S # {}
    <2>1. \A n \in k..k : n = k
        OBVIOUS
    <2> QED BY <2>1
<1>2. PICK j \in S : \A n \in S : j <= n
    <2> HIDE DEF S
    <2> QED BY <1>1, LeastNumber
<1>3. ASSUME j > 1 PROVE argv[j - 1] \notin WithValue
    <2> SUFFICES ASSUME argv[j - 1] \in WithValue PROVE FALSE
        OBVIOUS
    <2>1. j - 1 \in 1..k /\ \A n \in (j - 1)..k : n = j - 1 \/ n \in j..k
        BY <1>3
    <2>2. j - 1 \in S
        BY <2>1
    <2> QED BY <1>2, <2>2
<1> QED BY <1>3 DEF Begins

LEMMA RowsBeginOnce ==
    ASSUME NEW k \in Nat, NEW j, Begins(j, k), NEW m, Begins(m, k)
    PROVE  j = m
<1>1. ASSUME NEW a \in 1..k, NEW b \in 1..k, Begins(a, k), Begins(b, k) PROVE ~ (a < b)
    <2> SUFFICES ASSUME a < b PROVE FALSE
        OBVIOUS
    <2>1. b - 1 \in a..k /\ b > 1
        OBVIOUS
    <2> QED BY <1>1, <2>1 DEF Begins
<1>2. j \in 1..k /\ m \in 1..k
    BY DEF Begins
<1> QED BY <1>1, <1>2

LEMMA ValueBegins ==
    ASSUME NEW k \in Nat
    PROVE  IsValue(k + 1) <=> \E j : Begins(j, k) /\ (k + 1 - j) % 2 = 1
<1>1. (k + 1) - 1 = k
    OBVIOUS
<1> QED BY <1>1 DEF IsValue, Begins

\* A word is a value if the word before it is a flag that wants one.
LEMMA ValuesFollowFlags ==
    ASSUME NEW k \in Nat \ {0}
    PROVE  IsValue(k + 1) <=> argv[k] \in WithValue /\ ~IsValue(k)
<1>0. ~IsValue(1)
    BY DEF IsValue
<1>1. ASSUME argv[k] \notin WithValue PROVE ~IsValue(k + 1)
    <2>1. ASSUME NEW j, Begins(j, k) PROVE FALSE
        <3>1. k \in j..k
            BY <2>1 DEF Begins
        <3> QED BY <1>1, <2>1, <3>1 DEF Begins
    <2> QED BY <2>1, ValueBegins
<1>2. ASSUME argv[k] \in WithValue PROVE IsValue(k + 1) <=> ~IsValue(k)
    <2>1. PICK j \in 1..k : Begins(j, k)
        BY <1>2, RowsBegin
    <2>2. IsValue(k + 1) <=> (k + 1 - j) % 2 = 1
        BY <2>1, ValueBegins, RowsBeginOnce
    <2>3. CASE j = k
        <3>1. (k + 1 - j) % 2 = 1
            BY <2>3
        <3>2. ~IsValue(k)
            <4>1. CASE k = 1
                BY <1>0, <4>1
            <4>2. CASE k > 1
                <5> DEFINE b == k - 1
                <5>1. b \in Nat /\ b + 1 = k /\ b \in 1..b
                    BY <4>2
                <5>2. argv[b] \notin WithValue
                    BY <2>1, <2>3, <4>2 DEF Begins
                <5>3. ASSUME NEW a, Begins(a, b) PROVE FALSE
                    <6>1. b \in a..b
                        BY <5>1, <5>3 DEF Begins
                    <6> QED BY <5>2, <5>3, <6>1 DEF Begins
                <5> HIDE DEF b
                <5> QED BY <5>1, <5>3, ValueBegins
            <4> QED BY <4>1, <4>2
        <3> QED BY <2>2, <3>1, <3>2
    <2>4. CASE j < k
        <3> DEFINE b == k - 1
        <3>1. b \in Nat /\ b + 1 = k /\ j \in 1..b
            BY <2>4
        <3>2. Begins(j, b)
            <4>1. \A n \in j..b : n \in j..k
                BY <3>1
            <4> HIDE DEF b
            <4> QED BY <2>1, <3>1, <4>1 DEF Begins
        <3> HIDE DEF b
        <3>3. IsValue(k) <=> (b + 1 - j) % 2 = 1
            BY <3>1, <3>2, ValueBegins, RowsBeginOnce
        <3>4. (k + 1 - j) % 2 = 1 <=> (k - j) % 2 # 1
            <4>1. \A a \in Nat : (a + 1) % 2 = 1 <=> a % 2 # 1
                OBVIOUS
            <4>2. k - j \in Nat /\ (k - j) + 1 = k + 1 - j
                BY <2>4
            <4> QED BY <4>1, <4>2
        <3> QED BY <2>2, <3>1, <3>3, <3>4
    <2> QED BY <2>3, <2>4
<1> QED BY <1>1, <1>2

-----------------------------------------------------------------------------
(* The loop of parseArgs.  What is held of the arguments says what the flags
   before the one it is at say, the last of a kind for all of them. *)

GivenBefore(flag) == \E k \in Flags : k < i /\ argv[k] = flag
IsLast(flag, k) ==
    /\ k \in Flags /\ k < i /\ argv[k] = flag
    /\ \A m \in Flags : m < i /\ argv[m] = flag => m <= k

Arguments ==
    [flakeRef : Seq(STRING), system : Seq(STRING), workers : Nat \cup {None}, maxMemoryMiB : Nat,
     dependencies : BOOLEAN, importFromDerivation : BOOLEAN, impure : BOOLEAN, shallow : BOOLEAN]

TypeInv ==
    /\ argv \in Argvs /\ cores \in Nat
    /\ args \in Arguments
    /\ haveFlake \in BOOLEAN /\ haveSystem \in BOOLEAN

AtAFlag ==
    /\ i \in 1..(Len(argv) + 1) /\ ~IsValue(i)
    /\ \A k \in Flags : k < i => WellFormed(k)

TextsHeld ==
    /\ haveFlake <=> GivenBefore(<<"--flake">>)
    /\ haveSystem <=> GivenBefore(<<"--system">>)
    /\ \A k : IsLast(<<"--flake">>, k) => args.flakeRef = argv[k + 1]
    /\ \A k : IsLast(<<"--system">>, k) => args.system = argv[k + 1]

CountsHeld ==
    /\ ~GivenBefore(<<"--workers">>) => args.workers = None
    /\ ~GivenBefore(<<"--max-memory-size">>) => args.maxMemoryMiB = 4096
    /\ \A k : IsLast(<<"--workers">>, k) =>
                 args.workers \in 1..MaxSize /\ Reads(argv[k + 1], args.workers)
    /\ \A k : IsLast(<<"--max-memory-size">>, k) => Reads(argv[k + 1], args.maxMemoryMiB)

SwitchesHeld ==
    /\ args.dependencies <=> ~GivenBefore(<<"--no-dependencies">>)
    /\ args.importFromDerivation <=> ~GivenBefore(<<"--no-import-from-derivation">>)
    /\ args.impure <=> GivenBefore(<<"--impure">>)
    /\ args.shallow <=> ~GivenBefore(<<"--no-shallow">>)

\* What Start makes of the arguments.
StartedWith ==
    [maxWorkers |-> MaxWorkerCount, maxMemoryMiB |-> args.maxMemoryMiB,
     fetched |-> args.flakeRef, system |-> args.system,
     selected |-> NixStringLiteral(args.system) \o EndOfSelection,
     shallow |-> ShallowIfRemoteGit(args.flakeRef),
     pureEval |-> ~args.impure, importFromDerivation |-> args.importFromDerivation,
     wantEdges |-> args.dependencies]

\* Why parsing ended where it did.
OutcomeInv ==
    /\ outcome \in {"parsing", "parsed", "help", "error", "started"}
    /\ outcome = "help" => i <= Len(argv) /\ argv[i] \in Help
    /\ outcome = "error" => \/ i <= Len(argv) /\ ~WellFormed(i) /\ argv[i] \notin Help
                            \/ i = Len(argv) + 1 /\ ~(haveFlake /\ haveSystem)
    /\ outcome \in {"parsed", "started"} => i = Len(argv) + 1 /\ haveFlake /\ haveSystem
    /\ outcome = "started" => run = StartedWith

Held == TextsHeld /\ CountsHeld /\ SwitchesHeld
IInv == TypeInv /\ AtAFlag /\ Held /\ OutcomeInv

\* What the definitions about argv alone keep.
LEMMA SameFlags ==
    ASSUME argv' = argv
    PROVE  /\ Flags' = Flags
           /\ \A k : IsValue(k)' <=> IsValue(k)
           /\ \A k : WellFormed(k)' <=> WellFormed(k)
BY DEF Flags, IsValue, WellFormed, IsCount

\* One argument taken, with its value.
LEMMA OneMoreFlag ==
    ASSUME TypeInv, AtAFlag, i <= Len(argv), WellFormed(i), argv' = argv,
           i' = (IF argv[i] \in WithValue THEN i + 2 ELSE i + 1)
    PROVE  /\ AtAFlag'
           /\ \A flag : GivenBefore(flag)' <=> GivenBefore(flag) \/ argv[i] = flag
           /\ \A flag, k : IsLast(flag, k)' <=> IF argv[i] = flag THEN k = i ELSE IsLast(flag, k)
<1>1. /\ Len(argv) \in Nat /\ DOMAIN argv = 1..Len(argv) /\ i \in 1..Len(argv)
      /\ i \in Flags /\ Flags \in SUBSET (1..Len(argv))
    BY ArgvIsTyped DEF TypeInv, AtAFlag, Flags
<1>2. i' \in 1..(Len(argv) + 1) /\ i < i'
    BY <1>1 DEF WellFormed
<1>3. Flags' = Flags /\ \A k : WellFormed(k)' <=> WellFormed(k)
    BY SameFlags
<1>a. IsValue(i)' <=> IsValue(i')
    BY DEF IsValue
<1>4. ~IsValue(i')
    <2>1. CASE argv[i] \in WithValue
        <3> DEFINE k == i + 1
        <3>1. IsValue(k)
            BY <1>1, <2>1, ValuesFollowFlags DEF AtAFlag
        <3>2. k \in Nat \ {0} /\ i' = k + 1
            BY <1>1, <2>1
        <3> HIDE DEF k
        <3>3. ~IsValue(k + 1)
            BY <3>1, <3>2, ValuesFollowFlags
        <3> QED BY <3>2, <3>3
    <2>2. CASE argv[i] \notin WithValue
        <3>1. ~IsValue(i + 1)
            BY <1>1, <2>2, ValuesFollowFlags
        <3> QED BY <2>2, <3>1
    <2> QED BY <2>1, <2>2
<1>5. \A k \in Flags : k < i' <=> k < i \/ k = i
    <2> TAKE k \in Flags
    <2>1. k \in 1..Len(argv) /\ ~IsValue(k)
        BY <1>1 DEF Flags
    <2>2. argv[i] \in WithValue => k # i + 1
        BY <1>1, <2>1, ValuesFollowFlags DEF AtAFlag
    <2> QED BY <1>1, <2>1, <2>2
<1>6. AtAFlag'
    <2>1. \A k \in Flags' : k < i' => WellFormed(k)'
        BY <1>3, <1>5 DEF AtAFlag
    <2>2. i' \in 1..(Len(argv') + 1)
        BY <1>2
    <2>3. ~IsValue(i)'
        BY <1>a, <1>4
    <2> QED BY <2>1, <2>2, <2>3 DEF AtAFlag
<1>7. \A flag : GivenBefore(flag)' <=> GivenBefore(flag) \/ argv[i] = flag
    BY <1>1, <1>3, <1>5 DEF GivenBefore
<1>8. ASSUME NEW flag, NEW k
      PROVE  IsLast(flag, k)' <=> IF argv[i] = flag THEN k = i ELSE IsLast(flag, k)
    <2>1. IsLast(flag, k)' <=> /\ k \in Flags /\ (k < i \/ k = i) /\ argv[k] = flag
                               /\ \A m \in Flags : (m < i \/ m = i) /\ argv[m] = flag => m <= k
        BY <1>3, <1>5 DEF IsLast
    <2>2. CASE argv[i] = flag
        <3>1. ASSUME NEW m \in Flags, m < i \/ m = i PROVE m <= i
            BY <1>1, <3>1
        <3>2. k \in Flags /\ (k < i \/ k = i) /\ i <= k => k = i
            BY <1>1
        <3> QED BY <1>1, <2>1, <2>2, <3>1, <3>2
    <2>3. CASE argv[i] # flag
        BY <2>1, <2>3 DEF IsLast
    <2> QED BY <2>2, <2>3
<1> QED BY <1>6, <1>7, <1>8

LEMMA WordsDiffer ==
    /\ \A c, d : <<c>> = <<d>> <=> c = d
    /\ <<"--flake">> \in WithValue /\ <<"--system">> \in WithValue
    /\ <<"--workers">> \in WithValue /\ <<"--max-memory-size">> \in WithValue
    /\ WithValue \cap Switches = {} /\ WithValue \cap Help = {} /\ Switches \cap Help = {}
<1>1. \A c, d : <<c>> = <<d>> <=> c = d
    OBVIOUS
<1> QED BY <1>1 DEF WithValue, Switches, Help

LEMMA NothingTaken ==
    ASSUME TypeInv, AtAFlag, Held, UNCHANGED <<argv, i, args, haveFlake, haveSystem, cores>>
    PROVE  /\ TypeInv' /\ AtAFlag' /\ Held'
           /\ \A k : WellFormed(k)' <=> WellFormed(k)
<1>1. TypeInv'
    BY DEF TypeInv
<1>2. Flags' = Flags /\ (\A k : WellFormed(k)' <=> WellFormed(k))
    BY SameFlags
<1>3. IsValue(i)' <=> IsValue(i)
    BY DEF IsValue
<1>4. AtAFlag'
    BY <1>2, <1>3 DEF AtAFlag
<1>5. \A flag : GivenBefore(flag)' <=> GivenBefore(flag)
    BY <1>2 DEF GivenBefore
<1>6. \A flag, k : IsLast(flag, k)' <=> IsLast(flag, k)
    BY <1>2 DEF IsLast
<1>7. TextsHeld'
    BY <1>5, <1>6 DEF TextsHeld, Held
<1>8. CountsHeld'
    <2>1. \A k, n : Reads(argv[k + 1], n)' <=> Reads(argv[k + 1], n)
        BY DEF Reads
    <2> QED BY <1>5, <1>6, <2>1 DEF CountsHeld, Held, Reads
<1>9. SwitchesHeld'
    BY <1>5 DEF SwitchesHeld, Held
<1> QED BY <1>1, <1>2, <1>4, <1>7, <1>8, <1>9 DEF Held

LEMMA TakeTextKeeps == IInv /\ TakeText => IInv'
<1> SUFFICES ASSUME IInv, TakeText PROVE IInv'
    OBVIOUS
<1> USE DEF IInv
<1>0. /\ outcome = "parsing" /\ outcome' = "parsing" /\ argv' = argv /\ cores' = cores
      /\ i <= Len(argv) /\ i < Len(argv) /\ i' = i + 2
      /\ argv[i] \in {<<"--flake">>, <<"--system">>}
    BY DEF TakeText, Parsing, HasValue, AfterValue
<1>1. /\ Len(argv) \in Nat /\ i \in Nat /\ argv[i + 1] \in Seq(STRING)
    BY <1>0, ArgvIsTyped DEF TypeInv, AtAFlag
<1>2. argv[i] \in WithValue /\ ~IsCount(i)
    BY <1>0, WordsDiffer DEF IsCount
<1>3. WellFormed(i)
    BY <1>0, <1>2 DEF WellFormed
<1>4. /\ AtAFlag'
      /\ \A flag : GivenBefore(flag)' <=> GivenBefore(flag) \/ argv[i] = flag
      /\ \A flag, k : IsLast(flag, k)' <=> IF argv[i] = flag THEN k = i ELSE IsLast(flag, k)
    BY <1>0, <1>2, <1>3, OneMoreFlag
<1>6. OutcomeInv'
    BY <1>0 DEF OutcomeInv
<1>7. CASE /\ argv[i] = <<"--flake">> /\ args' = [args EXCEPT !.flakeRef = argv[i + 1]]
           /\ haveFlake' = TRUE /\ haveSystem' = haveSystem
    <2>1. /\ args' \in Arguments /\ args'.flakeRef = argv[i + 1] /\ args'.system = args.system
          /\ args'.workers = args.workers /\ args'.maxMemoryMiB = args.maxMemoryMiB
          /\ args'.dependencies = args.dependencies /\ args'.impure = args.impure
          /\ args'.importFromDerivation = args.importFromDerivation /\ args'.shallow = args.shallow
        BY <1>1, <1>7 DEF TypeInv, Arguments
    <2>2. TypeInv'
        BY <1>0, <1>7, <2>1 DEF TypeInv
    <2>3. TextsHeld'
        BY <1>0, <1>4, <1>7, <2>1, WordsDiffer DEF TextsHeld, Held
    <2>4. CountsHeld'
        BY <1>0, <1>4, <1>7, <2>1, WordsDiffer DEF CountsHeld, Held
    <2>5. SwitchesHeld'
        BY <1>0, <1>4, <1>7, <2>1, WordsDiffer DEF SwitchesHeld, Held
    <2> QED BY <1>4, <1>6, <2>2, <2>3, <2>4, <2>5 DEF Held
<1>8. CASE /\ argv[i] = <<"--system">> /\ args' = [args EXCEPT !.system = argv[i + 1]]
           /\ haveSystem' = TRUE /\ haveFlake' = haveFlake
    <2>1. /\ args' \in Arguments /\ args'.flakeRef = args.flakeRef /\ args'.system = argv[i + 1]
          /\ args'.workers = args.workers /\ args'.maxMemoryMiB = args.maxMemoryMiB
          /\ args'.dependencies = args.dependencies /\ args'.impure = args.impure
          /\ args'.importFromDerivation = args.importFromDerivation /\ args'.shallow = args.shallow
        BY <1>1, <1>8 DEF TypeInv, Arguments
    <2>2. TypeInv'
        BY <1>0, <1>8, <2>1 DEF TypeInv
    <2>3. TextsHeld'
        BY <1>0, <1>4, <1>8, <2>1, WordsDiffer DEF TextsHeld, Held
    <2>4. CountsHeld'
        BY <1>0, <1>4, <1>8, <2>1, WordsDiffer DEF CountsHeld, Held
    <2>5. SwitchesHeld'
        BY <1>0, <1>4, <1>8, <2>1, WordsDiffer DEF SwitchesHeld, Held
    <2> QED BY <1>4, <1>6, <2>2, <2>3, <2>4, <2>5 DEF Held
<1> QED BY <1>7, <1>8 DEF TakeText

LEMMA TakeCountKeeps == IInv /\ TakeCount => IInv'
<1> SUFFICES ASSUME IInv, TakeCount PROVE IInv'
    OBVIOUS
<1> USE DEF IInv
<1> DEFINE n == Number(argv[i + 1])
<1>0. /\ outcome = "parsing" /\ outcome' = "parsing" /\ argv' = argv /\ cores' = cores
      /\ haveFlake' = haveFlake /\ haveSystem' = haveSystem
      /\ i <= Len(argv) /\ i < Len(argv) /\ i' = i + 2
      /\ argv[i] \in {<<"--workers">>, <<"--max-memory-size">>} /\ IsPositive(argv[i + 1])
    BY DEF TakeCount, Parsing, HasValue, AfterValue
<1>1. Len(argv) \in Nat /\ i \in Nat /\ argv[i + 1] \in Seq(STRING)
    BY <1>0, ArgvIsTyped DEF TypeInv, AtAFlag
<1>2. argv[i] \in WithValue
    BY <1>0, WordsDiffer
<1>3. n \in 1..MaxSize /\ n \in Nat /\ Reads(argv[i + 1], n)
    BY <1>0, <1>1, PositiveIsRead, CommandLineAssumption
<1> HIDE DEF n
<1>4. WellFormed(i)
    BY <1>0, <1>2, <1>3 DEF WellFormed
<1>5. /\ AtAFlag'
      /\ \A flag : GivenBefore(flag)' <=> GivenBefore(flag) \/ argv[i] = flag
      /\ \A flag, k : IsLast(flag, k)' <=> IF argv[i] = flag THEN k = i ELSE IsLast(flag, k)
    BY <1>0, <1>2, <1>4, OneMoreFlag
<1>6. OutcomeInv'
    BY <1>0 DEF OutcomeInv
<1>7. CASE argv[i] = <<"--workers">> /\ args' = [args EXCEPT !.workers = n]
    <2>1. /\ args' \in Arguments /\ args'.flakeRef = args.flakeRef /\ args'.system = args.system
          /\ args'.workers = n /\ args'.maxMemoryMiB = args.maxMemoryMiB
          /\ args'.dependencies = args.dependencies /\ args'.impure = args.impure
          /\ args'.importFromDerivation = args.importFromDerivation /\ args'.shallow = args.shallow
        BY <1>3, <1>7 DEF TypeInv, Arguments
    <2>2. TypeInv'
        BY <1>0, <2>1 DEF TypeInv
    <2>3. TextsHeld'
        BY <1>0, <1>5, <1>7, <2>1, WordsDiffer DEF TextsHeld, Held
    <2>4. CountsHeld'
        BY <1>0, <1>3, <1>5, <1>7, <2>1, WordsDiffer DEF CountsHeld, Held
    <2>5. SwitchesHeld'
        BY <1>0, <1>5, <1>7, <2>1, WordsDiffer DEF SwitchesHeld, Held
    <2> QED BY <1>5, <1>6, <2>2, <2>3, <2>4, <2>5 DEF Held
<1>8. CASE argv[i] = <<"--max-memory-size">> /\ args' = [args EXCEPT !.maxMemoryMiB = n]
    <2>1. /\ args' \in Arguments /\ args'.flakeRef = args.flakeRef /\ args'.system = args.system
          /\ args'.workers = args.workers /\ args'.maxMemoryMiB = n
          /\ args'.dependencies = args.dependencies /\ args'.impure = args.impure
          /\ args'.importFromDerivation = args.importFromDerivation /\ args'.shallow = args.shallow
        BY <1>3, <1>8 DEF TypeInv, Arguments
    <2>2. TypeInv'
        BY <1>0, <2>1 DEF TypeInv
    <2>3. TextsHeld'
        BY <1>0, <1>5, <1>8, <2>1, WordsDiffer DEF TextsHeld, Held
    <2>4. CountsHeld'
        BY <1>0, <1>3, <1>5, <1>8, <2>1, WordsDiffer DEF CountsHeld, Held
    <2>5. SwitchesHeld'
        BY <1>0, <1>5, <1>8, <2>1, WordsDiffer DEF SwitchesHeld, Held
    <2> QED BY <1>5, <1>6, <2>2, <2>3, <2>4, <2>5 DEF Held
<1> QED BY <1>7, <1>8 DEF TakeCount, n

LEMMA SwitchKeeps == IInv /\ Switch => IInv'
<1> SUFFICES ASSUME IInv, Switch PROVE IInv'
    OBVIOUS
<1> USE DEF IInv
<1>0. /\ outcome = "parsing" /\ outcome' = "parsing" /\ argv' = argv /\ cores' = cores
      /\ haveFlake' = haveFlake /\ haveSystem' = haveSystem
      /\ i <= Len(argv) /\ i' = i + 1
    BY DEF Switch, Parsing
<1>1. argv[i] \in Switches /\ argv[i] \notin WithValue /\ ~IsCount(i)
    BY WordsDiffer DEF Switch, IsCount
<1>2. WellFormed(i)
    BY <1>1 DEF WellFormed
<1>3. /\ AtAFlag'
      /\ \A flag : GivenBefore(flag)' <=> GivenBefore(flag) \/ argv[i] = flag
      /\ \A flag, k : IsLast(flag, k)' <=> IF argv[i] = flag THEN k = i ELSE IsLast(flag, k)
    BY <1>0, <1>1, <1>2, OneMoreFlag
<1>4. OutcomeInv'
    BY <1>0 DEF OutcomeInv
<1>5. /\ args' \in Arguments /\ args'.flakeRef = args.flakeRef /\ args'.system = args.system
      /\ args'.workers = args.workers /\ args'.maxMemoryMiB = args.maxMemoryMiB
      /\ args'.dependencies <=> args.dependencies /\ argv[i] # <<"--no-dependencies">>
      /\ args'.importFromDerivation <=>
             args.importFromDerivation /\ argv[i] # <<"--no-import-from-derivation">>
      /\ args'.impure <=> args.impure \/ argv[i] = <<"--impure">>
      /\ args'.shallow <=> args.shallow /\ argv[i] # <<"--no-shallow">>
    <2>1. CASE argv[i] = <<"--no-dependencies">>
        <3>1. args' = [args EXCEPT !.dependencies = FALSE]
            BY <2>1, WordsDiffer DEF Switch
        <3>2. /\ argv[i] # <<"--no-import-from-derivation">>
              /\ argv[i] # <<"--impure">>
              /\ argv[i] # <<"--no-shallow">>
            BY <2>1, WordsDiffer
        <3> QED BY <2>1, <3>1, <3>2 DEF TypeInv, Arguments
    <2>2. CASE argv[i] = <<"--no-import-from-derivation">>
        <3>1. args' = [args EXCEPT !.importFromDerivation = FALSE]
            BY <2>2, WordsDiffer DEF Switch
        <3>2. /\ argv[i] # <<"--no-dependencies">>
              /\ argv[i] # <<"--impure">>
              /\ argv[i] # <<"--no-shallow">>
            BY <2>2, WordsDiffer
        <3> QED BY <2>2, <3>1, <3>2 DEF TypeInv, Arguments
    <2>3. CASE argv[i] = <<"--impure">>
        <3>1. args' = [args EXCEPT !.impure = TRUE]
            BY <2>3, WordsDiffer DEF Switch
        <3>2. /\ argv[i] # <<"--no-dependencies">>
              /\ argv[i] # <<"--no-import-from-derivation">>
              /\ argv[i] # <<"--no-shallow">>
            BY <2>3, WordsDiffer
        <3> QED BY <2>3, <3>1, <3>2 DEF TypeInv, Arguments
    <2>4. CASE argv[i] = <<"--no-shallow">>
        <3>1. args' = [args EXCEPT !.shallow = FALSE]
            BY <2>4, WordsDiffer DEF Switch
        <3>2. /\ argv[i] # <<"--no-dependencies">>
              /\ argv[i] # <<"--no-import-from-derivation">>
              /\ argv[i] # <<"--impure">>
            BY <2>4, WordsDiffer
        <3> QED BY <2>4, <3>1, <3>2 DEF TypeInv, Arguments
    <2> QED BY <1>1, <2>1, <2>2, <2>3, <2>4 DEF Switches
<1>6. TypeInv'
    BY <1>0, <1>5 DEF TypeInv
<1>7. \A flag \in WithValue : argv[i] # flag
    BY <1>1
<1>8. TextsHeld'
    BY <1>0, <1>3, <1>5, <1>7, WordsDiffer DEF TextsHeld, Held
<1>9. CountsHeld'
    BY <1>0, <1>3, <1>5, <1>7, WordsDiffer DEF CountsHeld, Held
<1>10. SwitchesHeld'
    BY <1>3, <1>5 DEF SwitchesHeld, Held
<1> QED BY <1>3, <1>4, <1>6, <1>8, <1>9, <1>10 DEF Held

LEMMA RejectionKeeps ==
    IInv /\ (RejectCount \/ MissingValue \/ AskForHelp \/ Unknown) => IInv'
<1> SUFFICES ASSUME IInv, RejectCount \/ MissingValue \/ AskForHelp \/ Unknown PROVE IInv'
    OBVIOUS
<1>0. /\ i <= Len(argv) /\ UNCHANGED <<argv, i, args, haveFlake, haveSystem, cores>>
    BY DEF RejectCount, MissingValue, AskForHelp, Unknown, Reject, Parsing
<1>1. TypeInv' /\ AtAFlag' /\ Held' /\ \A k : WellFormed(k)' <=> WellFormed(k)
    BY <1>0, NothingTaken DEF IInv
<1>2. Len(argv) \in Nat /\ i \in 1..Len(argv)
    BY <1>0, ArgvIsTyped DEF IInv, TypeInv, AtAFlag
<1>3. \/ outcome' = "help" /\ argv[i] \in Help
      \/ outcome' = "error" /\ ~WellFormed(i) /\ argv[i] \notin Help
    <2>1. CASE RejectCount
        <3>1. argv[i] \in WithValue /\ IsCount(i) /\ i < Len(argv) /\ ~IsPositive(argv[i + 1])
            BY <2>1, WordsDiffer DEF RejectCount, IsCount, HasValue
        <3>2. argv[i + 1] \in Seq(STRING)
            BY <1>2, <3>1, ArgvIsTyped DEF IInv, TypeInv
        <3>3. ~WellFormed(i)
            BY <3>1, <3>2, PositiveIsRead DEF WellFormed
        <3> QED BY <2>1, <3>1, <3>3, WordsDiffer DEF RejectCount, Reject
    <2>2. CASE MissingValue
        BY <2>2, WordsDiffer DEF MissingValue, Reject, HasValue, WellFormed
    <2>3. CASE AskForHelp
        BY <2>3 DEF AskForHelp
    <2>4. CASE Unknown
        BY <2>4 DEF Unknown, Reject, WellFormed
    <2> QED BY <2>1, <2>2, <2>3, <2>4
<1>4. OutcomeInv'
    BY <1>0, <1>1, <1>3 DEF OutcomeInv
<1> QED BY <1>1, <1>4 DEF IInv

LEMMA EndKeeps == IInv /\ (EndOfArguments \/ Start \/ UNCHANGED vars) => IInv'
<1> SUFFICES ASSUME IInv, EndOfArguments \/ Start \/ UNCHANGED vars PROVE IInv'
    OBVIOUS
<1>0. UNCHANGED <<argv, i, args, haveFlake, haveSystem, cores>>
    BY DEF EndOfArguments, Start, vars
<1>1. TypeInv' /\ AtAFlag' /\ Held' /\ \A k : WellFormed(k)' <=> WellFormed(k)
    BY <1>0, NothingTaken DEF IInv
<1>2. StartedWith' = StartedWith
    BY <1>0 DEF StartedWith, MaxWorkerCount, ShallowIfRemoteGit
<1>3. OutcomeInv'
    <2>1. CASE EndOfArguments
        <3>1. i = Len(argv) + 1
            <4>1. Len(argv) \in Nat
                BY ArgvIsTyped DEF IInv, TypeInv
            <4> QED BY <2>1, <4>1 DEF IInv, AtAFlag, EndOfArguments
        <3> QED BY <1>0, <2>1, <3>1 DEF EndOfArguments, OutcomeInv, IInv
    <2>2. CASE Start
        <3>1. run' = StartedWith
            BY <2>2 DEF Start, StartedWith
        <3> QED BY <1>0, <1>2, <2>2, <3>1 DEF Start, OutcomeInv, IInv
    <2>3. CASE UNCHANGED vars
        BY <1>0, <1>1, <1>2, <2>3 DEF vars, OutcomeInv, IInv
    <2> QED BY <2>1, <2>2, <2>3
<1> QED BY <1>1, <1>3 DEF IInv

LEMMA ParsingBegins == Init => IInv
<1> SUFFICES ASSUME Init PROVE IInv
    OBVIOUS
<1>1. argv \in Argvs /\ Len(argv) \in Nat
    BY ArgvIsTyped DEF Init
<1>2. TypeInv
    <2>1. <<>> \in Seq(STRING) /\ 4096 \in Nat
        OBVIOUS
    <2>2. args \in Arguments
        BY <2>1 DEF Init, Arguments
    <2>3. cores \in Nat
        BY CommandLineAssumption DEF Init
    <2> QED BY <2>2, <2>3 DEF Init, TypeInv
<1>3. ~IsValue(1) /\ \A k \in Flags : ~ (k < 1)
    <2>1. ~IsValue(1)
        BY DEF IsValue
    <2> QED BY <1>1, <2>1, ArgvIsTyped DEF Flags
<1>4. AtAFlag
    BY <1>1, <1>3 DEF Init, AtAFlag
<1>5. \A flag : ~GivenBefore(flag) /\ \A k : ~IsLast(flag, k)
    BY <1>3 DEF Init, GivenBefore, IsLast
<1>6. Held
    <2>1. /\ haveFlake = FALSE /\ haveSystem = FALSE
          /\ args.workers = None /\ args.maxMemoryMiB = 4096
          /\ args.dependencies = TRUE /\ args.importFromDerivation = TRUE
          /\ args.impure = FALSE /\ args.shallow = TRUE
        BY DEF Init
    <2> QED BY <1>5, <2>1 DEF Held, TextsHeld, CountsHeld, SwitchesHeld
<1>7. OutcomeInv
    BY DEF Init, OutcomeInv
<1> QED BY <1>2, <1>4, <1>6, <1>7 DEF IInv

LEMMA IInvIsKept == IInv /\ [Next]_vars => IInv'
<1>1. Over => UNCHANGED vars
    BY DEF Over
<1> QED BY <1>1, TakeTextKeeps, TakeCountKeeps, SwitchKeeps, RejectionKeeps, EndKeeps DEF Next

LEMMA FlagsArePlaces ==
    ASSUME argv \in Argvs
    PROVE  /\ Len(argv) \in Nat /\ Flags \in SUBSET (1..Len(argv))
           /\ Offences \in SUBSET Flags
BY ArgvIsTyped DEF Flags, Offences

LEMMA OutcomeIsTheGrammars == IInv => AcceptsTheGrammar
<1> SUFFICES ASSUME IInv, outcome # "parsing" PROVE AcceptsTheGrammar
    BY DEF AcceptsTheGrammar
<1>1. Len(argv) \in Nat /\ Flags \in SUBSET (1..Len(argv)) /\ Offences \in SUBSET Flags
    BY FlagsArePlaces DEF IInv, TypeInv
<1>2. i \in 1..(Len(argv) + 1) /\ \A k \in Offences : k >= i
    BY <1>1 DEF IInv, AtAFlag, Offences
<1>3. CASE i = Len(argv) + 1
    <2>1. Offences = {}
        BY <1>1, <1>2, <1>3
    <2>2. \A flag : Given(flag) <=> GivenBefore(flag)
        BY <1>1, <1>3 DEF Given, GivenBefore
    <2>3. outcome # "help"
        BY <1>1, <1>3 DEF IInv, OutcomeInv
    <2>4. outcome \in {"parsed", "started"} <=> haveFlake /\ haveSystem
        BY <1>1, <1>3, <2>3 DEF IInv, OutcomeInv
    <2> QED BY <2>1, <2>2, <2>3, <2>4 DEF IInv, Held, TextsHeld, AcceptsTheGrammar
<1>4. CASE i <= Len(argv)
    <2>1. outcome \in {"help", "error"} /\ (outcome = "help" <=> argv[i] \in Help)
        BY <1>1, <1>4 DEF IInv, OutcomeInv
    <2>2. ~WellFormed(i)
        <3>1. argv[i] \in Help => ~WellFormed(i)
            BY WordsDiffer DEF WellFormed
        <3> QED BY <1>1, <1>4, <2>1, <3>1 DEF IInv, OutcomeInv
    <2>3. i \in Offences
        BY <1>1, <1>2, <1>4, <2>2, ArgvIsTyped DEF Offences, Flags, IInv, TypeInv, AtAFlag
    <2>4. Min(Offences) = i
        <3>1. Offences \in SUBSET Nat /\ Offences # {}
            BY <1>1, <2>3
        <3>2. Min(Offences) \in Offences /\ Min(Offences) <= i
            BY <2>3, <3>1, LeastOfSome
        <3>3. Min(Offences) \in Nat /\ Min(Offences) >= i
            BY <1>2, <3>1, <3>2
        <3> QED BY <1>1, <1>2, <3>2, <3>3
    <2> QED BY <2>1, <2>3, <2>4 DEF AcceptsTheGrammar
<1> QED BY <1>1, <1>2, <1>3, <1>4

\* With all arguments taken, the last flag of a kind has the value that counts.
LEMMA LastIsLast ==
    ASSUME argv \in Argvs, i = Len(argv) + 1, NEW flag, Given(flag)
    PROVE  \E k : IsLast(flag, k) /\ LastValue(flag) = argv[k + 1]
<1> DEFINE S == {k \in Flags : argv[k] = flag}
           k == Max(S)
<1>1. Len(argv) \in Nat /\ Flags \in SUBSET (1..Len(argv))
    BY FlagsArePlaces
<1>2. S \in SUBSET (1..Len(argv)) /\ S # {}
    BY <1>1 DEF Given
<1>3. Max(S) \in S /\ \A m \in S : Max(S) >= m
    <2> HIDE DEF S
    <2> QED BY <1>1, <1>2, MaxOfSome
<1>4. IsLast(flag, k)
    <2>1. k \in Flags /\ argv[k] = flag /\ k < i
        BY <1>1, <1>2, <1>3
    <2>2. ASSUME NEW m \in Flags, argv[m] = flag PROVE m <= k
        <3>1. m \in S
            BY <2>2
        <3> QED BY <1>3, <3>1
    <2> HIDE DEF k
    <2> QED BY <2>1, <2>2 DEF IsLast
<1>5. LastValue(flag) = argv[k + 1]
    BY DEF LastValue
<1> QED BY <1>4, <1>5

LEMMA StartedIsAskedFor == IInv => StartsWhatWasAskedFor
<1> SUFFICES ASSUME IInv, outcome = "started" PROVE StartsWhatWasAskedFor
    BY DEF StartsWhatWasAskedFor
<1>1. /\ argv \in Argvs /\ i = Len(argv) + 1 /\ haveFlake /\ haveSystem
      /\ args \in Arguments /\ cores \in Nat /\ run = StartedWith
    BY DEF IInv, TypeInv, OutcomeInv
<1>2. \A flag : Given(flag) <=> GivenBefore(flag)
    <2>1. \A k \in Flags : k < i
        BY <1>1, FlagsArePlaces
    <2> QED BY <2>1 DEF Given, GivenBefore
<1>3. \A flag : Given(flag) => \E k : IsLast(flag, k) /\ LastValue(flag) = argv[k + 1]
    BY <1>1, LastIsLast
<1>4. /\ run.maxWorkers = MaxWorkerCount /\ run.maxMemoryMiB = args.maxMemoryMiB
      /\ run.fetched = args.flakeRef /\ run.system = args.system
      /\ run.shallow = ShallowIfRemoteGit(args.flakeRef) /\ run.pureEval = ~args.impure
      /\ run.importFromDerivation = args.importFromDerivation /\ run.wantEdges = args.dependencies
    BY <1>1 DEF StartedWith
<1>5. run.fetched = LastValue(<<"--flake">>) /\ run.system = LastValue(<<"--system">>)
    BY <1>1, <1>2, <1>3, <1>4 DEF IInv, Held, TextsHeld
<1>6. IF Given(<<"--workers">>)
      THEN Reads(LastValue(<<"--workers">>), run.maxWorkers) /\ run.maxWorkers >= 1
      ELSE run.maxWorkers >= 1 /\ (cores > 0 => run.maxWorkers = cores)
    <2>1. CASE Given(<<"--workers">>)
        <3>1. PICK k : IsLast(<<"--workers">>, k) /\ LastValue(<<"--workers">>) = argv[k + 1]
            BY <1>3, <2>1
        <3>2. args.workers \in 1..MaxSize /\ Reads(argv[k + 1], args.workers)
            BY <3>1 DEF IInv, Held, CountsHeld
        <3>3. args.workers # None /\ args.workers >= 1
            BY <3>2, CommandLineAssumption
        <3> QED BY <1>4, <2>1, <3>1, <3>2, <3>3 DEF MaxWorkerCount
    <2>2. CASE ~Given(<<"--workers">>)
        <3>1. args.workers = None
            BY <1>2, <2>2 DEF IInv, Held, CountsHeld
        <3> QED BY <1>1, <1>4, <2>2, <3>1 DEF MaxWorkerCount
    <2> QED BY <2>1, <2>2
<1>7. IF Given(<<"--max-memory-size">>)
      THEN Reads(LastValue(<<"--max-memory-size">>), run.maxMemoryMiB)
      ELSE run.maxMemoryMiB = 4096
    BY <1>2, <1>3, <1>4 DEF IInv, Held, CountsHeld
<1>8. /\ run.shallow <=> ~Given(<<"--no-shallow">>) /\ run.fetched \in (Git \cap WithUrl) \ FileUrl
      /\ run.pureEval <=> ~Given(<<"--impure">>)
      /\ run.importFromDerivation <=> ~Given(<<"--no-import-from-derivation">>)
      /\ run.wantEdges <=> ~Given(<<"--no-dependencies">>)
    BY <1>2, <1>4 DEF IInv, Held, SwitchesHeld, ShallowIfRemoteGit, Reference
<1> QED BY <1>5, <1>6, <1>7, <1>8 DEF StartsWhatWasAskedFor

-----------------------------------------------------------------------------
(* The system in the expression, and how Nix reads it *)

Is(text, k, c) == k <= Len(text) /\ text[k] = c

\* What NixReads takes from the k-th character on, if f says what it takes later.
Taken(text, f, k) ==
    CASE k > Len(text) -> Unclosed
      [] Is(text, k, Quote) ->
             [t |-> "string", value |-> <<>>, rest |-> SubSeq(text, k + 1, Len(text))]
      [] Is(text, k, Backslash) ->
             IF k = Len(text) THEN Unclosed ELSE Before(<<Meant(text[k + 1])>>, f[k + 2])
      [] Is(text, k, "$") /\ Is(text, k + 1, "{") -> Interpolates
      [] Is(text, k, "$") /\ Is(text, k + 1, "$") -> Before(<<"$", "$">>, f[k + 2])
      [] Is(text, k, CarriageReturn) ->
             Before(<<Newline>>, f[IF Is(text, k + 1, Newline) THEN k + 2 ELSE k + 1])
      [] OTHER -> Before(<<text[k]>>, f[k + 1])
IsReading(f, text) == f = [k \in 1..(Len(text) + 2) |-> Taken(text, f, k)]
Reading(text) == CHOOSE f : IsReading(f, text)

LEMMA NixReadsIsReading ==
    ASSUME NEW text
    PROVE  NixReads(text) = IF Is(text, 1, Quote) THEN Reading(text)[2] ELSE Unclosed
BY DEF NixReads, Reading, IsReading, Taken, Is

LEMMA TakenFromLater ==
    ASSUME NEW S, NEW text \in Seq(S), NEW k \in Nat, NEW f, NEW g,
           k + 1 <= Len(text) + 2 => f[k + 1] = g[k + 1],
           k + 2 <= Len(text) + 2 => f[k + 2] = g[k + 2]
    PROVE  Taken(text, f, k) = Taken(text, g, k)
<1>1. Len(text) \in Nat
    BY LenProperties
<1>2. CASE k <= Len(text)
    <2>1. f[k + 1] = g[k + 1] /\ f[k + 2] = g[k + 2]
        BY <1>1, <1>2
    <2> QED BY <2>1 DEF Taken
<1>3. CASE k > Len(text)
    <2>1. \A c : ~Is(text, k, c)
        BY <1>1, <1>3 DEF Is
    <2>2. Taken(text, f, k) = Unclosed
        BY <1>3, <2>1 DEF Taken
    <2>3. Taken(text, g, k) = Unclosed
        BY <1>3, <2>1 DEF Taken
    <2> QED BY <2>2, <2>3
<1> QED BY <1>1, <1>2, <1>3

LEMMA ReadingExists ==
    ASSUME NEW S, NEW text \in Seq(S)
    PROVE  IsReading(Reading(text), text)
<1> DEFINE top == Len(text) + 2
           IsPart(f, n) == \A k \in 1..top : k > top - n => f[k] = Taken(text, f, k)
           Good == {n \in Nat : \E f : IsPart(f, n)}
<1>0. Len(text) \in Nat /\ top \in Nat
    BY LenProperties
<1>1. 0 \in Good
    <2>1. \A f : IsPart(f, 0)
        BY <1>0
    <2> QED BY <2>1
<1>2. ASSUME NEW n \in Good PROVE n + 1 \in Good
    <2>0. n \in Nat /\ n + 1 \in Nat
        OBVIOUS
    <2>1. PICK f : IsPart(f, n)
        OBVIOUS
    <2> DEFINE g == [k \in 1..top |-> IF k > top - n THEN f[k] ELSE Taken(text, f, k)]
    <2>2. \A k \in 1..top : g[k] = IF k > top - n THEN f[k] ELSE Taken(text, f, k)
        OBVIOUS
    <2> HIDE DEF g
    <2>3. ASSUME NEW k \in 1..top, k > top - (n + 1) PROVE g[k] = Taken(text, g, k)
        <3>1. /\ k \in Nat
              /\ k + 1 <= top => k + 1 \in 1..top /\ k + 1 > top - n
              /\ k + 2 <= top => k + 2 \in 1..top /\ k + 2 > top - n
            BY <1>0, <2>0, <2>3
        <3>2. /\ k + 1 <= top => f[k + 1] = g[k + 1]
              /\ k + 2 <= top => f[k + 2] = g[k + 2]
            BY <2>2, <3>1
        <3>3. Taken(text, f, k) = Taken(text, g, k)
            BY <3>1, <3>2, TakenFromLater
        <3>4. k > top - n => f[k] = Taken(text, f, k)
            BY <2>1
        <3> QED BY <2>2, <3>3, <3>4
    <2>4. IsPart(g, n + 1)
        BY <2>3
    <2> HIDE DEF IsPart
    <2> QED BY <2>0, <2>4
<1>3. Good = Nat
    <2>1. Good \in SUBSET Nat
        OBVIOUS
    <2> HIDE DEF Good
    <2> QED BY <1>1, <1>2, <2>1, Induction
<1>4. PICK f : IsPart(f, top)
    <2>1. top \in Good
        BY <1>0, <1>3
    <2> HIDE DEF IsPart
    <2> QED BY <2>1
<1>5. \A k \in 1..top : f[k] = Taken(text, f, k)
    BY <1>0, <1>4
<1> DEFINE g == [k \in 1..top |-> f[k]]
<1>6. \A k \in 1..top : g[k] = f[k]
    OBVIOUS
<1> HIDE DEF g
<1>7. \A k \in 1..top : Taken(text, g, k) = f[k]
    <2> TAKE k \in 1..top
    <2>1. k \in Nat /\ (k + 1 <= top => k + 1 \in 1..top) /\ (k + 2 <= top => k + 2 \in 1..top)
        BY <1>0
    <2>2. /\ k + 1 <= top => g[k + 1] = f[k + 1]
          /\ k + 2 <= top => g[k + 2] = f[k + 2]
        BY <1>6, <2>1
    <2>3. Taken(text, g, k) = Taken(text, f, k)
        BY <2>1, <2>2, TakenFromLater
    <2> QED BY <1>5, <2>3
<1>8. g = [k \in 1..top |-> Taken(text, g, k)]
    <2>1. [k \in 1..top |-> Taken(text, g, k)] = [k \in 1..top |-> f[k]]
        BY <1>7
    <2> QED BY <2>1 DEF g
<1>9. IsReading(g, text)
    BY <1>8 DEF IsReading
<1>10. \E h : IsReading(h, text)
    BY <1>9
<1> QED BY <1>10 DEF Reading

\* Each character is taken behind those before it.
LEMMA LiteralIsBuilt ==
    ASSUME NEW S, NEW value \in Seq(S), Quote \in S, Backslash \in S
    PROVE  \E p : /\ p[0] = <<Quote>> /\ NixStringLiteral(value) = p[Len(value)] \o <<Quote>>
                  /\ \A m \in 0..Len(value) : p[m] \in Seq(S)
                  /\ \A m \in 0..(Len(value) - 1) : p[m + 1] = p[m] \o Escape(value[m + 1])
<1> DEFINE n == Len(value)
           IsIter(iter) ==
               iter = [s \in SUBSET (1..n) |->
                          IF s = {} THEN <<Quote>> ELSE iter[s \ {Max(s)}] \o Escape(value[Max(s)])]
           Texts == Seq(S)
           step == [x \in Texts \X (1..n) |-> x[1] \o Escape(value[x[2]])]
<1>0. n \in Nat /\ DOMAIN value = 1..n /\ \A j \in 1..n : value[j] \in S
    BY LenProperties, ElementOfSeq
<1>1. NixStringLiteral(value) = (CHOOSE iter : IsIter(iter))[1..n] \o <<Quote>>
    <2> HIDE DEF n
    <2> QED BY <1>0 DEF NixStringLiteral, FoldLeft, MapThenFoldSet
<1>2. \E iter \in [SUBSET (1..n) -> Texts] : IsIter(iter)
    <2>1. \A out \in Texts, j \in 1..n : out \o Escape(value[j]) \in Texts
        <3> TAKE out \in Texts, j \in 1..n
        <3>1. Escape(value[j]) \in Seq(S)
            <4>1. \A c \in S : <<c>> \in Seq(S) /\ <<Backslash, c>> \in Seq(S)
                OBVIOUS
            <4> QED BY <1>0, <4>1 DEF Escape
        <3> QED BY <3>1, ConcatProperties
    <2>2. /\ step \in [Texts \X (1..n) -> Texts]
          /\ \A out \in Texts, j \in 1..n : step[<<out, j>>] = out \o Escape(value[j])
        BY <2>1
    <2>3. <<Quote>> \in Texts
        OBVIOUS
    <2> HIDE DEF step, n, Texts
    <2> DEFINE base == <<Quote>>
    <2>4. base \in Texts
        BY <2>3
    <2> HIDE DEF base
    <2>5. PICK iter \in [SUBSET (1..n) -> Texts] : IsFold(iter, base, step, n)
        BY <1>0, <2>2, <2>4, FoldExists
    <2>6. \A s \in SUBSET (1..n) :
              iter[s] = IF s = {} THEN base ELSE step[<<iter[s \ {Max(s)}], Max(s)>>]
        BY <2>5 DEF IsFold
    <2>7. ASSUME NEW s \in SUBSET (1..n)
          PROVE  iter[s] = IF s = {} THEN base ELSE iter[s \ {Max(s)}] \o Escape(value[Max(s)])
        <3>1. CASE s = {}
            BY <2>6, <3>1
        <3>2. CASE s # {}
            <4>1. Max(s) \in 1..n
                BY <1>0, <3>2, MaxOfSome
            <4>2. iter[s \ {Max(s)}] \in Texts
                BY <2>5
            <4> QED BY <2>2, <2>6, <3>2, <4>1, <4>2
        <3> QED BY <3>1, <3>2
    <2>8. IsIter(iter)
        BY <2>5, <2>7 DEF base
    <2> QED BY <2>5, <2>8
<1> DEFINE iter == CHOOSE iter : IsIter(iter)
           p == [m \in 0..n |-> iter[1..m]]
<1>3. IsIter(iter)
    <2> HIDE DEF IsIter
    <2> QED BY <1>2
<1>4. \A s \in SUBSET (1..n) :
          iter[s] = IF s = {} THEN <<Quote>> ELSE iter[s \ {Max(s)}] \o Escape(value[Max(s)])
    <2> HIDE DEF iter
    <2> QED BY <1>3
<1> HIDE DEF iter
<1>5. p[0] = <<Quote>>
    <2>1. {} \in SUBSET (1..n) /\ 1..0 = {} /\ 0 \in 0..n
        BY <1>0
    <2> QED BY <1>4, <2>1
<1>6. ASSUME NEW m \in 0..(n - 1) PROVE p[m + 1] = p[m] \o Escape(value[m + 1])
    <2>1. m \in Nat /\ m \in 0..n /\ m + 1 \in 0..n /\ 1..(m + 1) \in SUBSET (1..n)
        BY <1>0
    <2>2. /\ 1..(m + 1) # {} /\ Max(1..(m + 1)) = m + 1
          /\ (1..(m + 1)) \ {m + 1} = 1..m
        BY <2>1, LastOfFirst
    <2>3. iter[1..(m + 1)] = iter[1..m] \o Escape(value[m + 1])
        BY <1>4, <2>1, <2>2
    <2> QED BY <2>1, <2>3
<1>7. NixStringLiteral(value) = p[n] \o <<Quote>>
    <2>1. n \in 0..n
        BY <1>0
    <2> QED BY <1>1, <2>1 DEF iter
<1> HIDE DEF p
<1>8. \A m \in 0..n : p[m] \in Seq(S)
    <2> DEFINE Good == {m \in Nat : m <= n => p[m] \in Seq(S)}
    <2>1. 0 \in Good
        <3>1. <<Quote>> \in Seq(S)
            OBVIOUS
        <3> QED BY <1>5, <3>1
    <2>2. ASSUME NEW m \in Good PROVE m + 1 \in Good
        <3>0. m \in Nat
            OBVIOUS
        <3>1. ASSUME m + 1 <= n PROVE p[m + 1] \in Seq(S)
            <4>1. m \in 0..(n - 1) /\ m <= n /\ m + 1 \in 1..n
                BY <1>0, <3>0, <3>1
            <4>2. p[m] \in Seq(S) /\ p[m + 1] = p[m] \o Escape(value[m + 1])
                BY <1>6, <4>1
            <4>3. Escape(value[m + 1]) \in Seq(S)
                <5>1. \A c \in S : <<c>> \in Seq(S) /\ <<Backslash, c>> \in Seq(S)
                    OBVIOUS
                <5> QED BY <1>0, <4>1, <5>1 DEF Escape
            <4> QED BY <4>2, <4>3, ConcatProperties
        <3> QED BY <3>0, <3>1
    <2>3. Good = Nat
        <3>1. Good \in SUBSET Nat
            OBVIOUS
        <3> HIDE DEF Good
        <3> QED BY <2>1, <2>2, <3>1, Induction
    <2> QED BY <1>0, <2>3
<1> QED BY <1>5, <1>6, <1>7, <1>8

LEMMA CharactersDiffer ==
    /\ Quote # Backslash /\ Quote # "$" /\ Backslash # "$"
    /\ {Quote, Backslash, "$"} \cap {"n", "r", "t", CarriageReturn} = {}
BY DEF Quote, Backslash, CarriageReturn

\* What a text says from its k-th character on, by what it says later on.
LEMMA TakenCharacter ==
    ASSUME NEW S, NEW text \in Seq(S), NEW f, NEW k \in 1..Len(text)
    PROVE  /\ text[k] = Quote =>
                  Taken(text, f, k) = [t |-> "string", value |-> <<>>,
                                       rest |-> SubSeq(text, k + 1, Len(text))]
           /\ text[k] = Backslash /\ k < Len(text) /\ text[k + 1] \notin {"n", "r", "t"} =>
                  Taken(text, f, k) = Before(<<text[k + 1]>>, f[k + 2])
           /\ text[k] \notin {Quote, Backslash, "$", CarriageReturn} =>
                  Taken(text, f, k) = Before(<<text[k]>>, f[k + 1])
<1>0. Len(text) \in Nat /\ ~ (k > Len(text)) /\ \A c : Is(text, k, c) <=> text[k] = c
    BY LenProperties DEF Is
<1>1. ASSUME text[k] = Quote
      PROVE  Taken(text, f, k) = [t |-> "string", value |-> <<>>,
                                  rest |-> SubSeq(text, k + 1, Len(text))]
    <2>1. /\ Is(text, k, Quote) /\ ~Is(text, k, Backslash) /\ ~Is(text, k, "$")
          /\ ~Is(text, k, CarriageReturn)
        BY <1>0, <1>1, CharactersDiffer
    <2> QED BY <1>0, <2>1 DEF Taken
<1>2. ASSUME text[k] = Backslash, k < Len(text), text[k + 1] \notin {"n", "r", "t"}
      PROVE  Taken(text, f, k) = Before(<<text[k + 1]>>, f[k + 2])
    <2>1. /\ Is(text, k, Backslash) /\ ~Is(text, k, Quote) /\ ~Is(text, k, "$")
          /\ ~Is(text, k, CarriageReturn)
        BY <1>0, <1>2, CharactersDiffer
    <2>2. k # Len(text)
        BY <1>0, <1>2
    <2>3. Taken(text, f, k) = Before(<<Meant(text[k + 1])>>, f[k + 2])
        BY <1>0, <2>1, <2>2 DEF Taken
    <2> QED BY <1>2, <2>3 DEF Meant
<1>3. ASSUME text[k] \notin {Quote, Backslash, "$", CarriageReturn}
      PROVE  Taken(text, f, k) = Before(<<text[k]>>, f[k + 1])
    <2>1. /\ ~Is(text, k, Backslash) /\ ~Is(text, k, Quote) /\ ~Is(text, k, "$")
          /\ ~Is(text, k, CarriageReturn)
        BY <1>0, <1>3
    <2> QED BY <1>0, <2>1 DEF Taken
<1> QED BY <1>1, <1>2, <1>3

Read(value, rest) == [t |-> "string", value |-> value, rest |-> rest]

LEMMA BeforeRead ==
    ASSUME NEW taken, NEW value, NEW rest
    PROVE  Before(taken, Read(value, rest)) = Read(taken \o value, rest)
BY DEF Before, Read

\* Nix reads the literal of any text without a carriage return as that text, and
\* leaves what is behind it.
LEMMA LiteralReadsBack ==
    ASSUME NEW S, Quote \in S, Backslash \in S,
           NEW value \in Seq(S), NEW rest \in Seq(S), CarriageReturn \notin Range(value)
    PROVE  NixReads(NixStringLiteral(value) \o rest) = Read(value, rest)
<1> DEFINE n == Len(value)
           text == NixStringLiteral(value) \o rest
           L == Len(text)
           f == Reading(text)
<1>0. /\ n \in Nat /\ Len(rest) \in Nat
      /\ \A j \in 1..n : value[j] \in S /\ value[j] # CarriageReturn
    BY LenProperties, ElementOfSeq DEF Range
<1>1. PICK p : /\ p[0] = <<Quote>> /\ NixStringLiteral(value) = p[n] \o <<Quote>>
               /\ \A m \in 0..n : p[m] \in Seq(S)
               /\ \A m \in 0..(n - 1) : p[m + 1] = p[m] \o Escape(value[m + 1])
    BY LiteralIsBuilt
<1> DEFINE at(m) == Len(p[m]) + 1
           IsStart(m) == Len(p[m]) <= L /\ \A k \in 1..Len(p[m]) : text[k] = p[m][k]
           Holds(m) == IsStart(m) /\ f[at(m)] = Read(SubSeq(value, m + 1, n), rest)
<1>2. p[n] \in Seq(S) /\ Len(p[n]) \in Nat
    BY <1>0, <1>1, LenProperties
<1>3. /\ text \in Seq(S) /\ L \in Nat /\ L = Len(p[n]) + 1 + Len(rest)
      /\ \A k \in 1..Len(p[n]) : text[k] = p[n][k]
      /\ text[at(n)] = Quote
      /\ \A k \in 1..Len(rest) : text[Len(p[n]) + 1 + k] = rest[k]
    <2> DEFINE literal == p[n] \o <<Quote>>
    <2>1. <<Quote>> \in Seq(S) /\ Len(<<Quote>>) = 1 /\ <<Quote>>[1] = Quote
        OBVIOUS
    <2>2. /\ literal \in Seq(S) /\ Len(literal) = Len(p[n]) + 1
          /\ \A k \in 1..(Len(p[n]) + 1) :
                literal[k] = IF k <= Len(p[n]) THEN p[n][k] ELSE <<Quote>>[k - Len(p[n])]
        BY <1>2, <2>1, ConcatProperties
    <2>3. literal[at(n)] = Quote /\ \A k \in 1..Len(p[n]) : literal[k] = p[n][k]
        BY <1>2, <2>1, <2>2
    <2>4. text = literal \o rest
        BY <1>1
    <2> HIDE DEF literal, text
    <2>5. /\ text \in Seq(S) /\ L = Len(literal) + Len(rest)
          /\ \A k \in 1..(Len(literal) + Len(rest)) :
                text[k] = IF k <= Len(literal) THEN literal[k] ELSE rest[k - Len(literal)]
        BY <2>2, <2>4, ConcatProperties
    <2>6. \A k \in 1..Len(literal) : text[k] = literal[k]
        BY <1>0, <1>2, <2>2, <2>5
    <2>7. \A k \in 1..Len(rest) : text[Len(literal) + k] = rest[k]
        <3> TAKE k \in 1..Len(rest)
        <3>1. \A a \in Nat : /\ a + k \in 1..(a + Len(rest))
                             /\ ~ (a + k <= a) /\ a + k - a = k
            BY <1>0
        <3>2. Len(literal) \in Nat
            BY <1>2, <2>2
        <3> QED BY <2>5, <3>1, <3>2
    <2>8. L = Len(p[n]) + 1 + Len(rest) /\ L \in Nat
        BY <1>0, <1>2, <2>2, <2>5
    <2>9. \A k \in 1..Len(p[n]) : text[k] = p[n][k]
        <3>1. \A k \in 1..Len(p[n]) : k \in 1..Len(literal)
            BY <1>2, <2>2
        <3> QED BY <2>3, <2>6, <3>1
    <2>10. text[at(n)] = Quote
        <3>1. at(n) \in 1..Len(literal)
            BY <1>2, <2>2
        <3> QED BY <2>3, <2>6, <3>1
    <2>11. \A k \in 1..Len(rest) : text[Len(p[n]) + 1 + k] = rest[k]
        BY <2>2, <2>7
    <2> QED BY <2>5, <2>8, <2>9, <2>10, <2>11
<1> HIDE DEF text
<1>4. \A k \in 1..(L + 2) : f[k] = Taken(text, f, k)
    <2>1. IsReading(f, text)
        BY <1>3, ReadingExists
    <2> HIDE DEF f
    <2>2. f = [k \in 1..(L + 2) |-> Taken(text, f, k)]
        BY <2>1 DEF IsReading
    <2> QED BY <2>2
<1> HIDE DEF f, L
<1>5. Holds(n)
    <2>1. at(n) \in 1..L /\ at(n) \in 1..(L + 2)
        BY <1>0, <1>2, <1>3
    <2>2. f[at(n)] = Read(<<>>, SubSeq(text, at(n) + 1, L))
        <3>1. Taken(text, f, at(n)) = Read(<<>>, SubSeq(text, at(n) + 1, L))
            <4> HIDE DEF at
            <4> QED BY <1>3, <2>1, TakenCharacter DEF L, Read
        <3> QED BY <1>4, <2>1, <3>1
    <2>3. SubSeq(value, n + 1, n) = <<>>
        BY <1>0, SubSeqEmpty
    <2>4. SubSeq(text, at(n) + 1, L) = rest
        <3> DEFINE first == at(n) + 1
                   tail == SubSeq(text, first, L)
        <3>1. first \in Nat /\ first >= 1 /\ L - first + 1 = Len(rest) /\ L \in Int
            BY <1>0, <1>2, <1>3
        <3>2. \A k \in first..L : text[k] \in S
            <4>1. \A k \in first..L : k \in 1..Len(text)
                BY <3>1 DEF L
            <4> QED BY <1>3, <4>1, ElementOfSeq
        <3>3. \A k \in 1..Len(rest) : text[first + k - 1] = rest[k]
            <4>1. \A k \in 1..Len(rest) : first + k - 1 = Len(p[n]) + 1 + k
                BY <1>0, <1>2
            <4> QED BY <1>3, <4>1
        <3> HIDE DEF first
        <3>4. /\ tail \in Seq(S) /\ Len(tail) = (IF first <= L THEN L - first + 1 ELSE 0)
              /\ \A k \in 1..(L - first + 1) : tail[k] = text[first + k - 1]
            BY <3>1, <3>2, SubSeqProperties
        <3>5. Len(tail) = Len(rest)
            BY <1>0, <3>1, <3>4
        <3> HIDE DEF tail
        <3>6. \A k \in 1..Len(tail) : tail[k] = rest[k]
            BY <3>1, <3>3, <3>4, <3>5
        <3>7. tail = rest
            BY <3>4, <3>5, <3>6, SeqEqual
        <3> QED BY <3>7 DEF tail, first
    <2>5. IsStart(n)
        BY <1>0, <1>2, <1>3
    <2> QED BY <2>2, <2>3, <2>4, <2>5
<1>6. ASSUME NEW m \in 0..(n - 1), Holds(m + 1) PROVE Holds(m)
    <2> DEFINE c == value[m + 1]
               q == p[m]
               r == p[m + 1]
               later == SubSeq(value, m + 2, n)
    <2>0. m \in 0..n /\ m + 1 \in 0..n /\ m + 1 \in 1..n /\ n \in (m + 1)..n
        BY <1>0
    <2>1. q \in Seq(S) /\ Len(q) \in Nat /\ r = q \o Escape(c) /\ c \in S /\ c # CarriageReturn
        BY <1>0, <1>1, <2>0, LenProperties
    <2>2. SubSeq(value, m + 1, n) = <<c>> \o later
        <3> DEFINE first == m + 1
        <3>1. first \in 1..Len(value) /\ n \in first..Len(value) /\ first + 1 = m + 2
            BY <2>0
        <3> HIDE DEF first
        <3>2. SubSeq(value, first, n) = <<value[first]>> \o SubSeq(value, first + 1, n)
            BY <3>1, SubSeqRecursiveFirst
        <3> QED BY <3>1, <3>2 DEF first
    <2>3. Len(r) <= L /\ \A k \in 1..Len(r) : text[k] = r[k]
        BY <1>6
    <2>4. f[Len(r) + 1] = Read(later, rest)
        <3>1. (m + 1) + 1 = m + 2
            BY <2>0
        <3> QED BY <1>6, <3>1
    <2> HIDE DEF Holds, IsStart
    <2> DEFINE Right == Len(q) <= L /\ (\A k \in 1..Len(q) : text[k] = q[k])
                            /\ f[Len(q) + 1] = Read(<<c>> \o later, rest)
    <2>5. Right => Holds(m)
        BY <2>2 DEF Holds, IsStart
    <2> HIDE DEF q, r, c, later
    <2>6. CASE c \in {Backslash, Quote, "$"}
        <3> DEFINE taken == <<Backslash, c>>
        <3>1. taken \in Seq(S) /\ Len(taken) = 2 /\ taken[1] = Backslash /\ taken[2] = c
            BY <2>1
        <3>2. r = q \o taken
            BY <2>1, <2>6 DEF Escape
        <3> HIDE DEF taken
        <3>3. /\ Len(r) = Len(q) + 2
              /\ \A k \in 1..(Len(q) + 2) : r[k] = IF k <= Len(q) THEN q[k] ELSE taken[k - Len(q)]
            <4>1. /\ Len(q \o taken) = Len(q) + Len(taken)
                  /\ \A k \in 1..(Len(q) + Len(taken)) :
                        (q \o taken)[k] = IF k <= Len(q) THEN q[k] ELSE taken[k - Len(q)]
                BY <2>1, <3>1, ConcatProperties
            <4> QED BY <3>1, <3>2, <4>1
        <3> DEFINE k == Len(q) + 1
        <3>4. /\ k \in 1..L /\ k \in 1..(L + 2) /\ k < L /\ Len(q) <= L
              /\ k \in 1..Len(r) /\ k + 1 \in 1..Len(r) /\ k + 2 = Len(r) + 1
            BY <1>3, <2>1, <2>3, <3>3
        <3>5. text[k] = Backslash /\ text[k + 1] = c
            <4>1. r[k] = taken[1] /\ r[k + 1] = taken[2]
                <5>1. /\ k \in 1..(Len(q) + 2) /\ ~ (k <= Len(q)) /\ k - Len(q) = 1
                      /\ k + 1 \in 1..(Len(q) + 2) /\ ~ (k + 1 <= Len(q)) /\ k + 1 - Len(q) = 2
                    BY <2>1
                <5> QED BY <3>3, <5>1
            <4> QED BY <2>3, <3>1, <3>4, <4>1
        <3>6. \A j \in 1..Len(q) : text[j] = q[j]
            <4> TAKE j \in 1..Len(q)
            <4>1. j \in 1..(Len(q) + 2) /\ j <= Len(q)
                BY <2>1
            <4> QED BY <2>3, <3>3, <4>1
        <3>7. f[k] = Read(<<c>> \o later, rest)
            <4> HIDE DEF k
            <4>1. c \notin {"n", "r", "t"}
                BY <2>6, CharactersDiffer
            <4>2. Taken(text, f, k) = Before(<<c>>, f[k + 2])
                <5>1. k \in 1..Len(text) /\ k < Len(text) /\ text \in Seq(S)
                    BY <1>3, <3>4 DEF L
                <5>2. Taken(text, f, k) = Before(<<text[k + 1]>>, f[k + 2])
                    BY <3>5, <4>1, <5>1, TakenCharacter
                <5> QED BY <3>5, <5>2
            <4>3. Before(<<c>>, Read(later, rest)) = Read(<<c>> \o later, rest)
                BY BeforeRead
            <4> QED BY <1>4, <2>4, <3>4, <4>2, <4>3
        <3> QED BY <2>5, <3>4, <3>6, <3>7
    <2>7. CASE c \notin {Backslash, Quote, "$"}
        <3> DEFINE taken == <<c>>
        <3>1. taken \in Seq(S) /\ Len(taken) = 1 /\ taken[1] = c
            BY <2>1
        <3>2. r = q \o taken
            BY <2>1, <2>7 DEF Escape
        <3> HIDE DEF taken
        <3>3. /\ Len(r) = Len(q) + 1
              /\ \A k \in 1..(Len(q) + 1) : r[k] = IF k <= Len(q) THEN q[k] ELSE taken[k - Len(q)]
            <4>1. /\ Len(q \o taken) = Len(q) + Len(taken)
                  /\ \A k \in 1..(Len(q) + Len(taken)) :
                        (q \o taken)[k] = IF k <= Len(q) THEN q[k] ELSE taken[k - Len(q)]
                BY <2>1, <3>1, ConcatProperties
            <4> QED BY <3>1, <3>2, <4>1
        <3> DEFINE k == Len(q) + 1
        <3>4. /\ k \in 1..L /\ k \in 1..(L + 2) /\ Len(q) <= L
              /\ k \in 1..Len(r) /\ k + 1 = Len(r) + 1
            BY <1>3, <2>1, <2>3, <3>3
        <3>5. text[k] = c
            <4>1. k \in 1..(Len(q) + 1) /\ ~ (k <= Len(q)) /\ k - Len(q) = 1
                BY <2>1
            <4> QED BY <2>3, <3>1, <3>3, <3>4, <4>1
        <3>6. \A j \in 1..Len(q) : text[j] = q[j]
            <4> TAKE j \in 1..Len(q)
            <4>1. j \in 1..(Len(q) + 1) /\ j <= Len(q)
                BY <2>1
            <4> QED BY <2>3, <3>3, <4>1
        <3>7. f[k] = Read(<<c>> \o later, rest)
            <4> HIDE DEF k
            <4>1. Taken(text, f, k) = Before(<<c>>, f[k + 1])
                <5>1. k \in 1..Len(text) /\ text \in Seq(S)
                    BY <1>3, <3>4 DEF L
                <5>2. Taken(text, f, k) = Before(<<text[k]>>, f[k + 1])
                    BY <2>1, <2>7, <3>5, <5>1, TakenCharacter
                <5> QED BY <3>5, <5>2
            <4>2. Before(<<c>>, Read(later, rest)) = Read(<<c>> \o later, rest)
                BY BeforeRead
            <4> QED BY <1>4, <2>4, <3>4, <4>1, <4>2
        <3> QED BY <2>5, <3>4, <3>6, <3>7
    <2> QED BY <2>6, <2>7
<1> HIDE DEF Holds
<1>7. Holds(0)
    <2> DEFINE Good == {d \in Nat : d <= n => Holds(n - d)}
    <2>1. 0 \in Good
        BY <1>0, <1>5
    <2>2. ASSUME NEW d \in Good PROVE d + 1 \in Good
        <3>1. d \in Nat /\ d + 1 \in Nat
            OBVIOUS
        <3>2. ASSUME d + 1 <= n PROVE Holds(n - (d + 1))
            <4> DEFINE m == n - (d + 1)
            <4>1. m \in 0..(n - 1) /\ m + 1 = n - d /\ d <= n
                BY <1>0, <3>1, <3>2
            <4>2. Holds(m + 1)
                BY <4>1
            <4> HIDE DEF m
            <4>3. Holds(m)
                BY <1>6, <4>1, <4>2
            <4> QED BY <4>3 DEF m
        <3> QED BY <3>1, <3>2
    <2>3. Good = Nat
        <3>1. Good \in SUBSET Nat
            OBVIOUS
        <3> HIDE DEF Good
        <3> QED BY <2>1, <2>2, <3>1, Induction
    <2>4. n \in Good /\ n - n = 0 /\ n <= n
        BY <1>0, <2>3
    <2> QED BY <2>4
<1>8. /\ p[0] = <<Quote>> /\ Len(p[0]) = 1 /\ p[0][1] = Quote
    BY <1>1
<1>9. 1 <= L /\ text[1] = Quote
    BY <1>7, <1>8 DEF Holds
<1>10. f[2] = Read(value, rest)
    <2>1. SubSeq(value, 0 + 1, n) = value
        BY SubSeqFull
    <2>2. at(0) = 2
        BY <1>8
    <2> QED BY <1>7, <2>1, <2>2 DEF Holds
<1>11. Is(text, 1, Quote)
    BY <1>9 DEF Is, L
<1>12. NixReads(text) = Read(value, rest)
    BY <1>10, <1>11, NixReadsIsReading DEF f
<1> QED BY <1>12 DEF text

LEMMA MoreCharacters ==
    ASSUME NEW A, NEW B, A \subseteq B, NEW text \in Seq(A)
    PROVE  text \in Seq(B)
<1>1. Len(text) \in Nat /\ text \in [1..Len(text) -> A]
    BY LenProperties
<1>2. text \in [1..Len(text) -> B]
    BY <1>1
<1> QED BY <1>1, <1>2

LEMMA OneCharacter == ASSUME NEW S, NEW c \in S PROVE <<c>> \in Seq(S)
OBVIOUS

LEMMA StartedReadsBack == IInv => ReadsBack
<1> SUFFICES ASSUME IInv, outcome = "started", CarriageReturn \notin Range(run.system)
             PROVE  ReadsBack
    BY DEF ReadsBack
<1> DEFINE S == STRING \cup {Quote, Backslash, ";"}
<1>1. run = StartedWith /\ args.system \in Seq(STRING)
    BY DEF IInv, OutcomeInv, TypeInv, Arguments
<1>2. run.selected = NixStringLiteral(args.system) \o EndOfSelection /\ run.system = args.system
    BY <1>1 DEF StartedWith
<1>3. LastValue(<<"--system">>) = args.system
    BY <1>2, StartedIsAskedFor DEF StartsWhatWasAskedFor
<1>4. STRING \subseteq S /\ Quote \in S /\ Backslash \in S /\ ";" \in S
    OBVIOUS
<1> HIDE DEF S
<1>5. args.system \in Seq(S)
    BY <1>1, <1>4, MoreCharacters
<1>6. EndOfSelection \in Seq(S)
    BY <1>4, OneCharacter DEF EndOfSelection
<1>7. NixReads(NixStringLiteral(args.system) \o EndOfSelection) = Read(args.system, EndOfSelection)
    BY <1>2, <1>4, <1>5, <1>6, LiteralReadsBack
<1> QED BY <1>2, <1>3, <1>7 DEF ReadsBack, Read

-----------------------------------------------------------------------------
(* The theorems *)

LEMMA IInvHolds == Spec => []IInv
<1> QED BY ParsingBegins, IInvIsKept, PTL DEF Spec

\* parseArgs, which takes one argument after the other, accepts exactly the
\* command lines that are well-formed as a whole, and answers with help exactly
\* when that is asked for before anything is wrong (src/args.cc, src/main.cc).
THEOREM TheGrammarIsAccepted == Spec => []AcceptsTheGrammar
<1> QED BY IInvHolds, OutcomeIsTheGrammars, PTL

\* A run is started with what was asked for last, wherever it was said, and its
\* pool may have at least one worker on any machine (parseArgs, maxWorkerCount,
\* initNixRuntime and shallowIfRemoteGit).
THEOREM WhatWasAskedForIsStarted == Spec => []StartsWhatWasAskedFor
<1> QED BY IInvHolds, StartedIsAskedFor, PTL

\* Whatever the system is called, as long as no carriage return is in it, Nix
\* reads the expression that selectExpr writes as one string, that system, and
\* leaves what is behind it (nixStringLiteral).
THEOREM TheSystemIsReadBack == Spec => []ReadsBack
<1> QED BY IInvHolds, StartedReadsBack, PTL
=============================================================================
