---------------------------- MODULE CodecProofs -----------------------------
(***************************************************************************)
(* Proofs about Codec, for any set of inputs of any length, any words and  *)
(* any cut of the bytes into reads: where decode ends its commands, and    *)
(* that the byte-by-byte automaton of Codec ends them there too.           *)
(***************************************************************************)
EXTENDS Codec, SequenceTheorems, WellFoundedInduction, TLAPS

\* A terminator begins at position i of s.
TerminatorAt(s, i) ==
  /\ i + 3 <= Len(s)
  /\ s[i] = "CR" /\ s[i + 1] = "LF" /\ s[i + 2] = "CR" /\ s[i + 3] = "LF"

\* The first terminator in s after position a ends at position b.
NextTerminator(s, a, b) ==
  /\ a + 4 <= b
  /\ TerminatorAt(s, b - 3)
  /\ \A i \in (a + 1) .. (b - 4) : ~ TerminatorAt(s, i)

(***************************************************************************)
(* The positions that decode finds (ftl_codec.rs:39) are those where a     *)
(* terminator begins.                                                      *)
(***************************************************************************)
LEMMA TerminatorPositions ==
  ASSUME NEW s \in Seq(Symbols)
  PROVE  Positions(Terminator, s) = {i \in 1 .. Len(s) : TerminatorAt(s, i)}
<1>1. Len(Terminator) = 4
  BY DEF Terminator
<1>2. ASSUME NEW i \in Nat, i \in 1 .. (Len(s) - 3)
      PROVE  (SubSeq(s, i, i + 3) = Terminator) <=> TerminatorAt(s, i)
  <2>1. \A j \in i .. i + 3 : s[j] \in Symbols
    BY <1>2
  <2>2. /\ SubSeq(s, i, i + 3) \in Seq(Symbols)
        /\ Len(SubSeq(s, i, i + 3)) = 4
        /\ \A j \in 1 .. 4 : SubSeq(s, i, i + 3)[j] = s[i + j - 1]
    BY <2>1, <1>2, SubSeqProperties, i + 3 \in Int, i + 3 - i + 1 = 4, i <= i + 3
  <2>3. /\ SubSeq(s, i, i + 3)[1] = s[i]
        /\ SubSeq(s, i, i + 3)[2] = s[i + 1]
        /\ SubSeq(s, i, i + 3)[3] = s[i + 2]
        /\ SubSeq(s, i, i + 3)[4] = s[i + 3]
    BY <2>2
  <2>4. /\ Terminator \in Seq({"CR", "LF"})
        /\ Terminator[1] = "CR" /\ Terminator[2] = "LF"
        /\ Terminator[3] = "CR" /\ Terminator[4] = "LF"
    BY DEF Terminator
  <2>5. SubSeq(s, i, i + 3) = Terminator
          <=> \A j \in 1 .. 4 : SubSeq(s, i, i + 3)[j] = Terminator[j]
    BY <2>2, <2>4, <1>1, SeqEqual
  <2> QED
    BY <2>3, <2>4, <2>5, <1>2 DEF TerminatorAt
<1>3. Positions(Terminator, s)
        = {i \in 1 .. (Len(s) - 3) : SubSeq(s, i, i + 3) = Terminator}
  BY <1>1 DEF Positions
<1>4. Len(s) \in Nat
  OBVIOUS
<1>5. ASSUME NEW i \in Nat
      PROVE  i \in Positions(Terminator, s) <=> i \in 1 .. Len(s) /\ TerminatorAt(s, i)
  BY <1>2, <1>3, <1>4 DEF TerminatorAt
<1>6. Positions(Terminator, s) \subseteq Nat
  BY <1>3
<1> QED
  BY <1>5, <1>6

(* The n elements of s that follow its first a. *)
LEMMA Window ==
  ASSUME NEW S, NEW s \in Seq(S), NEW a \in Nat, NEW n \in Nat, a + n <= Len(s)
  PROVE  /\ SubSeq(s, a + 1, a + n) \in Seq(S)
         /\ Len(SubSeq(s, a + 1, a + n)) = n
         /\ \A i \in 1 .. n : SubSeq(s, a + 1, a + n)[i] = s[a + i]
<1>1. a + 1 \in Int /\ a + n \in Int /\ \A i \in a + 1 .. a + n : s[i] \in S
  OBVIOUS
<1>2. /\ SubSeq(s, a + 1, a + n) \in Seq(S)
      /\ Len(SubSeq(s, a + 1, a + n)) = IF a + 1 <= a + n THEN a + n - (a + 1) + 1 ELSE 0
      /\ \A i \in 1 .. a + n - (a + 1) + 1 : SubSeq(s, a + 1, a + n)[i] = s[a + 1 + i - 1]
  BY <1>1, SubSeqProperties
<1>3. /\ a + n - (a + 1) + 1 = n /\ (a + 1 <= a + n <=> 1 <= n)
      /\ \A i \in 1 .. n : a + 1 + i - 1 = a + i
  OBVIOUS
<1> QED
  BY <1>2, <1>3

(***************************************************************************)
(* Induction over the bytes is done with sets: every non-empty set of      *)
(* numbers has a least one.                                                *)
(***************************************************************************)
LEMMA NatIsWellOrdered ==
  IsWellFoundedOn({p \in Nat \X Nat : p[1] < p[2]}, Nat)
BY NatLessThanWellFounded, Zenon DEF OpToRel

(* Min finds the first position. *)
LEMMA FirstPosition ==
  ASSUME NEW S \in SUBSET Nat, S # {}
  PROVE  Min(S) \in S /\ \A i \in S : Min(S) <= i
<1>1. \E i \in S : \A j \in S : <<j, i>> \notin {p \in Nat \X Nat : p[1] < p[2]}
  BY NatIsWellOrdered, WFMin
<1>2. ASSUME NEW i \in Nat, NEW j \in Nat, <<j, i>> \notin {p \in Nat \X Nat : p[1] < p[2]}
      PROVE  i <= j
  <2>1. CASE <<j, i>>[1] < <<j, i>>[2]
    <3>1. <<j, i>> \in {p \in Nat \X Nat : p[1] < p[2]}
      BY <2>1
    <3> QED
      BY <3>1, <1>2
  <2>2. CASE ~ (<<j, i>>[1] < <<j, i>>[2])
    BY <2>2
  <2> QED
    BY <2>1, <2>2
<1>3. \E i \in S : \A j \in S : i <= j
  BY <1>1, <1>2
<1> QED
  BY <1>3 DEF Min
-----------------------------------------------------------------------------
(***************************************************************************)
(* What holds at a, and at n + 1 whenever it holds at n, holds from a to   *)
(* b.                                                                      *)
(***************************************************************************)
LEMMA Stepwise ==
  ASSUME NEW T, NEW a \in Nat, NEW b \in Nat, a \in T,
         \A n \in Nat : a <= n /\ n < b /\ n \in T => n + 1 \in T
  PROVE  \A n \in Nat : a <= n /\ n <= b => n \in T
<1> SUFFICES ASSUME NEW x \in Nat, a <= x, x <= b, x \notin T
             PROVE  FALSE
  OBVIOUS
<1> DEFINE S == {n \in Nat : a <= n /\ n <= b /\ n \notin T}
<1>1. S \in SUBSET Nat /\ S # {}
  OBVIOUS
<1>2. PICK m \in S : \A i \in S : m <= i
  BY <1>1, FirstPosition
<1>3. m # a /\ m \in Nat /\ a <= m /\ m <= b /\ m \notin T
  BY <1>2
<1>4. PICK k \in Nat : m = k + 1
  <2>1. m - 1 \in Nat /\ m = (m - 1) + 1
    BY <1>3
  <2> QED
    BY <2>1
<1>5. a <= k /\ k < b /\ ~ (m <= k)
  BY <1>3, <1>4
<1>6. k \in T
  BY <1>2, <1>5
<1> QED
  BY <1>3, <1>4, <1>5, <1>6

(* The reference automaton of Codec exists, and runs byte by byte. *)
LEMMA ScannedSteps ==
  ASSUME NEW s \in Seq(Symbols), NEW n \in 0 .. Len(s)
  PROVE  Scanned(s)[n] = IF n = 0 THEN [frames |-> <<>>, line |-> <<>>, seen |-> 0]
                         ELSE Scan(Scanned(s)[n - 1], s[n])
<1> DEFINE start == [frames |-> <<>>, line |-> <<>>, seen |-> 0]
           Runs(g, m) == \A k \in 0 .. m : g[k] = IF k = 0 THEN start ELSE Scan(g[k - 1], s[k])
           T == {m \in Nat : \E g : g = [k \in 0 .. m |-> g[k]] /\ Runs(g, m)}
<1> HIDE DEF start
<1>1. Len(s) \in Nat /\ 0 \in Nat /\ 0 <= Len(s)
  OBVIOUS
<1>2. 0 \in T
  <2> DEFINE g == [k \in 0 .. 0 |-> start]
  <2>1. g = [k \in 0 .. 0 |-> g[k]] /\ Runs(g, 0)
    OBVIOUS
  <2> QED
    BY <2>1
<1>3. ASSUME NEW m \in Nat, m \in T
      PROVE  m + 1 \in T
  <2>1. PICK g : g = [k \in 0 .. m |-> g[k]] /\ Runs(g, m)
    BY <1>3
  <2> DEFINE h == [k \in 0 .. m + 1 |-> IF k = m + 1 THEN Scan(g[m], s[m + 1]) ELSE g[k]]
  <2>2. h = [k \in 0 .. m + 1 |-> h[k]]
    OBVIOUS
  <2>3. ASSUME NEW k \in 0 .. m + 1
        PROVE  h[k] = IF k = 0 THEN start ELSE Scan(h[k - 1], s[k])
    <3>1. CASE k = m + 1
      <4>1. h[k] = Scan(g[m], s[m + 1]) /\ h[k - 1] = g[m] /\ k # 0
        BY <3>1
      <4> QED
        BY <3>1, <4>1
    <3>2. CASE k = 0
      <4>1. h[k] = g[k] /\ k \in 0 .. m
        BY <3>2
      <4> QED
        BY <2>1, <3>2, <4>1
    <3>3. CASE k # 0 /\ k # m + 1
      <4>1. h[k] = g[k] /\ h[k - 1] = g[k - 1] /\ k \in 0 .. m
        BY <3>3
      <4> QED
        BY <2>1, <3>3, <4>1
    <3> QED
      BY <3>1, <3>2, <3>3
  <2> HIDE DEF h
  <2> QED
    BY <2>2, <2>3
<1> HIDE DEF T
<1>4. Len(s) \in T
  <2>1. \A m \in Nat : 0 <= m /\ m < Len(s) /\ m \in T => m + 1 \in T
    BY <1>3
  <2>2. \A m \in Nat : 0 <= m /\ m <= Len(s) => m \in T
    BY <1>1, <1>2, <2>1, Stepwise
  <2> QED
    BY <1>1, <2>2
<1> DEFINE Body(g) == [k \in 0 .. Len(s) |-> IF k = 0 THEN start ELSE Scan(g[k - 1], s[k])]
<1>5. \E g : g = Body(g)
  <2>1. PICK g : g = [k \in 0 .. Len(s) |-> g[k]] /\ Runs(g, Len(s))
    BY <1>4 DEF T
  <2>2. g = Body(g)
    BY <2>1
  <2> QED
    BY <2>2
<1>6. Scanned(s) = CHOOSE g : g = Body(g)
  BY DEF Scanned, start
<1>7. Scanned(s) = Body(Scanned(s))
  BY <1>5, <1>6
<1>8. Body(Scanned(s))[n] = IF n = 0 THEN start ELSE Scan(Scanned(s)[n - 1], s[n])
  OBVIOUS
<1> HIDE DEF Body
<1> QED
  BY <1>7, <1>8 DEF start

\* How much of a terminator the bytes of s between positions a and n end in.
Seen(s, a, n) ==
  IF a + 3 <= n /\ s[n - 2] = "CR" /\ s[n - 1] = "LF" /\ s[n] = "CR" THEN 3
  ELSE IF a + 2 <= n /\ s[n - 1] = "CR" /\ s[n] = "LF" THEN 2
  ELSE IF a + 1 <= n /\ s[n] = "CR" THEN 1
  ELSE 0

\* The automaton at position n of s, having found the commands fs up to a.
Within(s, a, n, fs) ==
  [frames |-> fs, line |-> SubSeq(s, a + 1, n), seen |-> Seen(s, a, n)]

(* One more element at the end of a part of s. *)
LEMMA WindowGrows ==
  ASSUME NEW S, NEW s \in Seq(S), NEW a \in Nat, NEW n \in Nat, a <= n, n + 1 <= Len(s)
  PROVE  Append(SubSeq(s, a + 1, n), s[n + 1]) = SubSeq(s, a + 1, n + 1)
<1>1. PICK m \in Nat : n = a + m
  <2>1. n - a \in Nat /\ n = a + (n - a)
    OBVIOUS
  <2> QED
    BY <2>1
<1> DEFINE u == SubSeq(s, a + 1, a + m)
           v == SubSeq(s, a + 1, a + (m + 1))
<1>2. a + m <= Len(s) /\ a + (m + 1) <= Len(s) /\ s[n + 1] \in S /\ m + 1 \in Nat
  BY <1>1
<1>3. u \in Seq(S) /\ Len(u) = m /\ \A i \in 1 .. m : u[i] = s[a + i]
  BY <1>2, Window
<1>4. v \in Seq(S) /\ Len(v) = m + 1 /\ \A i \in 1 .. m + 1 : v[i] = s[a + i]
  BY <1>2, Window
<1>5. u = SubSeq(s, a + 1, n) /\ v = SubSeq(s, a + 1, n + 1) /\ s[n + 1] = s[a + (m + 1)]
  <2>1. n + 1 = a + (m + 1)
    BY <1>1
  <2> QED
    BY <1>1, <2>1
<1> HIDE DEF u, v
<1>6. /\ Append(u, s[n + 1]) \in Seq(S) /\ Len(Append(u, s[n + 1])) = m + 1
      /\ \A i \in 1 .. m : Append(u, s[n + 1])[i] = s[a + i]
      /\ Append(u, s[n + 1])[m + 1] = s[a + (m + 1)]
  BY <1>2, <1>3, <1>5, AppendProperties
<1>7. \A i \in 1 .. m + 1 : i = m + 1 \/ i \in 1 .. m
  OBVIOUS
<1>8. Append(u, s[n + 1]) = v
  BY <1>4, <1>6, <1>7, SeqEqual
<1> QED
  BY <1>5, <1>8

(***************************************************************************)
(* One byte: the automaton ends a command exactly when the byte ends a     *)
(* terminator, and otherwise knows how much of one it has seen, however    *)
(* the bytes repeat.                                                       *)
(***************************************************************************)
LEMMA ScanSteps ==
  ASSUME NEW s \in Seq(Symbols), NEW a \in Nat, NEW n \in Nat, NEW fs,
         a <= n, n + 1 <= Len(s)
  PROVE  Scan(Within(s, a, n, fs), s[n + 1]) =
           IF a + 4 <= n + 1 /\ TerminatorAt(s, n - 2)
             THEN [frames |-> Append(fs, SubSeq(s, a + 1, (n + 1) - 4)),
                   line |-> <<>>, seen |-> 0]
             ELSE Within(s, a, n + 1, fs)
<1> DEFINE x == s[n + 1]
           state == Within(s, a, n, fs)
           seen == IF x = Terminator[state.seen + 1] THEN state.seen + 1
                   ELSE IF x = "CR" THEN 1
                   ELSE 0
           line == Append(state.line, x)
           ends == a + 4 <= n + 1 /\ TerminatorAt(s, n - 2)
<1>1. /\ Terminator[1] = "CR" /\ Terminator[2] = "LF"
      /\ Terminator[3] = "CR" /\ Terminator[4] = "LF"
  BY DEF Terminator
<1>2. state.seen = Seen(s, a, n) /\ state.frames = fs /\ state.line = SubSeq(s, a + 1, n)
  BY DEF Within
<1>3. line = SubSeq(s, a + 1, n + 1)
  BY <1>2, WindowGrows
<1>4. Len(line) = (n + 1) - a
  <2>1. PICK m \in Nat : n = a + m
    <3>1. n - a \in Nat /\ n = a + (n - a)
      OBVIOUS
    <3> QED
      BY <3>1
  <2>2. a + (m + 1) <= Len(s) /\ m + 1 \in Nat /\ n + 1 = a + (m + 1)
    BY <2>1
  <2>3. Len(SubSeq(s, a + 1, a + (m + 1))) = m + 1
    BY <2>2, Window
  <2> QED
    BY <1>3, <2>1, <2>2, <2>3
<1>5. seen = IF ends THEN 4 ELSE Seen(s, a, n + 1)
  <2>1. (n + 1) - 2 = n - 1 /\ (n + 1) - 1 = n /\ (n - 2) + 1 = n - 1 /\ (n - 2) + 2 = n
        /\ (n - 2) + 3 = n + 1
    OBVIOUS
  <2>2. /\ ends <=> a + 3 <= n /\ s[n - 2] = "CR" /\ s[n - 1] = "LF" /\ s[n] = "CR" /\ x = "LF"
    BY <2>1 DEF TerminatorAt
  <2>3. Seen(s, a, n + 1) =
          IF a + 2 <= n /\ s[n - 1] = "CR" /\ s[n] = "LF" /\ x = "CR" THEN 3
          ELSE IF a + 1 <= n /\ s[n] = "CR" /\ x = "LF" THEN 2
          ELSE IF x = "CR" THEN 1 ELSE 0
    BY <2>1 DEF Seen
  <2> HIDE DEF x, ends, state
  <2>4. CASE Seen(s, a, n) = 3
    <3>1. a + 3 <= n /\ s[n - 2] = "CR" /\ s[n - 1] = "LF" /\ s[n] = "CR"
      BY <2>4 DEF Seen
    <3>2. state.seen + 1 = 4
      BY <1>2, <2>4
    <3>3. seen = IF x = "LF" THEN 4 ELSE IF x = "CR" THEN 1 ELSE 0
      BY <1>1, <1>2, <2>4, <3>2
    <3> QED
      BY <2>2, <2>3, <3>1, <3>3
  <2>5. CASE Seen(s, a, n) = 2
    <3>1. a + 2 <= n /\ s[n - 1] = "CR" /\ s[n] = "LF"
      BY <2>5 DEF Seen
    <3>2. state.seen + 1 = 3
      BY <1>2, <2>5
    <3>3. seen = IF x = "CR" THEN 3 ELSE 0
      BY <1>1, <1>2, <2>5, <3>2
    <3> QED
      BY <2>2, <2>3, <3>1, <3>3
  <2>6. CASE Seen(s, a, n) = 1
    <3>1. /\ a + 1 <= n /\ s[n] = "CR"
         /\ ~ (a + 3 <= n /\ s[n - 2] = "CR" /\ s[n - 1] = "LF")
      BY <2>6 DEF Seen
    <3>2. state.seen + 1 = 2
      BY <1>2, <2>6
    <3>3. seen = IF x = "LF" THEN 2 ELSE IF x = "CR" THEN 1 ELSE 0
      BY <1>1, <1>2, <2>6, <3>2
    <3> QED
      BY <2>2, <2>3, <3>1, <3>3
  <2>7. CASE Seen(s, a, n) = 0
    <3>1. /\ ~ (a + 1 <= n /\ s[n] = "CR")
         /\ ~ (a + 2 <= n /\ s[n - 1] = "CR" /\ s[n] = "LF")
      BY <2>7 DEF Seen
    <3>2. state.seen + 1 = 1
      BY <1>2, <2>7
    <3>3. seen = IF x = "CR" THEN 1 ELSE 0
      BY <1>1, <1>2, <2>7, <3>2
    <3> QED
      BY <2>2, <2>3, <3>1, <3>3
  <2> QED
    BY <2>4, <2>5, <2>6, <2>7 DEF Seen
<1>6. Seen(s, a, n + 1) # 4
  BY DEF Seen
<1>7. Scan(state, x) = IF seen = 4
        THEN [frames |-> Append(state.frames, SubSeq(line, 1, Len(line) - 4)),
              line |-> <<>>, seen |-> 0]
        ELSE [frames |-> state.frames, line |-> line, seen |-> seen]
  BY DEF Scan
<1> HIDE DEF seen
<1>8. CASE ends
  <2>1. PICK m \in Nat : n + 1 = a + (m + 4)
    <3>1. (n - a) - 3 \in Nat /\ n + 1 = a + (((n - a) - 3) + 4)
      BY <1>8
    <3> QED
      BY <3>1
  <2>2. /\ a + (m + 4) <= Len(s) /\ a + m <= Len(s) /\ m + 4 \in Nat
        /\ Len(line) - 4 = m /\ (n + 1) - 4 = a + m /\ 0 + m <= m + 4 /\ 0 + m = m
    BY <1>4, <2>1
  <2>3. /\ line \in Seq(Symbols) /\ Len(line) = m + 4
        /\ \A i \in 1 .. m + 4 : line[i] = s[a + i]
    <3>1. line = SubSeq(s, a + 1, a + (m + 4))
      BY <1>3, <2>1
    <3> HIDE DEF line
    <3>2. /\ SubSeq(s, a + 1, a + (m + 4)) \in Seq(Symbols)
          /\ Len(SubSeq(s, a + 1, a + (m + 4))) = m + 4
          /\ \A i \in 1 .. m + 4 : SubSeq(s, a + 1, a + (m + 4))[i] = s[a + i]
      BY <2>2, Window
    <3> QED
      BY <3>1, <3>2
  <2> DEFINE u == SubSeq(line, 0 + 1, 0 + m)
             v == SubSeq(s, a + 1, a + m)
  <2> HIDE DEF line
  <2>4. u \in Seq(Symbols) /\ Len(u) = m /\ \A i \in 1 .. m : u[i] = line[0 + i]
    BY <2>2, <2>3, Window
  <2>5. v \in Seq(Symbols) /\ Len(v) = m /\ \A i \in 1 .. m : v[i] = s[a + i]
    BY <2>2, Window
  <2>6. \A i \in 1 .. m : 0 + i = i /\ i \in 1 .. m + 4
    OBVIOUS
  <2>7. u = v
    <3> HIDE DEF u, v
    <3> QED
      BY <2>3, <2>4, <2>5, <2>6, SeqEqual
  <2>8. SubSeq(line, 1, Len(line) - 4) = SubSeq(s, a + 1, (n + 1) - 4)
    BY <2>2, <2>7
  <2> QED
    BY <1>2, <1>5, <1>7, <1>8, <2>8
<1>9. CASE ~ ends
  BY <1>2, <1>3, <1>5, <1>6, <1>7, <1>9 DEF Within
<1> QED
  BY <1>8, <1>9

(***************************************************************************)
(* The automaton from a command's first byte on, as long as no terminator  *)
(* has passed.                                                             *)
(***************************************************************************)
LEMMA ScannedWithin ==
  ASSUME NEW s \in Seq(Symbols), NEW a \in Nat, NEW b \in Nat, NEW fs,
         a <= b, b <= Len(s), Scanned(s)[a] = Within(s, a, a, fs),
         \A i \in Nat : a < i /\ i + 3 <= b => ~ TerminatorAt(s, i)
  PROVE  Scanned(s)[b] = Within(s, a, b, fs)
<1> DEFINE T == {n \in Nat : Scanned(s)[n] = Within(s, a, n, fs)}
<1>1. a \in T
  OBVIOUS
<1>2. ASSUME NEW n \in Nat, a <= n, n < b, n \in T
      PROVE  n + 1 \in T
  <2>1. n + 1 \in 0 .. Len(s) /\ n + 1 # 0 /\ (n + 1) - 1 = n /\ n + 1 <= Len(s)
    BY <1>2
  <2>2. Scanned(s)[n + 1] = Scan(Scanned(s)[n], s[n + 1])
    BY <2>1, ScannedSteps
  <2>3. ~ (a + 4 <= n + 1 /\ TerminatorAt(s, n - 2))
    <3> SUFFICES ASSUME a + 4 <= n + 1
                 PROVE  ~ TerminatorAt(s, n - 2)
      OBVIOUS
    <3>1. n - 2 \in Nat /\ a < n - 2 /\ (n - 2) + 3 <= b
      BY <1>2
    <3> QED
      BY <3>1
  <2>4. Scanned(s)[n] = Within(s, a, n, fs)
    BY <1>2
  <2>5. Scan(Within(s, a, n, fs), s[n + 1]) = Within(s, a, n + 1, fs)
    BY <1>2, <2>1, <2>3, ScanSteps
  <2> QED
    BY <2>2, <2>4, <2>5
<1> HIDE DEF T
<1>3. \A n \in Nat : a <= n /\ n <= b => n \in T
  <2>1. \A n \in Nat : a <= n /\ n < b /\ n \in T => n + 1 \in T
    BY <1>2
  <2> QED
    BY <1>1, <2>1, Stepwise
<1>4. b \in T
  BY <1>3
<1> QED
  BY <1>4 DEF T

(* The automaton at the beginning of a command. *)
LEMMA NothingBetween ==
  ASSUME NEW s \in Seq(Symbols), NEW a \in Nat, NEW fs
  PROVE  Within(s, a, a, fs) = [frames |-> fs, line |-> <<>>, seen |-> 0]
<1>1. SubSeq(s, a + 1, a) = <<>>
  BY SubSeqEmpty, a + 1 \in Int, a \in Int, a < a + 1
<1>2. Seen(s, a, a) = 0
  BY DEF Seen
<1> QED
  BY <1>1, <1>2 DEF Within

(***************************************************************************)
(* The first terminator after a command's beginning is the end of that     *)
(* command.                                                                *)
(***************************************************************************)
LEMMA ScannedCut ==
  ASSUME NEW s \in Seq(Symbols), NEW a \in Nat, NEW b \in Nat, NEW fs,
         b <= Len(s), NextTerminator(s, a, b), Scanned(s)[a] = Within(s, a, a, fs)
  PROVE  Scanned(s)[b] = Within(s, b, b, Append(fs, SubSeq(s, a + 1, b - 4)))
<1>1. PICK n \in Nat : b = n + 1 /\ a <= n /\ n <= Len(s)
  <2>1. b - 1 \in Nat /\ b = (b - 1) + 1 /\ a <= b - 1 /\ b - 1 <= Len(s)
    BY DEF NextTerminator
  <2> QED
    BY <2>1
<1>2. Scanned(s)[n] = Within(s, a, n, fs)
  <2>1. ASSUME NEW i \in Nat, a < i, i + 3 <= n
        PROVE  ~ TerminatorAt(s, i)
    <3>1. i \in (a + 1) .. (b - 4)
      BY <1>1, <2>1
    <3> QED
      BY <3>1 DEF NextTerminator
  <2> QED
    BY <1>1, <2>1, ScannedWithin
<1>3. Scanned(s)[b] = Scan(Scanned(s)[n], s[n + 1])
  <2>1. b \in 0 .. Len(s) /\ b # 0 /\ b - 1 = n
    BY <1>1
  <2>2. Scanned(s)[b] = Scan(Scanned(s)[b - 1], s[b])
    BY <2>1, ScannedSteps
  <2> QED
    BY <1>1, <2>1, <2>2
<1>4. a + 4 <= n + 1 /\ TerminatorAt(s, n - 2)
  <2>1. n - 2 = b - 3 /\ n + 1 = b
    BY <1>1
  <2> QED
    BY <2>1 DEF NextTerminator
<1>5. Scan(Within(s, a, n, fs), s[n + 1])
        = [frames |-> Append(fs, SubSeq(s, a + 1, (n + 1) - 4)), line |-> <<>>, seen |-> 0]
  BY <1>1, <1>4, ScanSteps
<1> QED
  BY <1>1, <1>2, <1>3, <1>5, NothingBetween

(* What the automaton has found it does not take back. *)
LEMMA FramesGrow ==
  ASSUME NEW s \in Seq(Symbols), NEW a \in Nat, NEW b \in Nat, a <= b, b <= Len(s),
         Scanned(s)[a].frames \in Seq(Seq(Symbols)), Scanned(s)[a].line \in Seq(Symbols)
  PROVE  IsPrefix(Scanned(s)[a].frames, Scanned(s)[b].frames)
<1> DEFINE F == Scanned(s)[a].frames
           Later(fs) == /\ fs \in Seq(Seq(Symbols)) /\ Len(F) <= Len(fs)
                        /\ \A i \in 1 .. Len(F) : fs[i] = F[i]
           T == {n \in Nat : Later(Scanned(s)[n].frames) /\ Scanned(s)[n].line \in Seq(Symbols)}
<1> HIDE DEF F
<1>0. F \in Seq(Seq(Symbols)) /\ Len(F) \in Nat
  BY DEF F
<1>1. a \in T
  BY <1>0 DEF F
<1>2. ASSUME NEW n \in Nat, a <= n, n < b, n \in T
      PROVE  n + 1 \in T
  <2> DEFINE state == Scanned(s)[n]
             line == Append(state.line, s[n + 1])
             made == SubSeq(line, 1, Len(line) - 4)
  <2>1. n + 1 \in 0 .. Len(s) /\ n + 1 # 0 /\ (n + 1) - 1 = n /\ s[n + 1] \in Symbols
    BY <1>2
  <2>2. Scanned(s)[n + 1] = Scan(state, s[n + 1])
    BY <2>1, ScannedSteps
  <2>3. line \in Seq(Symbols) /\ Len(line) \in Nat
    BY <1>2, <2>1, AppendProperties
  <2>4. made \in Seq(Symbols)
    <3>1. \A i \in 1 .. Len(line) - 4 : line[i] \in Symbols
      BY <2>3
    <3>2. Len(line) - 4 \in Int /\ 1 \in Int
      BY <2>3
    <3> HIDE DEF line
    <3> QED
      BY <3>1, <3>2, SubSeqProperties
  <2>5. \/ Scan(state, s[n + 1]).frames = state.frames /\ Scan(state, s[n + 1]).line = line
        \/ Scan(state, s[n + 1]).frames = Append(state.frames, made)
           /\ Scan(state, s[n + 1]).line = <<>>
    BY DEF Scan
  <2>6. state.frames \in Seq(Seq(Symbols)) /\ Later(state.frames)
    BY <1>2
  <2> HIDE DEF state, line, made
  <2>7. /\ Append(state.frames, made) \in Seq(Seq(Symbols))
        /\ Len(Append(state.frames, made)) = Len(state.frames) + 1
        /\ \A i \in 1 .. Len(state.frames) : Append(state.frames, made)[i] = state.frames[i]
    BY <2>4, <2>6, AppendProperties
  <2>8. Later(Append(state.frames, made))
    <3>1. Len(F) <= Len(state.frames) + 1 /\ \A i \in 1 .. Len(F) : i \in 1 .. Len(state.frames)
      BY <1>0, <2>6
    <3> QED
      BY <2>6, <2>7, <3>1
  <2> HIDE DEF Later
  <2>9. Later(Scan(state, s[n + 1]).frames)
    BY <2>5, <2>6, <2>8
  <2>10. Scan(state, s[n + 1]).line \in Seq(Symbols)
    <3>1. <<>> \in Seq(Symbols)
      OBVIOUS
    <3> QED
      BY <2>3, <2>5, <3>1
  <2> QED
    BY <2>2, <2>9, <2>10
<1>3. Later(Scanned(s)[b].frames)
  <2> HIDE DEF T
  <2>1. \A n \in Nat : a <= n /\ n < b /\ n \in T => n + 1 \in T
    BY <1>2
  <2>2. \A n \in Nat : a <= n /\ n <= b => n \in T
    BY <1>1, <2>1, Stepwise
  <2> QED
    BY <2>2 DEF T
<1> DEFINE G == Scanned(s)[b].frames
<1> HIDE DEF G
<1>4. G \in Seq(Seq(Symbols)) /\ Len(F) <= Len(G) /\ \A i \in 1 .. Len(F) : G[i] = F[i]
  BY <1>3 DEF G
<1>5. SubSeq(F, 1, Len(F)) = F
  BY <1>0, SubSeqFull
<1>6. SubSeq(G, 1, Len(F)) = F
  <2>1. 0 + Len(F) <= Len(G) /\ 0 + Len(F) = Len(F) /\ 0 + 1 = 1
    BY <1>0, <1>4
  <2>2. /\ SubSeq(G, 0 + 1, 0 + Len(F)) \in Seq(Seq(Symbols))
        /\ Len(SubSeq(G, 0 + 1, 0 + Len(F))) = Len(F)
        /\ \A i \in 1 .. Len(F) : SubSeq(G, 0 + 1, 0 + Len(F))[i] = G[0 + i]
    BY <1>0, <1>4, <2>1, Window
  <2>3. \A i \in 1 .. Len(F) : 0 + i = i
    OBVIOUS
  <2>4. /\ SubSeq(G, 1, Len(F)) \in Seq(Seq(Symbols))
        /\ Len(SubSeq(G, 1, Len(F))) = Len(F)
        /\ \A i \in 1 .. Len(F) : SubSeq(G, 1, Len(F))[i] = F[i]
    BY <1>4, <2>1, <2>2, <2>3
  <2> QED
    BY <1>0, <2>4, SeqEqual
<1> QED
  BY <1>4, <1>5, <1>6 DEF IsPrefix, F, G
-----------------------------------------------------------------------------

\* Where in the input the buffer begins.
Start == got - Len(buf)

(***************************************************************************)
(* What is in the buffer is what has been read and not yet been taken.     *)
(***************************************************************************)
BufferIsRest == \A i \in 1 .. Len(buf) : buf[i] = input[Start + i]

\* The commands taken are those between the positions cut[0], cut[1], ...
CutAt(cut) ==
  /\ cut[0] = 0 /\ cut[Len(items)] = Start
  /\ \A k \in 1 .. Len(items) :
       /\ NextTerminator(input, cut[k - 1], cut[k])
       /\ items[k].frame = SubSeq(input, cut[k - 1] + 1, cut[k] - 4)

(***************************************************************************)
(* The commands taken lie in the input one after the other, each ending    *)
(* at the first terminator after its beginning; the buffer comes next.     *)
(***************************************************************************)
CutAtTerminators == \E cut \in [0 .. Len(items) -> 0 .. got] : CutAt(cut)

(* decode has been asked until it found no terminator in the buffer. *)
TakenBeforeReading ==
  pc = "read" => \A i \in 1 .. Len(buf) : ~ TerminatorAt(buf, i)

(* Everything that decode returns it has made from bytes of the buffer. *)
ItemsMade == items \in Seq({Item(f) : f \in Seq(Symbols)})

IInv ==
  TypeOK /\ ItemsMade /\ BufferIsRest /\ CutAtTerminators /\ TakenBeforeReading
-----------------------------------------------------------------------------
(***************************************************************************)
(* decode gives a command its kind and returns it with the bytes it was    *)
(* made from.                                                              *)
(***************************************************************************)
LEMMA ItemKind ==
  ASSUME NEW f
  PROVE  Item(f).kind \in Kinds /\ Item(f).frame = f
BY DEF Item, Kind, Kinds

(* Every command that decode has returned has one of the kinds. *)
LEMMA ItemsHaveKinds ==
  ASSUME NEW s \in Seq({Item(f) : f \in Seq(Symbols)}), NEW i \in DOMAIN s
  PROVE  s[i].kind \in Kinds
<1>1. s[i] \in {Item(f) : f \in Seq(Symbols)}
  OBVIOUS
<1> QED
  BY <1>1, ItemKind

(* Before the first read. *)
LEMMA InitIInv == Init => IInv
<1> SUFFICES ASSUME Init PROVE IInv
  OBVIOUS
<1> USE InputsAssumption DEF Init
<1>1. /\ input \in Seq(Symbols) /\ Len(input) \in Nat
      /\ got = 0 /\ Len(buf) = 0 /\ Len(items) = 0
  OBVIOUS
<1>2. ItemsMade
  BY DEF ItemsMade
<1>3. TypeOK
  <2>1. got \in 0 .. Len(input) /\ buf \in Seq(Symbols) /\ Len(buf) <= got
    BY <1>1
  <2>2. \A i \in DOMAIN items : items[i].kind \in Kinds
    BY <1>2, ItemsHaveKinds DEF ItemsMade
  <2> QED
    BY <2>1, <2>2 DEF TypeOK
<1>4. BufferIsRest /\ TakenBeforeReading
  BY <1>1 DEF BufferIsRest, TakenBeforeReading
<1> HIDE DEF Init
<1>5. CutAt([k \in 0 .. 0 |-> 0])
  <2>1. got - Len(buf) = 0
    BY <1>1
  <2>2. \A k \in 1 .. Len(items) : FALSE
    BY <1>1
  <2> QED
    BY <1>1, <2>1, <2>2 DEF CutAt, Start
<1>6. CutAtTerminators
  BY <1>1, <1>5 DEF CutAtTerminators
<1> QED
  BY <1>2, <1>3, <1>4, <1>6 DEF IInv

(* A read puts the next bytes of the input behind those in the buffer. *)
LEMMA ReadBytesKeepsIInv ==
  ASSUME IInv, NEW n \in 1 .. Len(input), ReadBytes(n)
  PROVE  IInv'
<1> USE InputsAssumption
<1>1. /\ input \in Seq(Symbols) /\ Len(input) \in Nat /\ got \in Nat
      /\ buf \in Seq(Symbols) /\ Len(buf) \in Nat /\ Len(buf) <= got
      /\ n \in Nat /\ got + n <= Len(input)
  BY DEF IInv, TypeOK, ReadBytes
<1> DEFINE more == SubSeq(input, got + 1, got + n)
<1>3. /\ more \in Seq(Symbols) /\ Len(more) = n
      /\ \A i \in 1 .. n : more[i] = input[got + i]
  BY <1>1, Window
<1>4. buf' = buf \o more
  BY DEF ReadBytes
<1> HIDE DEF more
<1>5. /\ buf' \in Seq(Symbols) /\ Len(buf') = Len(buf) + n
      /\ \A i \in 1 .. Len(buf) + n :
           buf'[i] = IF i <= Len(buf) THEN buf[i] ELSE more[i - Len(buf)]
  <2>1. buf \in Seq(Symbols) /\ more \in Seq(Symbols)
    BY <1>1, <1>3
  <2>2. /\ buf \o more \in Seq(Symbols) /\ Len(buf \o more) = Len(buf) + Len(more)
        /\ \A i \in 1 .. Len(buf) + Len(more) :
             (buf \o more)[i] = IF i <= Len(buf) THEN buf[i] ELSE more[i - Len(buf)]
    BY <2>1, ConcatProperties
  <2> QED
    BY <1>3, <1>4, <2>2
<1>6. Start' = Start
  BY <1>1, <1>5 DEF Start, ReadBytes
<1>7. ItemsMade'
  BY DEF IInv, ItemsMade, ReadBytes
<1>8. TypeOK'
  BY <1>1, <1>5 DEF IInv, TypeOK, ReadBytes
<1>9. BufferIsRest'
  BY <1>1, <1>3, <1>5, <1>6 DEF IInv, BufferIsRest, Start, ReadBytes
<1>10. CutAtTerminators'
  <2>1. PICK cut \in [0 .. Len(items) -> 0 .. got] : CutAt(cut)
    BY DEF IInv, CutAtTerminators
  <2>2. items' = items /\ input' = input /\ got <= got'
    BY <1>1 DEF ReadBytes
  <2>3. CutAt(cut)'
    BY <1>6, <2>1, <2>2 DEF CutAt, NextTerminator, TerminatorAt
  <2>4. cut \in [0 .. Len(items') -> 0 .. got']
    BY <1>1, <2>1, <2>2 DEF ReadBytes
  <2> QED
    BY <2>3, <2>4 DEF CutAtTerminators
<1>11. TakenBeforeReading'
  BY DEF TakenBeforeReading, ReadBytes
<1> QED
  BY <1>7, <1>8, <1>9, <1>10, <1>11 DEF IInv

(***************************************************************************)
(* The steps that move no bytes; decode asks for more only if no           *)
(* terminator is left.                                                     *)
(***************************************************************************)
LEMMA QuietStepsKeepIInv ==
  ASSUME IInv, ReadEof \/ DecodeNone \/ NextFrame \/ UNCHANGED vars
  PROVE  IInv'
<1>1. input' = input /\ got' = got /\ buf' = buf /\ items' = items
  BY DEF ReadEof, DecodeNone, NextFrame, vars
<1>2. buf \in Seq(Symbols) /\ Len(buf) \in Nat
  BY DEF IInv, TypeOK
<1>3. TypeOK'
  BY <1>1 DEF IInv, TypeOK, ReadEof, DecodeNone, NextFrame, vars
<1>4. ItemsMade' /\ BufferIsRest' /\ CutAtTerminators'
  BY <1>1 DEF IInv, ItemsMade, BufferIsRest, CutAtTerminators, CutAt, Start,
              NextTerminator, TerminatorAt
<1>5. TakenBeforeReading'
  <2>1. CASE DecodeNone
    BY <1>1, <1>2, <2>1, TerminatorPositions
       DEF TakenBeforeReading, DecodeNone, TerminatorAt
  <2>2. CASE ReadEof \/ NextFrame \/ UNCHANGED vars
    BY <1>1, <2>2 DEF IInv, TakenBeforeReading, ReadEof, NextFrame, vars, TerminatorAt
  <2> QED
    BY <2>1, <2>2
<1> QED
  BY <1>3, <1>4, <1>5 DEF IInv

(***************************************************************************)
(* decode takes the bytes before the first terminator in the buffer, which *)
(* is the first one in the input after the last command.                   *)
(***************************************************************************)
LEMMA DecodeFrameKeepsIInv ==
  ASSUME IInv, DecodeFrame
  PROVE  IInv'
<1> USE InputsAssumption
<1>1. /\ input \in Seq(Symbols) /\ Len(input) \in Nat /\ got \in Nat /\ got <= Len(input)
      /\ buf \in Seq(Symbols) /\ Len(buf) \in Nat /\ Len(buf) <= got
      /\ Start \in Nat
  BY DEF IInv, TypeOK, Start
<1>2. PICK end \in Nat :
        /\ end = Min(Positions(Terminator, buf))
        /\ end \in 1 .. Len(buf) /\ TerminatorAt(buf, end)
        /\ \A i \in 1 .. Len(buf) : i < end => ~ TerminatorAt(buf, i)
  <2> DEFINE ends == {i \in 1 .. Len(buf) : TerminatorAt(buf, i)}
  <2>1. Positions(Terminator, buf) = ends
    BY <1>1, TerminatorPositions
  <2>2. ends \in SUBSET Nat /\ ends # {}
    BY <1>1, <2>1 DEF DecodeFrame
  <2>3. Min(ends) \in ends /\ \A i \in ends : Min(ends) <= i
    BY <2>2, FirstPosition
  <2>4. PICK end \in ends : end = Min(ends) /\ \A i \in ends : end <= i
    BY <2>3
  <2>5. end \in Nat /\ end \in 1 .. Len(buf) /\ TerminatorAt(buf, end)
    BY <1>1, <2>4
  <2>6. ASSUME NEW i \in 1 .. Len(buf), i < end
        PROVE  ~ TerminatorAt(buf, i)
    <3>1. i \in Nat /\ ~ (end <= i)
      BY <1>1, <2>5, <2>6
    <3> QED
      BY <2>4, <3>1
  <2> HIDE DEF ends
  <2> QED
    BY <2>1, <2>4, <2>5, <2>6
<1>3. /\ end + 3 <= Len(buf)
      /\ items' = Append(items, Item(SubSeq(buf, 1, end - 1)))
      /\ buf' = SubSeq(buf, end + 4, Len(buf))
      /\ input' = input /\ got' = got /\ eof' = eof /\ pc' \in {"ended", "given"}
  BY <1>2 DEF DecodeFrame, TerminatorAt
\* What the command and the terminator leave of the buffer.
<1>4. PICK n \in Nat, left \in Nat :
        n = end - 1 /\ end = n + 1 /\ Len(buf) = (n + 4) + left
  <2>1. end - 1 \in Nat /\ Len(buf) - (end + 3) \in Nat
    BY <1>1, <1>2, <1>3
  <2>2. end = (end - 1) + 1 /\ Len(buf) = ((end - 1) + 4) + (Len(buf) - (end + 3))
    BY <1>1
  <2> QED
    BY <2>1, <2>2
<1> DEFINE f == SubSeq(buf, 1, end - 1)
<1>5. /\ f \in Seq(Symbols) /\ Len(f) = n
      /\ \A i \in 1 .. n : f[i] = buf[i]
  <2>1. f = SubSeq(buf, 0 + 1, 0 + n) /\ 0 + n <= Len(buf) /\ \A i \in 1 .. n : 0 + i = i
    BY <1>1, <1>4
  <2> HIDE DEF f
  <2> QED
    BY <1>1, <2>1, Window
<1>6. /\ buf' \in Seq(Symbols) /\ Len(buf') = left
      /\ \A i \in 1 .. left : buf'[i] = buf[(n + 4) + i]
  <2>1. buf' = SubSeq(buf, (n + 4) + 1, (n + 4) + left) /\ (n + 4) + left <= Len(buf)
    BY <1>1, <1>3, <1>4
  <2> QED
    BY <1>1, <2>1, Window
<1>7. Start' = Start + (n + 4)
  <2>1. Len(buf') = left /\ got' = got
    BY <1>3, <1>6
  <2> QED
    BY <1>1, <1>4, <2>1 DEF Start
<1>8. \A i \in 1 .. Len(buf) : input[Start + i] = buf[i]
  BY DEF IInv, BufferIsRest
<1> HIDE DEF f
<1>9. BufferIsRest'
  <2> SUFFICES ASSUME NEW i \in 1 .. left
               PROVE  buf'[i] = input'[Start' + i]
    BY <1>6 DEF BufferIsRest
  <2>1. (n + 4) + i \in 1 .. Len(buf) /\ buf'[i] = buf[(n + 4) + i]
    BY <1>4, <1>6
  <2>2. Start + ((n + 4) + i) = (Start + (n + 4)) + i
    BY <1>1
  <2> QED
    BY <1>3, <1>7, <1>8, <2>1, <2>2
<1>10. f = SubSeq(input, Start + 1, (Start + (n + 4)) - 4)
  <2> DEFINE g == SubSeq(input, Start + 1, Start + n)
  <2>1. Start + n <= Len(input) /\ (Start + (n + 4)) - 4 = Start + n
    BY <1>1, <1>4 DEF Start
  <2>2. g \in Seq(Symbols) /\ Len(g) = n /\ \A i \in 1 .. n : g[i] = input[Start + i]
    BY <1>1, <2>1, Window
  <2>3. \A i \in 1 .. n : i \in 1 .. Len(buf)
    BY <1>4
  <2> HIDE DEF g
  <2>4. f = g
    BY <1>5, <1>8, <2>2, <2>3, SeqEqual
  <2> QED
    BY <2>1, <2>4 DEF g
<1>11. NextTerminator(input, Start, Start + (n + 4))
  <2>1. TerminatorAt(input, (Start + (n + 4)) - 3)
    <3>1. /\ end \in 1 .. Len(buf) /\ end + 1 \in 1 .. Len(buf)
          /\ end + 2 \in 1 .. Len(buf) /\ end + 3 \in 1 .. Len(buf)
      BY <1>1, <1>2, <1>3
    <3>2. /\ (Start + (n + 4)) - 3 = Start + end
          /\ (Start + end) + 1 = Start + (end + 1) /\ (Start + end) + 2 = Start + (end + 2)
          /\ (Start + end) + 3 = Start + (end + 3) /\ Start + (end + 3) <= Len(input)
      BY <1>1, <1>3, <1>4 DEF Start
    <3> QED
      BY <1>2, <1>8, <3>1, <3>2 DEF TerminatorAt
  <2>2. ASSUME NEW i \in (Start + 1) .. ((Start + (n + 4)) - 4)
        PROVE  ~ TerminatorAt(input, i)
    <3>1. PICK j \in 1 .. n : i = Start + j
      <4>1. i - Start \in 1 .. n /\ i = Start + (i - Start)
        BY <1>1, <1>4
      <4> QED
        BY <4>1
    <3>2. /\ j \in 1 .. Len(buf) /\ j + 1 \in 1 .. Len(buf)
          /\ j + 2 \in 1 .. Len(buf) /\ j + 3 \in 1 .. Len(buf) /\ j < end
      BY <1>4
    <3>3. i + 1 = Start + (j + 1) /\ i + 2 = Start + (j + 2) /\ i + 3 = Start + (j + 3)
      BY <1>1, <3>1
    <3>4. ~ TerminatorAt(buf, j)
      BY <1>2, <3>2
    <3>5. /\ input[i] = buf[j] /\ input[i + 1] = buf[j + 1]
          /\ input[i + 2] = buf[j + 2] /\ input[i + 3] = buf[j + 3]
      BY <1>8, <3>1, <3>2, <3>3
    <3>6. j + 3 <= Len(buf)
      BY <1>1, <3>2
    <3> QED
      BY <3>4, <3>5, <3>6 DEF TerminatorAt
  <2>3. Start + 4 <= Start + (n + 4)
    BY <1>1
  <2> QED
    BY <2>1, <2>2, <2>3 DEF NextTerminator
<1>12. /\ ItemsMade' /\ Len(items) \in Nat /\ Len(items') = Len(items) + 1
       /\ \A k \in 1 .. Len(items) : items'[k] = items[k]
       /\ items'[Len(items) + 1] = Item(f)
  <2> DEFINE S == {Item(g) : g \in Seq(Symbols)}
  <2>1. items \in Seq(S) /\ Item(f) \in S
    BY <1>5 DEF IInv, ItemsMade
  <2>2. items' = Append(items, Item(f))
    BY <1>3 DEF f
  <2> HIDE DEF S
  <2>3. /\ items' \in Seq(S) /\ Len(items) \in Nat /\ Len(items') = Len(items) + 1
        /\ \A k \in 1 .. Len(items) : items'[k] = items[k]
        /\ items'[Len(items) + 1] = Item(f)
    BY <2>1, <2>2, AppendProperties
  <2> QED
    BY <2>3 DEF ItemsMade, S
<1>13. CutAtTerminators'
  <2>1. PICK cut \in [0 .. Len(items) -> 0 .. got] : CutAt(cut)
    BY DEF IInv, CutAtTerminators
  <2>2. PICK last \in Nat, a \in Nat, b \in Nat :
          last = Len(items) /\ a = Start /\ b = Start + (n + 4)
    BY <1>1, <1>12
  <2> DEFINE longer == [k \in 0 .. last + 1 |-> IF k = last + 1 THEN b ELSE cut[k]]
  <2>3. b <= got
    BY <1>1, <1>4, <2>2 DEF Start
  <2>4. longer \in [0 .. Len(items') -> 0 .. got']
    BY <1>1, <1>3, <1>12, <2>1, <2>2, <2>3
  <2>5. longer[0] = 0 /\ longer[Len(items')] = Start'
    BY <1>7, <1>12, <2>1, <2>2 DEF CutAt
  <2>6. ASSUME NEW k \in 1 .. Len(items')
        PROVE  /\ NextTerminator(input, longer[k - 1], longer[k])'
               /\ items'[k].frame = SubSeq(input', longer[k - 1] + 1, longer[k] - 4)
    <3>1. CASE k = last + 1
      <4>1. longer[k - 1] = a /\ longer[k] = b
        BY <2>1, <2>2, <3>1 DEF CutAt
      <4>2. NextTerminator(input, a, b) /\ f = SubSeq(input, a + 1, b - 4)
        BY <1>10, <1>11, <2>2
      <4>3. items'[k].frame = f
        BY <1>12, <2>2, <3>1, ItemKind
      <4>4. NextTerminator(input, a, b)'
        BY <1>3, <4>2 DEF NextTerminator, TerminatorAt
      <4> HIDE DEF longer, f
      <4> QED
        BY <1>3, <4>1, <4>2, <4>3, <4>4
    <3>2. CASE k # last + 1
      <4>1. k \in 1 .. Len(items) /\ longer[k - 1] = cut[k - 1] /\ longer[k] = cut[k]
        BY <1>12, <2>2, <3>2
      <4>2. /\ NextTerminator(input, cut[k - 1], cut[k])
            /\ items[k].frame = SubSeq(input, cut[k - 1] + 1, cut[k] - 4)
        BY <2>1, <4>1 DEF CutAt
      <4>3. NextTerminator(input, cut[k - 1], cut[k])'
        BY <1>3, <4>2 DEF NextTerminator, TerminatorAt
      <4> HIDE DEF longer
      <4> QED
        BY <1>3, <1>12, <4>1, <4>2, <4>3
    <3> QED
      BY <3>1, <3>2
  <2> HIDE DEF longer
  <2> QED
    BY <2>4, <2>5, <2>6 DEF CutAtTerminators, CutAt
<1>14. TakenBeforeReading'
  BY <1>3 DEF TakenBeforeReading
<1>15. TypeOK'
  <2>1. \A k \in DOMAIN items' : items'[k].kind \in Kinds
    BY <1>12, ItemsHaveKinds DEF ItemsMade
  <2>2. /\ input' \in Inputs /\ got' \in 0 .. Len(input') /\ eof' \in BOOLEAN
        /\ pc' \in {"read", "decode", "given", "ended"}
    BY <1>3 DEF IInv, TypeOK
  <2>3. buf' \in Seq(Symbols) /\ Len(buf') <= got'
    BY <1>1, <1>3, <1>4, <1>6
  <2> QED
    BY <2>1, <2>2, <2>3 DEF TypeOK
<1> QED
  BY <1>9, <1>12, <1>13, <1>14, <1>15 DEF IInv

(***************************************************************************)
(* At the end of the last command taken, the automaton has found the       *)
(* commands taken, and is between two commands.                            *)
(***************************************************************************)
LEMMA ScannedAtCut ==
  ASSUME IInv, NEW cut \in [0 .. Len(items) -> 0 .. got], CutAt(cut)
  PROVE  /\ Frames \in Seq(Seq(Symbols))
         /\ Scanned(input)[Start] = Within(input, Start, Start, Frames)
<1> DEFINE Found(k) ==
             Scanned(input)[cut[k]] = Within(input, cut[k], cut[k], SubSeq(Frames, 1, k))
           T == {k \in Nat : k <= Len(items) => Found(k)}
<1>1. input \in Seq(Symbols) /\ got \in Nat /\ got <= Len(input) /\ Len(input) \in Nat
  BY InputsAssumption DEF IInv, TypeOK
<1>2. Len(items) \in Nat /\ DOMAIN items = 1 .. Len(items)
  BY DEF IInv, ItemsMade
<1>3. \A k \in 1 .. Len(items) : items[k].frame \in Seq(Symbols)
  <2> SUFFICES ASSUME NEW k \in 1 .. Len(items)
               PROVE  items[k].frame \in Seq(Symbols)
    OBVIOUS
  <2>1. items[k] \in {Item(f) : f \in Seq(Symbols)}
    BY <1>2 DEF IInv, ItemsMade
  <2> QED
    BY <2>1, ItemKind
<1>4. /\ Frames \in Seq(Seq(Symbols)) /\ Len(Frames) = Len(items)
      /\ \A k \in 1 .. Len(items) : Frames[k] = items[k].frame
  BY <1>2, <1>3 DEF Frames
<1>5. \A k \in 0 .. Len(items) : cut[k] \in Nat /\ cut[k] <= Len(input)
  BY <1>1
<1>6. 0 \in T
  <2>1. SubSeq(Frames, 1, 0) = <<>>
    BY SubSeqEmpty, 1 \in Int, 0 \in Int, 0 < 1
  <2>2. Scanned(input)[0] = [frames |-> <<>>, line |-> <<>>, seen |-> 0]
    BY <1>1, ScannedSteps, 0 \in 0 .. Len(input)
  <2>3. cut[0] = 0
    BY DEF CutAt
  <2>4. Found(0)
    BY <1>1, <2>1, <2>2, <2>3, NothingBetween, 0 \in Nat
  <2> HIDE DEF Found
  <2> QED
    BY <2>4
<1>7. ASSUME NEW k \in Nat, k \in T, k < Len(items)
      PROVE  k + 1 \in T
  <2>1. /\ k \in 0 .. Len(items) /\ k + 1 \in 0 .. Len(items) /\ k + 1 \in 1 .. Len(items)
        /\ (k + 1) - 1 = k /\ k <= Len(items)
    BY <1>2, <1>7
  <2>2. /\ NextTerminator(input, cut[k], cut[k + 1])
        /\ items[k + 1].frame = SubSeq(input, cut[k] + 1, cut[k + 1] - 4)
    BY <2>1 DEF CutAt
  <2>3. Scanned(input)[cut[k]] = Within(input, cut[k], cut[k], SubSeq(Frames, 1, k))
    BY <1>7, <2>1
  <2>4. Scanned(input)[cut[k + 1]] =
          Within(input, cut[k + 1], cut[k + 1],
                 Append(SubSeq(Frames, 1, k), items[k + 1].frame))
    BY <1>1, <1>5, <2>1, <2>2, <2>3, ScannedCut
  <2>5. Append(SubSeq(Frames, 1, k), items[k + 1].frame) = SubSeq(Frames, 1, k + 1)
    <3>1. Append(SubSeq(Frames, 0 + 1, k), Frames[k + 1]) = SubSeq(Frames, 0 + 1, k + 1)
      BY <1>4, <2>1, WindowGrows
    <3> QED
      BY <1>4, <2>1, <3>1, 0 + 1 = 1
  <2>6. Found(k + 1)
    BY <2>4, <2>5
  <2> HIDE DEF Found
  <2> QED
    BY <2>6
<1>8. Len(items) \in T
  <2> HIDE DEF T
  <2>1. \A k \in Nat : 0 <= k /\ k < Len(items) /\ k \in T => k + 1 \in T
    BY <1>7
  <2>2. \A k \in Nat : 0 <= k /\ k <= Len(items) => k \in T
    BY <1>2, <1>6, <2>1, Stepwise, 0 \in Nat
  <2> QED
    BY <1>2, <2>2
<1>9. SubSeq(Frames, 1, Len(items)) = Frames
  BY <1>4, SubSeqFull
<1>10. cut[Len(items)] = Start
  BY DEF CutAt
<1> QED
  BY <1>2, <1>4, <1>8, <1>9, <1>10

(* The two properties of the frames follow from the invariant. *)
LEMMA FramesAreScanned == IInv => FramesDoNotDependOnReads /\ NothingHeldBack
<1> SUFFICES ASSUME IInv
             PROVE  FramesDoNotDependOnReads /\ NothingHeldBack
  OBVIOUS
<1>1. /\ input \in Seq(Symbols) /\ got \in Nat /\ got <= Len(input)
      /\ Len(buf) \in Nat /\ Len(buf) <= got /\ Start \in Nat /\ Start <= got
  BY InputsAssumption DEF IInv, TypeOK, Start
<1>2. /\ Frames \in Seq(Seq(Symbols))
      /\ Scanned(input)[Start] = Within(input, Start, Start, Frames)
  BY ScannedAtCut DEF IInv, CutAtTerminators
<1>3. Scanned(input)[Start] = [frames |-> Frames, line |-> <<>>, seen |-> 0]
  BY <1>1, <1>2, NothingBetween
<1>4. FramesDoNotDependOnReads
  <2>1. IsPrefix(Scanned(input)[Start].frames, Scanned(input)[got].frames)
    <3>1. Scanned(input)[Start].frames \in Seq(Seq(Symbols))
      BY <1>2, <1>3
    <3>2. Scanned(input)[Start].line \in Seq(Symbols)
      BY <1>3
    <3> QED
      BY <1>1, <3>1, <3>2, FramesGrow
  <2>2. Scanned(input)[Start].frames = Frames
    BY <1>3
  <2> QED
    BY <2>1, <2>2 DEF FramesDoNotDependOnReads, FramesOf
<1>5. NothingHeldBack
  <2> SUFFICES ASSUME pc = "read"
               PROVE  Frames = FramesOf(input, got)
    BY DEF NothingHeldBack
  <2>1. ASSUME NEW i \in Nat, Start < i, i + 3 <= got
        PROVE  ~ TerminatorAt(input, i)
    <3>1. PICK j \in Nat : i = Start + j
      <4>1. i - Start \in Nat /\ i = Start + (i - Start)
        BY <1>1, <2>1
      <4> QED
        BY <4>1
    <3>2. /\ j \in 1 .. Len(buf) /\ j + 1 \in 1 .. Len(buf)
          /\ j + 2 \in 1 .. Len(buf) /\ j + 3 \in 1 .. Len(buf) /\ j + 3 <= Len(buf)
      BY <1>1, <2>1, <3>1 DEF Start
    <3>3. i + 1 = Start + (j + 1) /\ i + 2 = Start + (j + 2) /\ i + 3 = Start + (j + 3)
      BY <1>1, <3>1
    <3>4. /\ input[i] = buf[j] /\ input[i + 1] = buf[j + 1]
          /\ input[i + 2] = buf[j + 2] /\ input[i + 3] = buf[j + 3]
      BY <3>1, <3>2, <3>3 DEF IInv, BufferIsRest
    <3>5. ~ TerminatorAt(buf, j)
      BY <3>2 DEF IInv, TakenBeforeReading
    <3> QED
      BY <3>2, <3>4, <3>5 DEF TerminatorAt
  <2>2. Scanned(input)[got] = Within(input, Start, got, Frames)
    BY <1>1, <1>2, <2>1, ScannedWithin
  <2> QED
    BY <2>2 DEF FramesOf, Within
<1> QED
  BY <1>4, <1>5

(* The invariant is one of the specification. *)
LEMMA Invariance == Spec => []IInv
<1>1. Init => IInv
  BY InitIInv
<1>2. IInv /\ [Next]_vars => IInv'
  BY ReadBytesKeepsIInv, QuietStepsKeepIInv, DecodeFrameKeepsIInv DEF Next
<1> QED
  BY <1>1, <1>2, PTL DEF Spec

(***************************************************************************)
(* The buffer holds no more than has been read, and decode returns no      *)
(* command but those of FtlCommand (ftl_codec.rs:8-15), an error or a      *)
(* panic.                                                                  *)
(***************************************************************************)
THEOREM CodecTypeCorrect == Spec => []TypeOK
<1>1. IInv => TypeOK
  BY DEF IInv
<1> QED
  BY <1>1, Invariance, PTL

(***************************************************************************)
(* For every input and every way to cut it into reads, decode returns the  *)
(* commands that the byte-by-byte automaton finds, in their order          *)
(* (ftl_codec.rs:39-42).                                                   *)
(***************************************************************************)
THEOREM CodecFramesDoNotDependOnReads == Spec => []FramesDoNotDependOnReads
BY FramesAreScanned, Invariance, PTL

(***************************************************************************)
(* When FramedRead goes to the socket (ftl_codec.rs:74-76), every command  *)
(* received in full has been returned.                                     *)
(***************************************************************************)
THEOREM CodecNothingHeldBack == Spec => []NothingHeldBack
<1>1. IInv => NothingHeldBack
  BY FramesAreScanned
<1> QED
  BY <1>1, Invariance, PTL
=============================================================================
