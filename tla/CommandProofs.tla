---------------------------- MODULE CommandProofs ---------------------------
(***************************************************************************)
(* Proofs about what decode makes of the commands of the FTL handshake,    *)
(* for any words: its tests for substrings, and its splits.                *)
(***************************************************************************)
EXTENDS CodecProofs

(* Split runs symbol by symbol. *)
LEMMA SplitRuns ==
  ASSUME NEW s \in Seq(Symbols), NEW sep
  PROVE  \E g : /\ Split(s, sep) = g[Len(s)]
               /\ g[0] = << <<>> >>
               /\ \A n \in 1 .. Len(s) : g[n] = Divide(g[n - 1], s[n], sep)
<1> DEFINE start == << <<>> >>
           Runs(g, m) ==
             \A k \in 0 .. m : g[k] = IF k = 0 THEN start ELSE Divide(g[k - 1], s[k], sep)
           T == {m \in Nat : \E g : g = [k \in 0 .. m |-> g[k]] /\ Runs(g, m)}
<1> HIDE DEF start
<1>1. Len(s) \in Nat /\ 0 \in Nat /\ 0 <= Len(s)
  OBVIOUS
<1>2. 0 \in T
  <2> DEFINE g == [k \in 0 .. 0 |-> start]
  <2>1. g = [k \in 0 .. 0 |-> g[k]] /\ Runs(g, 0)
    OBVIOUS
  <2> QED
    BY <2>1
<1>3. ASSUME NEW m \in Nat, m \in T
      PROVE  m + 1 \in T
  <2>1. PICK g : g = [k \in 0 .. m |-> g[k]] /\ Runs(g, m)
    BY <1>3
  <2> DEFINE h == [k \in 0 .. m + 1 |-> IF k = m + 1 THEN Divide(g[m], s[m + 1], sep) ELSE g[k]]
  <2>2. h = [k \in 0 .. m + 1 |-> h[k]]
    OBVIOUS
  <2>3. ASSUME NEW k \in 0 .. m + 1
        PROVE  h[k] = IF k = 0 THEN start ELSE Divide(h[k - 1], s[k], sep)
    <3>1. CASE k = m + 1
      <4>1. h[k] = Divide(g[m], s[m + 1], sep) /\ h[k - 1] = g[m] /\ k # 0
        BY <3>1
      <4> QED
        BY <3>1, <4>1
    <3>2. CASE k = 0
      <4>1. h[k] = g[k] /\ k \in 0 .. m
        BY <3>2
      <4> QED
        BY <2>1, <3>2, <4>1
    <3>3. CASE k # 0 /\ k # m + 1
      <4>1. h[k] = g[k] /\ h[k - 1] = g[k - 1] /\ k \in 0 .. m
        BY <3>3
      <4> QED
        BY <2>1, <3>3, <4>1
    <3> QED
      BY <3>1, <3>2, <3>3
  <2> HIDE DEF h
  <2> QED
    BY <2>2, <2>3
<1> HIDE DEF T
<1>4. Len(s) \in T
  <2>1. \A m \in Nat : 0 <= m /\ m < Len(s) /\ m \in T => m + 1 \in T
    BY <1>3
  <2>2. \A m \in Nat : 0 <= m /\ m <= Len(s) => m \in T
    BY <1>1, <1>2, <2>1, Stepwise
  <2> QED
    BY <1>1, <2>2
<1> DEFINE Body(g) ==
             [k \in 0 .. Len(s) |-> IF k = 0 THEN start ELSE Divide(g[k - 1], s[k], sep)]
<1>5. \E g : g = Body(g)
  <2>1. PICK g : g = [k \in 0 .. Len(s) |-> g[k]] /\ Runs(g, Len(s))
    BY <1>4 DEF T
  <2>2. g = Body(g)
    BY <2>1
  <2> QED
    BY <2>2
<1> DEFINE after == CHOOSE g : g = Body(g)
<1>6. Split(s, sep) = after[Len(s)]
  BY DEF Split, start
<1>7. after = Body(after)
  BY <1>5
<1>8. \A n \in 0 .. Len(s) :
        Body(after)[n] = IF n = 0 THEN start ELSE Divide(after[n - 1], s[n], sep)
  OBVIOUS
<1> HIDE DEF Body, after
<1>9. after[0] = start /\ \A n \in 1 .. Len(s) : after[n] = Divide(after[n - 1], s[n], sep)
  BY <1>1, <1>7, <1>8
<1> QED
  BY <1>6, <1>9 DEF start


(* str::contains of one symbol. *)
LEMMA WordMentioned ==
  ASSUME NEW s \in Seq(Symbols), NEW x \in Symbols
  PROVE  Mentions(s, <<x>>) <=> \E i \in 1 .. Len(s) : s[i] = x
<1>1. ASSUME NEW i \in 1 .. Len(s)
      PROVE  SubSeq(s, i, i + Len(<<x>>) - 1) = <<x>> <=> s[i] = x
  <2>1. PICK a \in Nat : i = a + 1 /\ a + 1 <= Len(s)
    <3>1. i - 1 \in Nat /\ i = (i - 1) + 1 /\ (i - 1) + 1 <= Len(s)
      OBVIOUS
    <3> QED
      BY <3>1
  <2>2. i + Len(<<x>>) - 1 = a + 1
    <3>1. Len(<<x>>) = 1
      OBVIOUS
    <3> QED
      BY <2>1, <3>1
  <2>3. /\ SubSeq(s, a + 1, a + 1) \in Seq(Symbols) /\ Len(SubSeq(s, a + 1, a + 1)) = 1
        /\ \A j \in 1 .. 1 : SubSeq(s, a + 1, a + 1)[j] = s[a + j]
    BY <2>1, Window, 1 \in Nat
  <2>4. <<x>> \in Seq(Symbols) /\ Len(<<x>>) = 1 /\ <<x>>[1] = x
    OBVIOUS
  <2>5. SubSeq(s, a + 1, a + 1)[1] = s[a + 1]
    BY <2>3
  <2>6. \A j \in 1 .. 1 : j = 1
    OBVIOUS
  <2>7. ASSUME s[a + 1] = x
        PROVE  SubSeq(s, a + 1, a + 1) = <<x>>
    BY <2>3, <2>4, <2>5, <2>6, <2>7, SeqEqual
  <2> QED
    BY <2>1, <2>2, <2>4, <2>5, <2>7
<1>2. Len(s) - Len(<<x>>) + 1 = Len(s)
  OBVIOUS
<1> QED
  BY <1>1, <1>2 DEF Mentions, Positions

(* str::contains of two symbols in a row, as DISCONNECT is. *)
LEMMA PairMentioned ==
  ASSUME NEW s \in Seq(Symbols), NEW x \in Symbols, NEW y \in Symbols
  PROVE  Mentions(s, <<x, y>>) <=> \E i \in 1 .. Len(s) - 1 : s[i] = x /\ s[i + 1] = y
<1>1. ASSUME NEW i \in 1 .. Len(s) - 1
      PROVE  SubSeq(s, i, i + Len(<<x, y>>) - 1) = <<x, y>> <=> s[i] = x /\ s[i + 1] = y
  <2>1. PICK a \in Nat : i = a + 1 /\ a + 2 <= Len(s)
    <3>1. i - 1 \in Nat /\ i = (i - 1) + 1 /\ (i - 1) + 2 <= Len(s)
      OBVIOUS
    <3> QED
      BY <3>1
  <2>2. i + Len(<<x, y>>) - 1 = a + 2 /\ i + 1 = a + 2
    <3>1. Len(<<x, y>>) = 2
      OBVIOUS
    <3> QED
      BY <2>1, <3>1
  <2>3. /\ SubSeq(s, a + 1, a + 2) \in Seq(Symbols) /\ Len(SubSeq(s, a + 1, a + 2)) = 2
        /\ \A j \in 1 .. 2 : SubSeq(s, a + 1, a + 2)[j] = s[a + j]
    BY <2>1, Window, 2 \in Nat
  <2>4. /\ <<x, y>> \in Seq(Symbols) /\ Len(<<x, y>>) = 2
        /\ <<x, y>>[1] = x /\ <<x, y>>[2] = y
    OBVIOUS
  <2>5. SubSeq(s, a + 1, a + 2)[1] = s[a + 1] /\ SubSeq(s, a + 1, a + 2)[2] = s[a + 2]
    BY <2>3
  <2>6. \A j \in 1 .. 2 : j = 1 \/ j = 2
    OBVIOUS
  <2>7. ASSUME s[a + 1] = x, s[a + 2] = y
        PROVE  SubSeq(s, a + 1, a + 2) = <<x, y>>
    <3>1. \A j \in 1 .. 2 : SubSeq(s, a + 1, a + 2)[j] = <<x, y>>[j]
      BY <2>4, <2>5, <2>6, <2>7
    <3> QED
      BY <2>3, <2>4, <3>1, SeqEqual
  <2> QED
    BY <2>1, <2>2, <2>4, <2>5, <2>7
<1>2. Len(s) - Len(<<x, y>>) + 1 = Len(s) - 1
  OBVIOUS
<1> QED
  BY <1>1, <1>2 DEF Mentions, Positions

\* The symbols of a command decide what it is taken for.
LEMMA KindOfSymbols ==
  ASSUME NEW s \in Seq(Symbols)
  PROVE  Kind(s) =
           IF \E i \in 1 .. Len(s) : s[i] = "HMAC" THEN "HMAC"
           ELSE IF \E i \in 1 .. Len(s) - 1 : s[i] = "DIS" /\ s[i + 1] = "CONNECT"
             THEN "Disconnect"
           ELSE IF \E i \in 1 .. Len(s) : s[i] = "CONNECT" THEN "Connect"
           ELSE IF \E i \in 1 .. Len(s) : s[i] = ":" THEN "Attribute"
           ELSE IF s = <<".">> THEN "Dot"
           ELSE IF \E i \in 1 .. Len(s) : s[i] = "PING" THEN "Ping"
           ELSE "Unsupported"
<1>1. {"HMAC", "DIS", "CONNECT", ":", "PING"} \subseteq Symbols
  BY DEF Symbols, Special
<1>2. /\ Mentions(s, <<"HMAC">>) <=> \E i \in 1 .. Len(s) : s[i] = "HMAC"
      /\ Mentions(s, <<"CONNECT">>) <=> \E i \in 1 .. Len(s) : s[i] = "CONNECT"
      /\ Mentions(s, <<":">>) <=> \E i \in 1 .. Len(s) : s[i] = ":"
      /\ Mentions(s, <<"PING">>) <=> \E i \in 1 .. Len(s) : s[i] = "PING"
      /\ Mentions(s, <<"DIS", "CONNECT">>)
           <=> \E i \in 1 .. Len(s) - 1 : s[i] = "DIS" /\ s[i + 1] = "CONNECT"
  BY <1>1, WordMentioned, PairMentioned
<1> QED
  BY <1>2 DEF Kind

(* The elements of a command of three symbols. *)
LEMMA ThreeSymbols ==
  ASSUME NEW S, NEW a \in S, NEW b \in S, NEW c \in S
  PROVE  /\ <<a, b, c>> \in Seq(S) /\ Len(<<a, b, c>>) = 3
         /\ <<a, b, c>>[1] = a /\ <<a, b, c>>[2] = b /\ <<a, b, c>>[3] = c
<1>1. <<a, b, c>> \in Seq(S)
  OBVIOUS
<1>2. Len(<<a, b, c>>) = 3
  OBVIOUS
<1>3. <<a, b, c>>[1] = a /\ <<a, b, c>>[2] = b /\ <<a, b, c>>[3] = c
  OBVIOUS
<1> QED
  BY <1>1, <1>2, <1>3

(* The elements of a command of four symbols. *)
LEMMA FourSymbols ==
  ASSUME NEW S, NEW a \in S, NEW b \in S, NEW c \in S, NEW d \in S
  PROVE  /\ <<a, b, c, d>> \in Seq(S) /\ Len(<<a, b, c, d>>) = 4
         /\ <<a, b, c, d>>[1] = a /\ <<a, b, c, d>>[2] = b
         /\ <<a, b, c, d>>[3] = c /\ <<a, b, c, d>>[4] = d
<1>1. <<a, b, c, d>> \in Seq(S)
  OBVIOUS
<1>2. Len(<<a, b, c, d>>) = 4
  OBVIOUS
<1>3. <<a, b, c, d>>[1] = a /\ <<a, b, c, d>>[2] = b
  OBVIOUS
<1>4. <<a, b, c, d>>[3] = c /\ <<a, b, c, d>>[4] = d
  OBVIOUS
<1> QED
  BY <1>1, <1>2, <1>3, <1>4

(* The elements of a command of six symbols. *)
LEMMA SixSymbols ==
  ASSUME NEW S, NEW a \in S, NEW b \in S, NEW c \in S, NEW d \in S, NEW e \in S, NEW f \in S
  PROVE  /\ <<a, b, c, d, e, f>> \in Seq(S) /\ Len(<<a, b, c, d, e, f>>) = 6
         /\ <<a, b, c, d, e, f>>[1] = a /\ <<a, b, c, d, e, f>>[2] = b
         /\ <<a, b, c, d, e, f>>[3] = c /\ <<a, b, c, d, e, f>>[4] = d
         /\ <<a, b, c, d, e, f>>[5] = e /\ <<a, b, c, d, e, f>>[6] = f
<1>1. <<a, b, c, d, e, f>> \in Seq(S)
  OBVIOUS
<1>2. Len(<<a, b, c, d, e, f>>) = 6
  OBVIOUS
<1>3. <<a, b, c, d, e, f>>[1] = a /\ <<a, b, c, d, e, f>>[2] = b
  OBVIOUS
<1>4. <<a, b, c, d, e, f>>[3] = c /\ <<a, b, c, d, e, f>>[4] = d
  OBVIOUS
<1>5. <<a, b, c, d, e, f>>[5] = e /\ <<a, b, c, d, e, f>>[6] = f
  OBVIOUS
<1> QED
  BY <1>1, <1>2, <1>3, <1>4, <1>5

(* The commands of the handshake that carry nothing. *)
LEMMA PlainCommands ==
  /\ Kind(<<"HMAC">>) = "HMAC"
  /\ Kind(<<"DIS", "CONNECT">>) = "Disconnect"
  /\ Kind(<<".">>) = "Dot"
  /\ \A id \in Words : Kind(<<"PING", "SP", id>>) = "Ping"
<1>1. \A x \in Words : x \in Symbols /\ x \notin Special
  BY WordsAssumption DEF Symbols
<1>2. Special \subseteq Symbols
  BY DEF Symbols
<1>3. Kind(<<"HMAC">>) = "HMAC"
  <2> DEFINE s == <<"HMAC">>
  <2>1. "HMAC" \in Symbols
    BY <1>2 DEF Special
  <2>2. s \in Seq(Symbols) /\ Len(s) = 1 /\ s[1] = "HMAC" /\ 1 \in 1 .. 1
    BY <2>1
  <2> HIDE DEF s
  <2>3. Kind(s) = "HMAC"
    BY <2>2, KindOfSymbols
  <2> QED
    BY <2>3 DEF s
<1>4. Kind(<<"DIS", "CONNECT">>) = "Disconnect"
  <2> DEFINE s == <<"DIS", "CONNECT">>
  <2>1. "DIS" \in Symbols /\ "CONNECT" \in Symbols
    BY <1>2 DEF Special
  <2>2. s \in Seq(Symbols) /\ Len(s) = 2 /\ s[1] = "DIS" /\ s[2] = "CONNECT"
    BY <2>1
  <2>3. (\A i \in 1 .. 2 : i = 1 \/ i = 2) /\ 1 \in 1 .. 2 - 1 /\ 1 + 1 = 2
    OBVIOUS
  <2> HIDE DEF s
  <2>4. ~ \E i \in 1 .. Len(s) : s[i] = "HMAC"
    BY <2>2, <2>3
  <2>5. \E i \in 1 .. Len(s) - 1 : s[i] = "DIS" /\ s[i + 1] = "CONNECT"
    BY <2>2, <2>3
  <2>6. Kind(s) = "Disconnect"
    BY <2>2, <2>4, <2>5, KindOfSymbols
  <2> QED
    BY <2>6 DEF s
<1>5. Kind(<<".">>) = "Dot"
  <2> DEFINE s == <<".">>
  <2>1. "." \in Symbols
    BY <1>2 DEF Special
  <2>2. /\ s \in Seq(Symbols) /\ Len(s) = 1 /\ s[1] = "." /\ s = <<".">>
    BY <2>1
  <2>3. (\A i \in 1 .. 1 : i = 1) /\ (\A i \in 1 .. 1 - 1 : FALSE)
    OBVIOUS
  <2> HIDE DEF s
  <2>4. /\ \A i \in 1 .. Len(s) : s[i] = "."
        /\ \A i \in 1 .. Len(s) - 1 : FALSE
    BY <2>2, <2>3
  <2>5. Kind(s) = "Dot"
    BY <2>2, <2>4, KindOfSymbols
  <2> QED
    BY <2>5 DEF s
<1>6. ASSUME NEW id \in Words
      PROVE  Kind(<<"PING", "SP", id>>) = "Ping"
  <2> DEFINE s == <<"PING", "SP", id>>
  <2>1. "PING" \in Symbols /\ "SP" \in Symbols /\ id \in Symbols
    BY <1>1, <1>2 DEF Special
  <2>2. /\ s \in Seq(Symbols) /\ Len(s) = 3
        /\ s[1] = "PING" /\ s[2] = "SP" /\ s[3] = id
    BY <2>1, ThreeSymbols
  <2>3. (\A i \in 1 .. 3 : i = 1 \/ i = 2 \/ i = 3) /\ 1 \in 1 .. 3
    OBVIOUS
  <2>4. id \notin {"HMAC", "DIS", "CONNECT", ":"}
    BY <1>1 DEF Special
  <2>5. s # <<".">>
    <3>1. Len(<<".">>) = 1
      OBVIOUS
    <3> QED
      BY <2>2, <3>1
  <2> HIDE DEF s
  <2>6. \A i \in 1 .. Len(s) : s[i] \notin {"HMAC", "DIS", "CONNECT", ":"}
    BY <2>2, <2>3, <2>4
  <2>7. \A i \in 1 .. Len(s) - 1 : s[i] # "DIS"
    <3>1. \A i \in 1 .. 3 - 1 : i \in 1 .. 3
      OBVIOUS
    <3> QED
      BY <2>2, <2>6, <3>1
  <2>8. \E i \in 1 .. Len(s) : s[i] = "PING"
    BY <2>2, <2>3
  <2>9. Kind(s) = "Ping"
    BY <2>2, <2>5, <2>6, <2>7, <2>8, KindOfSymbols
  <2> QED
    BY <2>9 DEF s
<1> QED
  BY <1>3, <1>4, <1>5, <1>6

(* What an append leaves and adds. *)
LEMMA Appended ==
  ASSUME NEW S, NEW s \in Seq(S), NEW x \in S
  PROVE  /\ Append(s, x) \in Seq(S) /\ Len(Append(s, x)) = Len(s) + 1
         /\ \A i \in 1 .. Len(s) : Append(s, x)[i] = s[i]
         /\ Append(s, x)[Len(s) + 1] = x
BY AppendProperties

(* A field of two symbols, or a second field. *)
LEMMA AppendToOne ==
  ASSUME NEW x, NEW y
  PROVE  Append(<<x>>, y) = <<x, y>>
<1> DEFINE S == {x, y}
           s == <<x>>
           t == <<x, y>>
<1>1. s \in Seq(S) /\ Len(s) = 1 /\ s[1] = x /\ y \in S
  OBVIOUS
<1>2. t \in Seq(S) /\ Len(t) = 2 /\ t[1] = x /\ t[2] = y
  OBVIOUS
<1>3. (\A i \in 1 .. 2 : i = 1 \/ i = 2) /\ 1 \in 1 .. 1 /\ 1 + 1 = 2
  OBVIOUS
<1> HIDE DEF S, s, t
<1>4. /\ Append(s, y) \in Seq(S) /\ Len(Append(s, y)) = Len(s) + 1
      /\ \A i \in 1 .. Len(s) : Append(s, y)[i] = s[i]
      /\ Append(s, y)[Len(s) + 1] = y
  BY <1>1, Appended
<1>5. \A i \in 1 .. Len(t) : Append(s, y)[i] = t[i]
  BY <1>1, <1>2, <1>3, <1>4
<1>6. Append(s, y) = t
  BY <1>1, <1>2, <1>4, <1>5, SeqEqual
<1> QED
  BY <1>6 DEF s, t

(* A third field. *)
LEMMA AppendToTwo ==
  ASSUME NEW x, NEW y, NEW z
  PROVE  Append(<<x, y>>, z) = <<x, y, z>>
<1> DEFINE S == {x, y, z}
           s == <<x, y>>
           t == <<x, y, z>>
<1>1. s \in Seq(S) /\ Len(s) = 2 /\ s[1] = x /\ s[2] = y /\ z \in S
  OBVIOUS
<1>2. t \in Seq(S) /\ Len(t) = 3 /\ t[1] = x /\ t[2] = y /\ t[3] = z
  OBVIOUS
<1>3. /\ \A i \in 1 .. 3 : i = 1 \/ i = 2 \/ i = 3
      /\ 2 + 1 = 3
      /\ 1 \in 1 .. 2 /\ 2 \in 1 .. 2
  OBVIOUS
<1> HIDE DEF S, s, t
<1>4. /\ Append(s, z) \in Seq(S) /\ Len(Append(s, z)) = Len(s) + 1
      /\ \A i \in 1 .. Len(s) : Append(s, z)[i] = s[i]
      /\ Append(s, z)[Len(s) + 1] = z
  BY <1>1, Appended
<1>5. \A i \in 1 .. Len(t) : Append(s, z)[i] = t[i]
  BY <1>1, <1>2, <1>3, <1>4
<1>6. Append(s, z) = t
  BY <1>1, <1>2, <1>4, <1>5, SeqEqual
<1> QED
  BY <1>6 DEF s, t

(***************************************************************************)
(* A separator begins another field; any other symbol is added to the last *)
(* one (str::split).                                                       *)
(***************************************************************************)
LEMMA FieldBegins ==
  ASSUME NEW a, NEW b, NEW sep
  PROVE  /\ Divide(<<a>>, sep, sep) = <<a, <<>> >>
         /\ Divide(<<a, b>>, sep, sep) = <<a, b, <<>> >>
<1>1. /\ Divide(<<a>>, sep, sep) = Append(<<a>>, <<>>)
      /\ Divide(<<a, b>>, sep, sep) = Append(<<a, b>>, <<>>)
  BY DEF Divide
<1> QED
  BY <1>1, AppendToOne, AppendToTwo

(* Any other symbol is the first of a field. *)
LEMMA FieldGrows ==
  ASSUME NEW a, NEW x, NEW sep, x # sep
  PROVE  /\ Divide(<< <<>> >>, x, sep) = << <<x>> >>
         /\ Divide(<<a, <<>> >>, x, sep) = <<a, <<x>> >>
<1>1. Append(<<>>, x) = <<x>>
  OBVIOUS
<1>2. Divide(<< <<>> >>, x, sep) = << <<x>> >>
  BY <1>1 DEF Divide
<1>3. Divide(<<a, <<>> >>, x, sep) = <<a, <<x>> >>
  BY <1>1 DEF Divide
<1> QED
  BY <1>2, <1>3

(* It may be the first of a third field. *)
LEMMA ThirdFieldGrows ==
  ASSUME NEW a, NEW b, NEW x, NEW sep, x # sep
  PROVE  Divide(<<a, b, <<>> >>, x, sep) = <<a, b, <<x>> >>
<1>1. Append(<<>>, x) = <<x>>
  OBVIOUS
<1> QED
  BY <1>1 DEF Divide

(* It may be the second of it. *)
LEMMA FieldGrowsOn ==
  ASSUME NEW a, NEW b, NEW x, NEW y, NEW sep, y # sep
  PROVE  Divide(<<a, b, <<x>> >>, y, sep) = <<a, b, <<x, y>> >>
<1>1. Append(<<x>>, y) = <<x, y>>
  BY AppendToOne
<1>2. \A c : Divide(<<a, b, c>>, y, sep) = <<a, b, Append(c, y)>>
  BY DEF Divide
<1> QED
  BY <1>1, <1>2

(***************************************************************************)
(* An attribute is split at its colon, and its value trimmed               *)
(* (ftl_codec.rs:57-62).                                                   *)
(***************************************************************************)
LEMMA AttributeUnderstood ==
  ASSUME NEW name \in Words, NEW value \in Words
  PROVE  Item(<<name, ":", "SP", value>>)
           = [frame |-> <<name, ":", "SP", value>>, kind |-> "Attribute",
              data |-> << <<name>>, <<value>> >>]
<1> DEFINE s == <<name, ":", "SP", value>>
<1>1. name \in Symbols \ Special /\ value \in Symbols \ Special
  BY WordsAssumption DEF Symbols
<1>2. ":" \in Symbols /\ "SP" \in Symbols /\ ":" \in Special /\ "SP" \in Special
  BY DEF Symbols, Special
<1>3. /\ s \in Seq(Symbols) /\ Len(s) = 4
      /\ s[1] = name /\ s[2] = ":" /\ s[3] = "SP" /\ s[4] = value
  BY <1>1, <1>2, FourSymbols
<1>4. \A i \in 1 .. 4 : i = 1 \/ i = 2 \/ i = 3 \/ i = 4
  OBVIOUS
<1>5. /\ name \notin {"HMAC", "DIS", "CONNECT", ":"}
      /\ value \notin {"HMAC", "DIS", "CONNECT", ":"}
  BY <1>1 DEF Special
<1> HIDE DEF s
<1>6. Kind(s) = "Attribute"
  <2>1. \A i \in 1 .. Len(s) : s[i] \notin {"HMAC", "DIS", "CONNECT"}
    BY <1>3, <1>4, <1>5
  <2>2. \A i \in 1 .. Len(s) - 1 : i \in 1 .. Len(s)
    BY <1>3
  <2>3. \E i \in 1 .. Len(s) : s[i] = ":"
    BY <1>3, 2 \in 1 .. 4
  <2> QED
    BY <1>3, <2>1, <2>2, <2>3, KindOfSymbols
<1>7. Split(s, ":") = << <<name>>, <<"SP", value>> >>
  <2>1. PICK g : /\ Split(s, ":") = g[Len(s)] /\ g[0] = << <<>> >>
                 /\ \A n \in 1 .. Len(s) : g[n] = Divide(g[n - 1], s[n], ":")
    BY <1>3, SplitRuns
  <2>2. /\ g[1] = Divide(g[0], s[1], ":") /\ g[2] = Divide(g[1], s[2], ":")
        /\ g[3] = Divide(g[2], s[3], ":") /\ g[4] = Divide(g[3], s[4], ":")
    BY <1>3, <2>1
  <2>3. g[1] = << <<name>> >>
    BY <1>3, <1>5, <2>1, <2>2 DEF Divide
  <2>4. g[2] = << <<name>>, <<>> >>
    BY <1>3, <2>2, <2>3 DEF Divide
  <2>5. g[3] = << <<name>>, <<"SP">> >>
    BY <1>3, <2>2, <2>4 DEF Divide
  <2>6. g[4] = << <<name>>, <<"SP", value>> >>
    BY <1>3, <1>5, <2>2, <2>5 DEF Divide
  <2> QED
    BY <1>3, <2>1, <2>6
<1>8. Trim(<<"SP", value>>) = <<value>>
  <2> DEFINE t == <<"SP", value>>
             ink == {i \in DOMAIN t : t[i] \notin {"SP", "CR", "LF"}}
  <2>1. t \in Seq(Symbols) /\ Len(t) = 2 /\ t[1] = "SP" /\ t[2] = value /\ DOMAIN t = 1 .. 2
    BY <1>1, <1>2
  <2>2. value \notin {"SP", "CR", "LF"}
    BY <1>1 DEF Special
  <2>3. ink = {2}
    <3> HIDE DEF t
    <3>1. \A i \in 1 .. 2 : i = 1 \/ i = 2
      OBVIOUS
    <3> QED
      BY <2>1, <2>2, <3>1
  <2>4. Min({2}) = 2 /\ Max({2}) = 2
    BY DEF Min, Max
  <2>5. SubSeq(t, 2, 2) = <<value>>
    <3> HIDE DEF t
    <3>1. /\ SubSeq(t, 1 + 1, 1 + 1) \in Seq(Symbols) /\ Len(SubSeq(t, 1 + 1, 1 + 1)) = 1
          /\ \A i \in 1 .. 1 : SubSeq(t, 1 + 1, 1 + 1)[i] = t[1 + i]
      BY <2>1, Window, 1 \in Nat, 1 + 1 <= 2
    <3>2. /\ SubSeq(t, 2, 2)[1] = value /\ Len(SubSeq(t, 2, 2)) = 1
          /\ SubSeq(t, 2, 2) \in Seq(Symbols)
      BY <2>1, <3>1, 1 + 1 = 2
    <3>3. <<value>> \in Seq(Symbols) /\ Len(<<value>>) = 1 /\ <<value>>[1] = value
      BY <1>1
    <3>4. \A i \in 1 .. 1 : SubSeq(t, 2, 2)[i] = <<value>>[i]
      BY <3>2, <3>3
    <3> QED
      BY <3>2, <3>3, <3>4, SeqEqual
  <2> QED
    BY <2>3, <2>4, <2>5 DEF Trim
<1>9. Data(s) = << <<name>>, <<value>> >>
  BY <1>6, <1>7, <1>8 DEF Data
<1>10. Item(s) = [frame |-> s, kind |-> "Attribute", data |-> << <<name>>, <<value>> >>]
  BY <1>6, <1>9 DEF Item
<1> QED
  BY <1>10 DEF s

(***************************************************************************)
(* A CONNECT is split at its spaces, and the key loses its first character *)
(* (ftl_codec.rs:49-56).                                                   *)
(***************************************************************************)
LEMMA ConnectUnderstood ==
  ASSUME NEW id \in Words, NEW mark \in Words, NEW key \in Words
  PROVE  Item(<<"CONNECT", "SP", id, "SP", mark, key>>)
           = [frame |-> <<"CONNECT", "SP", id, "SP", mark, key>>, kind |-> "Connect",
              data |-> << <<id>>, <<key>> >>]
<1> DEFINE s == <<"CONNECT", "SP", id, "SP", mark, key>>
<1>1. /\ id \in Symbols \ Special /\ mark \in Symbols \ Special
      /\ key \in Symbols \ Special
  BY WordsAssumption DEF Symbols
<1>2. "CONNECT" \in Symbols /\ "SP" \in Symbols /\ "SP" \in Special
  BY DEF Symbols, Special
<1>3. /\ s \in Seq(Symbols) /\ Len(s) = 6
      /\ s[1] = "CONNECT" /\ s[2] = "SP" /\ s[3] = id
      /\ s[4] = "SP" /\ s[5] = mark /\ s[6] = key
  BY <1>1, <1>2, SixSymbols
<1>4. \A i \in 1 .. 6 : i = 1 \/ i = 2 \/ i = 3 \/ i = 4 \/ i = 5 \/ i = 6
  OBVIOUS
<1>5. /\ id \notin {"HMAC", "DIS", "SP"} /\ mark \notin {"HMAC", "DIS", "SP"}
      /\ key \notin {"HMAC", "DIS", "SP"}
  BY <1>1 DEF Special
<1> HIDE DEF s
<1>6. Kind(s) = "Connect"
  <2>1. \A i \in 1 .. Len(s) : s[i] \notin {"HMAC", "DIS"}
    BY <1>3, <1>4, <1>5
  <2>2. \A i \in 1 .. Len(s) - 1 : i \in 1 .. Len(s)
    BY <1>3
  <2>3. \E i \in 1 .. Len(s) : s[i] = "CONNECT"
    BY <1>3, 1 \in 1 .. 6
  <2> QED
    BY <2>1, <2>2, <2>3, <1>3, KindOfSymbols
<1>7. Split(s, "SP") = << <<"CONNECT">>, <<id>>, <<mark, key>> >>
  <2>1. PICK g : /\ Split(s, "SP") = g[Len(s)] /\ g[0] = << <<>> >>
                 /\ \A n \in 1 .. Len(s) : g[n] = Divide(g[n - 1], s[n], "SP")
    BY <1>3, SplitRuns
  <2>2. /\ g[1] = Divide(<< <<>> >>, "CONNECT", "SP")
        /\ g[2] = Divide(g[1], "SP", "SP")
        /\ g[3] = Divide(g[2], id, "SP")
        /\ g[4] = Divide(g[3], "SP", "SP")
        /\ g[5] = Divide(g[4], mark, "SP")
        /\ g[6] = Divide(g[5], key, "SP")
    <3>1. \A n \in 1 .. 6 : g[n] = Divide(g[n - 1], s[n], "SP")
      BY <1>3, <2>1
    <3> QED
      BY <1>3, <2>1, <3>1
  <2>3. g[1] = << <<"CONNECT">> >>
    BY <2>2, FieldGrows, "CONNECT" # "SP"
  <2>4. g[2] = << <<"CONNECT">>, <<>> >>
    BY <2>2, <2>3, FieldBegins
  <2>5. g[3] = << <<"CONNECT">>, <<id>> >>
    <3>1. g[3] = Divide(<< <<"CONNECT">>, <<>> >>, id, "SP") /\ id # "SP"
      BY <1>5, <2>2, <2>4
    <3> QED
      BY <3>1, FieldGrows
  <2>6. g[4] = << <<"CONNECT">>, <<id>>, <<>> >>
    BY <2>2, <2>5, FieldBegins
  <2>7. g[5] = << <<"CONNECT">>, <<id>>, <<mark>> >>
    <3>1. /\ g[5] = Divide(<< <<"CONNECT">>, <<id>>, <<>> >>, mark, "SP")
          /\ mark # "SP"
      BY <1>5, <2>2, <2>6
    <3> QED
      BY <3>1, ThirdFieldGrows
  <2>8. g[6] = << <<"CONNECT">>, <<id>>, <<mark, key>> >>
    BY <1>5, <2>2, <2>7, FieldGrowsOn
  <2> QED
    BY <1>3, <2>1, <2>8
<1>8. ~ ConnectPanics(s)
  <2>1. /\ Len(<< <<"CONNECT">>, <<id>>, <<mark, key>> >>) = 3
        /\ << <<"CONNECT">>, <<id>>, <<mark, key>> >>[3] = <<mark, key>>
        /\ <<mark, key>> # <<>>
    OBVIOUS
  <2> QED
    BY <1>7, <2>1 DEF ConnectPanics
<1>9. Data(s) = << <<id>>, <<key>> >>
  <2>1. Tail(<<mark, key>>) = <<key>>
    OBVIOUS
  <2>2. Split(s, "SP")[2] = <<id>> /\ Split(s, "SP")[3] = <<mark, key>>
    BY <1>7
  <2> QED
    BY <1>6, <2>1, <2>2 DEF Data
<1>10. Item(s) = [frame |-> s, kind |-> "Connect", data |-> << <<id>>, <<key>> >>]
  BY <1>6, <1>8, <1>9 DEF Item
<1> QED
  BY <1>10 DEF s

(* decode takes every command of the handshake for what it is. *)
LEMMA HandshakeUnderstood == \A command \in Handshake : Item(command.frame) = command
<1> SUFFICES ASSUME NEW command \in Handshake
             PROVE  Item(command.frame) = command
  OBVIOUS
<1>1. CASE command \in {[frame |-> <<"HMAC">>, kind |-> "HMAC", data |-> <<>>],
                        [frame |-> <<"DIS", "CONNECT">>, kind |-> "Disconnect", data |-> <<>>],
                        [frame |-> <<".">>, kind |-> "Dot", data |-> <<>>]}
  BY <1>1, PlainCommands DEF Item, Data
<1>2. CASE command \in {[frame |-> <<"PING", "SP", id>>,
                         kind |-> "Ping", data |-> <<>>] : id \in Words}
  BY <1>2, PlainCommands DEF Item, Data
<1>3. CASE command \in {[frame |-> <<"CONNECT", "SP", id, "SP", mark, key>>, kind |-> "Connect",
                         data |-> << <<id>>, <<key>> >>] : id, mark, key \in Words}
  BY <1>3, ConnectUnderstood
<1>4. CASE command \in {[frame |-> <<name, ":", "SP", value>>, kind |-> "Attribute",
                         data |-> << <<name>>, <<value>> >>] : name, value \in Words}
  BY <1>4, AttributeUnderstood
<1> QED
  BY <1>1, <1>2, <1>3, <1>4 DEF Handshake

(***************************************************************************)
(* Whatever came before it, a well-formed command of the handshake is      *)
(* returned with its kind and its data (ftl_codec.rs:43-69): no test for a *)
(* substring hides another.                                                *)
(***************************************************************************)
THEOREM CodecCommandsAreUnderstood == Spec => []CommandsAreUnderstood
<1>1. IInv => CommandsAreUnderstood
  <2> SUFFICES ASSUME IInv, NEW i \in DOMAIN items, NEW command \in Handshake,
                      items[i].frame = command.frame
               PROVE  items[i] = command
    BY DEF CommandsAreUnderstood
  <2>1. PICK f \in Seq(Symbols) : items[i] = Item(f)
    <3>1. items[i] \in {Item(f) : f \in Seq(Symbols)}
      BY DEF IInv, ItemsMade
    <3> QED
      BY <3>1
  <2>2. f = command.frame
    BY <2>1, ItemKind
  <2> QED
    BY <2>1, <2>2, HandshakeUnderstood
<1> QED
  BY <1>1, Invariance, PTL
=============================================================================
