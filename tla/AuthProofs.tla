----------------------------- MODULE AuthProofs -----------------------------
(***************************************************************************)
(* What module Auth promises, for any configurations, any error texts and  *)
(* any limit on what is shown of them.                                     *)
(***************************************************************************)
EXTENDS Auth, WellFoundedInduction, TLAPS

-----------------------------------------------------------------------------
(***************************************************************************)
(* Numbers: the prover has no induction of its own                         *)
(***************************************************************************)

\* Every set of numbers has a least one.
LEMMA LeastNumber ==
    ASSUME NEW T, T \subseteq Nat, T # {}
    PROVE  \E m \in T : \A k \in T : m <= k
<1>1. \E m \in T : \A k \in T : ~(<<k, m>> \in OpToRel(<, Nat))
    BY NatLessThanWellFounded, WFMin
<1>2. PICK m \in T : \A k \in T : ~(<<k, m>> \in OpToRel(<, Nat))
    BY <1>1
<1>3. \A k \in T : ~(k < m)
    BY <1>2 DEF OpToRel
<1>4. QED
    BY <1>3

\* Induction, for a set in the place of a predicate.
LEMMA SetInduction ==
    ASSUME NEW S, 0 \in S, \A n \in Nat : n \in S => n + 1 \in S
    PROVE  Nat \subseteq S
<1> DEFINE T == Nat \ S
<1>1. SUFFICES ASSUME T # {} PROVE FALSE
    OBVIOUS
<1>2. PICK m \in T : \A k \in T : m <= k
    BY <1>1, LeastNumber
<1>3. m \in Nat /\ m # 0
    OBVIOUS
<1>4. m - 1 \in Nat /\ (m - 1) + 1 = m /\ ~(m <= m - 1)
    BY <1>3
<1>5. m - 1 \in S
    BY <1>2, <1>4
<1>6. QED
    BY <1>4, <1>5

\* Sums of a sequence of numbers exist, so what is defined by adding up is.
LEMMA SumExists ==
    ASSUME NEW a, NEW n \in Nat
    PROVE  \E w : w = [i \in 0 .. n |-> IF i = 0 THEN 0 ELSE w[i - 1] + a[i]]
<1> DEFINE P(w, m) == w = [i \in 0 .. m |-> IF i = 0 THEN 0 ELSE w[i - 1] + a[i]]
           S == {m \in Nat : \E w : P(w, m)}
<1>1. 0 \in S
    <2>1. P([i \in 0 .. 0 |-> 0], 0)
        OBVIOUS
    <2>2. QED
        BY <2>1
<1>2. ASSUME NEW m \in Nat, m \in S PROVE m + 1 \in S
    <2>1. PICK w : P(w, m)
        BY <1>2
    <2> DEFINE v == [i \in 0 .. m + 1 |-> IF i = m + 1 THEN w[m] + a[m + 1] ELSE w[i]]
    <2>2. ASSUME NEW i \in 0 .. m + 1
          PROVE  v[i] = IF i = 0 THEN 0 ELSE v[i - 1] + a[i]
        <3>1. CASE i = m + 1
            BY <3>1
        <3>2. CASE i # m + 1
            <4>1. i \in 0 .. m /\ w[i] = IF i = 0 THEN 0 ELSE w[i - 1] + a[i]
                BY <2>1, <3>2
            <4>2. i # 0 => i - 1 \in 0 .. m + 1 /\ i - 1 # m + 1
                BY <3>2
            <4>3. QED
                BY <3>2, <4>1, <4>2
        <3>3. QED
            BY <3>1, <3>2
    <2>3. P(v, m + 1)
        BY <2>2
    <2> HIDE DEF P, v
    <2>4. QED
        BY <2>3
<1>3. Nat \subseteq S
    <2> HIDE DEF S
    <2>1. QED
        BY <1>1, <1>2, SetInduction
<1>4. QED
    BY <1>3

-----------------------------------------------------------------------------
(***************************************************************************)
(* escapeBounded                                                           *)
(***************************************************************************)

\* Written and TextBytes are the recursive sums that they are written as.
LEMMA WrittenDef ==
    ASSUME NEW s \in Seq(Rune)
    PROVE  Written(s) = [i \in 0 .. Len(s) |->
               IF i = 0 THEN 0 ELSE Written(s)[i - 1] + Width(s[i])]
<1> DEFINE a == [i \in 1 .. Len(s) |-> Width(s[i])]
<1>0. Len(s) \in Nat /\ \A i \in 0 .. Len(s) : i # 0 => a[i] = Width(s[i])
    OBVIOUS
<1> HIDE DEF a
<1>1. PICK w : w = [i \in 0 .. Len(s) |-> IF i = 0 THEN 0 ELSE w[i - 1] + a[i]]
    BY <1>0, SumExists, Zenon
<1>2. w = [i \in 0 .. Len(s) |-> IF i = 0 THEN 0 ELSE w[i - 1] + Width(s[i])]
    BY <1>0, <1>1
<1>3. QED
    BY <1>2, Zenon DEF Written

LEMMA TextBytesDef ==
    ASSUME NEW t, Len(t) \in Nat
    PROVE  \E w : /\ w = [i \in 0 .. Len(t) |->
                            IF i = 0 THEN 0 ELSE w[i - 1] + Bytes(t[i])]
                  /\ TextBytes(t) = w[Len(t)]
<1> DEFINE a == [i \in 1 .. Len(t) |-> Bytes(t[i])]
           W == CHOOSE w : w = [i \in 0 .. Len(t) |->
                            IF i = 0 THEN 0 ELSE w[i - 1] + Bytes(t[i])]
<1>0. \A i \in 0 .. Len(t) : i # 0 => a[i] = Bytes(t[i])
    OBVIOUS
<1> HIDE DEF a
<1>1. PICK w : w = [i \in 0 .. Len(t) |-> IF i = 0 THEN 0 ELSE w[i - 1] + a[i]]
    BY SumExists, Zenon
<1>2. w = [i \in 0 .. Len(t) |-> IF i = 0 THEN 0 ELSE w[i - 1] + Bytes(t[i])]
    BY <1>0, <1>1
<1>3. W = [i \in 0 .. Len(t) |-> IF i = 0 THEN 0 ELSE W[i - 1] + Bytes(t[i])]
    BY <1>2, Zenon
<1>4. TextBytes(t) = W[Len(t)]
    BY Zenon DEF TextBytes
<1>5. QED
    BY <1>3, <1>4, Zenon

\* A decoded rune is a number, negative only for a byte that is no UTF-8.
LEMMA RuneType == ASSUME NEW r \in Rune PROVE r \in Int /\ (r # InvalidByte => r >= 0)
<1>1. InvalidByte = -1 /\ MaxRune \in Nat
    BY SMT DEF InvalidByte, MaxRune
<1>2. QED
    BY <1>1 DEF Rune

\* The guards of escapeBounded's switch exclude each other.
LEMMA EscapeCases ==
    ASSUME NEW r \in Rune
    PROVE  /\ Escape(r) \in {"x", "backslash", "u", "U", "raw"}
           /\ Escape(r) = "raw" => ~Unprintable(r) /\ r # Backslash
<1> DEFINE A == r = InvalidByte
           B == r = Backslash
           C == IsControl(r)
           D == IsBreak(r)
           E == IsFormat(r)
           F == r > Max16
<1>1. A => ~B /\ ~C /\ ~D /\ ~E
    BY SMT DEF IsControl, IsBreak, IsFormat, InvalidByte, Backslash
<1>2. B => ~C /\ ~D /\ ~E
    BY SMT DEF IsControl, IsBreak, IsFormat, Backslash
<1>3. C => ~D /\ ~E
    BY SMT DEF IsControl, IsBreak, IsFormat
<1>4. D => ~E
    BY SMT DEF IsBreak, IsFormat
<1>5. ASSUME ~A, ~B, ~C, ~D, ~E PROVE ~Unprintable(r)
    <2>1. r \in Int /\ r >= 0 /\ InvalidByte = -1
        BY <1>5, RuneType, SMT DEF InvalidByte
    <2>2. r >= 32 /\ r \notin 127 .. 159 /\ r \notin {8232, 8233}
        BY <1>5, <2>1, SMT DEF IsControl, IsBreak
    <2>3. /\ r \notin {1564, 8288, 65279}
          /\ r \notin 8203 .. 8207
          /\ r \notin 8234 .. 8238
          /\ r \notin 8294 .. 8297
          /\ r \notin 917504 .. 917631
        BY <1>5, <2>1, SMT DEF IsFormat
    <2>4. QED
        BY <2>1, <2>2, <2>3, SMT DEF Unprintable
<1>6. Escape(r) = CASE A -> "x" [] B -> "backslash" [] C -> "x" [] D -> "u"
                    [] E -> (IF F THEN "U" ELSE "u") [] OTHER -> "raw"
    BY Zenon DEF Escape
<1>7. (r # Backslash) <=> ~B
    OBVIOUS
<1> HIDE DEF A, B, C, D, E, F
<1>8. CASE A
    <2>1. Escape(r) = "x"
        BY <1>1, <1>6, <1>8, Zenon
    <2>2. QED
        BY <2>1
<1>9. CASE B
    <2>1. Escape(r) = "backslash"
        BY <1>1, <1>2, <1>6, <1>9, Zenon
    <2>2. QED
        BY <2>1
<1>10. CASE C
    <2>1. Escape(r) = "x"
        BY <1>1, <1>2, <1>3, <1>6, <1>10, Zenon
    <2>2. QED
        BY <2>1
<1>11. CASE D
    <2>1. Escape(r) = "u"
        BY <1>1, <1>2, <1>3, <1>4, <1>6, <1>11, Zenon
    <2>2. QED
        BY <2>1
<1>12. CASE E
    <2>1. Escape(r) = IF F THEN "U" ELSE "u"
        BY <1>1, <1>2, <1>3, <1>4, <1>6, <1>12, Zenon
    <2>2. QED
        BY <2>1
<1>13. CASE ~A /\ ~B /\ ~C /\ ~D /\ ~E
    <2>1. Escape(r) = "raw"
        BY <1>6, <1>13, Zenon
    <2>2. QED
        BY <1>7, <1>5, <1>13, <2>1
<1>14. QED
    BY <1>8, <1>9, <1>10, <1>11, <1>12, <1>13

\* utf8: a size.
LEMMA SizeType ==
    ASSUME NEW r
    PROVE  Size(r) \in Nat
<1> DEFINE A == r < \h80
           B == r \in \h80 .. \h7FF
           C == r \in \h800 .. Max16
<1>1. Size(r) = CASE A -> 1 [] B -> 2 [] C -> 3 [] OTHER -> 4
    BY Zenon DEF Size
<1> HIDE DEF A, B, C
<1>2. Size(r) \in {1, 2, 3, 4}
    BY <1>1, Zenon
<1>3. QED
    BY <1>2

\* What is counted for a rune is what is written for it.
LEMMA TokenBytes ==
    ASSUME NEW r \in Rune
    PROVE  Width(r) \in Nat /\ Bytes(<<Escape(r), r>>) = Width(r)
<1>1. Size(r) \in Nat
    BY SizeType
<1> DEFINE e == Escape(r)
<1>2. e \in {"x", "backslash", "u", "U", "raw"}
    BY EscapeCases
<1>3. <<e, r>>[1] = e /\ <<e, r>>[2] = r
    OBVIOUS
<1> HIDE DEF e
<1>4. Width(r) = CASE e = "x" -> 4
                   [] e = "backslash" -> 2
                   [] e = "u" -> 6
                   [] e = "U" -> 10
                   [] e = "raw" -> Size(r)
    BY Zenon DEF Width, e
<1>5. Bytes(<<e, r>>) = CASE e = "raw" -> Size(r)
                          [] e = "backslash" -> 2
                          [] e = "x" -> 4
                          [] e = "u" -> 6
                          [] e = "U" -> 10
    BY <1>3, Zenon DEF Bytes
<1>6. /\ e = "x" => Width(r) = 4 /\ Bytes(<<e, r>>) = 4
      /\ e = "backslash" => Width(r) = 2 /\ Bytes(<<e, r>>) = 2
      /\ e = "u" => Width(r) = 6 /\ Bytes(<<e, r>>) = 6
      /\ e = "U" => Width(r) = 10 /\ Bytes(<<e, r>>) = 10
      /\ e = "raw" => Width(r) = Size(r) /\ Bytes(<<e, r>>) = Size(r)
    BY <1>4, <1>5, Zenon
<1>7. Width(r) \in Nat /\ Bytes(<<e, r>>) = Width(r)
    BY <1>1, <1>2, <1>6
<1>8. QED
    BY <1>7 DEF e

\* b.Len() begins at 0 and is a number.
LEMMA WrittenType ==
    ASSUME NEW s \in Seq(Rune)
    PROVE  /\ Written(s)[0] = 0
           /\ \A i \in 0 .. Len(s) : Written(s)[i] \in Nat
<1> DEFINE W == Written(s)
           S == {i \in Nat : i <= Len(s) => W[i] \in Nat}
<1>1. Len(s) \in Nat /\ \A i \in 1 .. Len(s) : Width(s[i]) \in Nat
    <2>1. Len(s) \in Nat /\ \A i \in 1 .. Len(s) : s[i] \in Rune
        OBVIOUS
    <2>2. QED
        BY <2>1, TokenBytes
<1>2. \A i \in 0 .. Len(s) : W[i] = IF i = 0 THEN 0 ELSE W[i - 1] + Width(s[i])
    BY WrittenDef
<1> HIDE DEF W
<1>3. W[0] = 0 /\ 0 \in S
    BY <1>1, <1>2
<1>4. ASSUME NEW n \in Nat, n \in S PROVE n + 1 \in S
    <2>1. ASSUME n + 1 <= Len(s) PROVE W[n + 1] \in Nat
        <3>1. n + 1 \in 1 .. Len(s) /\ n + 1 \in 0 .. Len(s) /\ n + 1 # 0
            BY <1>1, <2>1
        <3>2. W[n] \in Nat
            BY <1>1, <1>4, <2>1
        <3>3. W[n + 1] = W[n] + Width(s[n + 1])
            BY <1>2, <3>1
        <3>4. QED
            BY <1>1, <3>1, <3>2, <3>3
    <2>2. QED
        BY <2>1
<1>5. Nat \subseteq S
    <2> HIDE DEF S
    <2>1. QED
        BY <1>3, <1>4, SetInduction
<1>6. QED
    BY <1>1, <1>3, <1>5 DEF W

\* The bytes of the first k runes, escaped, are b.Len() after k of them.
LEMMA TextBytesWritten ==
    ASSUME NEW s \in Seq(Rune), NEW k \in 0 .. Len(s), NEW t, Len(t) = k,
           \A i \in 1 .. k : t[i] = <<Escape(s[i]), s[i]>>
    PROVE  TextBytes(t) = Written(s)[k]
<1> DEFINE W == Written(s)
<1>1. k \in Nat /\ Len(t) \in Nat /\ Len(s) \in Nat
    OBVIOUS
<1>2. PICK w : /\ w = [i \in 0 .. Len(t) |->
                         IF i = 0 THEN 0 ELSE w[i - 1] + Bytes(t[i])]
               /\ TextBytes(t) = w[Len(t)]
    BY <1>1, TextBytesDef, Zenon
<1>3. \A i \in 0 .. k : w[i] = IF i = 0 THEN 0 ELSE w[i - 1] + Bytes(t[i])
    BY <1>2
<1>4. \A i \in 0 .. k : W[i] = IF i = 0 THEN 0 ELSE W[i - 1] + Width(s[i])
    BY <1>1, WrittenDef
<1>5. ASSUME NEW i \in 1 .. k PROVE Bytes(t[i]) = Width(s[i])
    <2>1. s[i] \in Rune
        BY <1>1
    <2>2. QED
        BY <2>1, TokenBytes
<1> DEFINE S == {i \in Nat : i <= k => w[i] = W[i]}
<1> HIDE DEF W
<1>6. 0 \in S
    BY <1>1, <1>3, <1>4
<1>7. ASSUME NEW n \in Nat, n \in S PROVE n + 1 \in S
    <2>1. ASSUME n + 1 <= k PROVE w[n + 1] = W[n + 1]
        <3>1. n + 1 \in 1 .. k /\ n + 1 \in 0 .. k /\ n + 1 # 0 /\ n + 1 - 1 = n
            BY <1>1, <2>1
        <3>2. w[n] = W[n]
            BY <1>1, <1>7, <2>1
        <3>3. w[n + 1] = w[n] + Bytes(t[n + 1])
            BY <1>3, <3>1
        <3>4. W[n + 1] = W[n] + Width(s[n + 1])
            BY <1>4, <3>1
        <3>5. QED
            BY <1>5, <3>1, <3>2, <3>3, <3>4
    <2>2. QED
        BY <2>1
<1>8. Nat \subseteq S
    <2> HIDE DEF S
    <2>1. QED
        BY <1>6, <1>7, SetInduction
<1>9. w[k] = W[k]
    BY <1>1, <1>8
<1>10. QED
    BY <1>2, <1>9 DEF W

\* The loop of escapeBounded stops somewhere, with no more than limit bytes and
\* before the first token that does not fit.
LEMMA KeptFits ==
    ASSUME NEW s \in Seq(Rune), NEW limit \in Nat
    PROVE  /\ Kept(s, limit) \in 0 .. Len(s)
           /\ Written(s)[Kept(s, limit)] <= limit
           /\ Kept(s, limit) < Len(s) => Written(s)[Kept(s, limit) + 1] > limit
<1> DEFINE W == Written(s)
           T == {i \in Nat : \/ i = Len(s)
                             \/ i < Len(s) /\ W[i + 1] > limit}
           P(i) == W[i] <= limit /\ (i < Len(s) => W[i + 1] > limit)
<1>1. Len(s) \in Nat /\ W[0] = 0 /\ \A i \in 0 .. Len(s) : W[i] \in Nat
    BY WrittenType
<1> HIDE DEF W
<1>2. PICK m \in T : \A k \in T : m <= k
    BY <1>1, LeastNumber
<1>3. m \in 0 .. Len(s) /\ (m < Len(s) => W[m + 1] > limit)
    BY <1>1
<1>4. W[m] <= limit
    <2>1. CASE m = 0
        BY <1>1, <2>1
    <2>2. CASE m # 0
        <3>1. m - 1 \in Nat /\ m - 1 < Len(s) /\ ~(m <= m - 1) /\ m - 1 + 1 = m
            BY <1>1, <1>3, <2>2
        <3>2. ~(W[m] > limit)
            BY <1>2, <3>1
        <3>3. QED
            BY <1>1, <1>3, <3>2
    <2>3. QED
        BY <2>1, <2>2
<1>5. \E i \in 0 .. Len(s) : P(i)
    BY <1>3, <1>4
<1>6. Kept(s, limit) = CHOOSE i \in 0 .. Len(s) : P(i)
    BY DEF Kept, W
<1> HIDE DEF P
<1>7. Kept(s, limit) \in 0 .. Len(s) /\ P(Kept(s, limit))
    BY <1>5, <1>6, Zenon
<1>8. QED
    BY <1>7 DEF P, W

\* What escapeBounded writes, of any text and for any limit, is as much of the
\* text as fits, from its beginning, with every unprintable rune escaped and no
\* escape or rune cut in half.
THEOREM EscapeIsFaithful ==
    ASSUME NEW s \in Seq(Rune), NEW limit \in Nat
    PROVE  Faithful(EscapeBounded(s, limit), limit)
<1> DEFINE k == Kept(s, limit)
           tok(i) == <<Escape(s[i]), s[i]>>
           t == [i \in 1 .. k |-> tok(i)]
           b == EscapeBounded(s, limit)
<1>1. /\ k \in 0 .. Len(s) /\ Len(s) \in Nat
      /\ Written(s)[k] <= limit
      /\ k < Len(s) => Written(s)[k + 1] > limit
    BY KeptFits
<1>2. b.raw = s /\ b.text = t /\ (b.truncated <=> k < Len(s))
    BY DEF EscapeBounded
<1> HIDE DEF k
<1>3. Len(t) = k /\ \A i \in 1 .. k : t[i] = tok(i)
    BY <1>1
<1>4. TextBytes(t) <= limit
    BY <1>1, <1>3, TextBytesWritten
<1>5. ASSUME NEW i \in 1 .. Len(t)
      PROVE  /\ t[i][2] = s[i]
             /\ t[i][1] = "raw" => ~Unprintable(s[i]) /\ s[i] # Backslash
    <2>1. s[i] \in Rune
        BY <1>1, <1>3
    <2>2. t[i][2] = s[i] /\ t[i][1] = Escape(s[i])
        BY <1>3
    <2>3. QED
        BY <2>1, <2>2, EscapeCases
<1>6. ASSUME k < Len(s)
      PROVE  TextBytes(Append(t, tok(k + 1))) > limit
    <2> DEFINE u == Append(t, tok(k + 1))
    <2>1. Len(u) = k + 1 /\ \A i \in 1 .. k + 1 : u[i] = tok(i)
        BY <1>1, <1>3
    <2>2. k + 1 \in 0 .. Len(s)
        BY <1>1, <1>6
    <2> HIDE DEF u, t
    <2>3. TextBytes(u) = Written(s)[k + 1]
        BY <2>1, <2>2, TextBytesWritten
    <2>4. QED
        BY <1>1, <1>6, <2>3 DEF u
<1>7. ASSUME k < Len(s)
      PROVE  TextBytes(Append(t, <<Escape(s[k + 1]), s[k + 1]>>)) > limit
    BY <1>6, <1>7
<1> HIDE DEF t, b
<1>8. Faithful(b, limit)
    <2>1. TextBytes(b.text) <= limit
        BY <1>2, <1>4
    <2>2. ASSUME NEW i \in 1 .. Len(b.text)
          PROVE  /\ b.text[i][2] = b.raw[i]
                 /\ b.text[i][1] = "raw" => ~Unprintable(b.raw[i]) /\ b.raw[i] # Backslash
        BY <1>2, <1>5
    <2>3. b.truncated <=> Len(b.text) < Len(b.raw)
        BY <1>2, <1>3
    <2>4. b.truncated =>
            TextBytes(Append(b.text, <<Escape(b.raw[Len(b.text) + 1]),
                                       b.raw[Len(b.text) + 1]>>)) > limit
        BY <1>2, <1>3, <1>7
    <2>5. QED
        BY <2>1, <2>2, <2>3, <2>4, Zenon DEF Faithful
<1>9. QED
    BY <1>8 DEF b
-----------------------------------------------------------------------------
(***************************************************************************)
(* The inductive invariant                                                 *)
(***************************************************************************)

\* Program points of fetchToken, of a dialed socket, and of a teardown that has
\* its results.
Fetching == {"nonce", "subscribe", "send", "wait", "deferred", "select"}
Dialing == {"handshake", "connect", "connecting"}
HasRead == {"stop", "close", "done"}

\* The CONNECT that a leg sends if it sends one.
OfferOf(l) ==
    [login |-> IF l = "credential" THEN User ELSE Token,
     plain |-> DialsPlain(cfg),
     tls |-> IF DialsPlain(cfg) THEN [name |-> NoName, min |-> 0]
             ELSE Hardened(Wanted(cfg)),
     beats |-> ResolveHeartBeat(cfg),
     bounded |-> l = "credential"]

Types ==
    /\ TypeOK
    /\ offer \in [Leg -> {NoOffer, OfferOf("credential"), OfferOf("durable")}]
    /\ \A l \in Leg : offer[l] \in {NoOffer, OfferOf(l)}

\* Which leg, error and token the caller has where it is; the durable leg is
\* begun only with the token, after a teardown that ended before ctx did.
Caller ==
    /\ pc \in Fetching => leg = "credential"
    /\ leg = "credential" /\ pc \notin {"select", "returned"} => tpc = "none"
    /\ pc = "select" => tpc # "none"
    /\ tpc = "none" => leg = "credential" /\ log = <<>> /\ wrapped = <<>> /\ ~left
    /\ tpc = "none" /\ pc # "deferred" => own = "none"
    /\ pc \in {"deferred", "select"} =>
          /\ err = own /\ err # "teardown"
          /\ err = "none" => token = Token
          /\ log = <<>> /\ wrapped = <<>> /\ ~left
    /\ pc # "returned" /\ pc \notin {"deferred", "select"} => err = "none"
    /\ leg = "durable" =>
          /\ token = Token /\ own = "none" /\ err # "teardown"
          /\ tpc = "done" /\ gotCtx = "live" /\ ~left

\* The socket of a leg that was not begun, that failed, or that is over.
Sockets ==
    /\ leg = "credential" => sock["durable"] = "none"
    /\ leg = "durable" => sock["credential"] = "closed"
    /\ leg = "credential" /\ pc = "dial" => sock["credential"] = "none"
    /\ tpc = "none" /\ pc = "returned" => sock["credential"] # "open"
    /\ sock["durable"] = "open" =>
          pc \in Dialing \/ (pc = "returned" /\ err = "none")

\* The legs' CONNECTs are sent in order, and a deadline is set during one only.
Offers ==
    /\ leg = "credential" => offer["durable"] = NoOffer
    /\ leg = "durable" \/ pc \in Fetching => offer["credential"] # NoOffer
    /\ pc = "connecting" => offer[leg] # NoOffer
    /\ armed \subseteq {leg}
    /\ pc # "connecting" => armed = {}

\* Who closes the credential socket: until stop() the AfterFunc is there to do
\* it; it is stopped only if ctx was live, and then Disconnect closed the socket
\* or there is a step error.
TeardownInv ==
    /\ closer = "none" <=> tpc = "none"
    /\ closer = "armed" => ctx = "live"
    /\ closer = "ran" => sock["credential"] = "closed"
    /\ closer = "stopped" => tpc \in {"close", "done"} /\ gotCtx = "live"
    /\ tpc \in {"close", "done"} => closer # "armed"
    /\ tpc = "read" /\ ctx = "live" => derr # NoErr \/ sock["credential"] = "closed"
    /\ tpc \notin HasRead => gotStep = <<>> /\ gotCtx = "live"
    /\ gotCtx # "live" => ctx # "live"
    /\ tpc \in HasRead =>
          /\ gotStep = JoinSteps(Bound(uerr), Bound(derr))
          /\ gotCtx = "live" /\ gotStep = <<>> => sock["credential"] = "closed"

\* What the deferred function of fetchToken made of the teardown.
Settled ==
    tpc # "none" /\ pc \notin {"deferred", "select"} =>
        /\ own # "none" => err = own
        /\ err = "teardown" => ctx # "live"
        /\ own = "none" /\ (left \/ gotCtx # "live") => err = "teardown"
        /\ ~left =>
              /\ tpc = "done"
              /\ err = "teardown" => wrapped = gotStep
              /\ err # "teardown" /\ gotStep # <<>> =>
                    log # <<>> /\ log[1].steps = gotStep
              /\ gotStep # <<>> /\ gotCtx = "live" => sock["credential"] = "closed"

\* Every error text on its way to the log is one that escapeBounded made.
Shown(steps) == \A i \in 1 .. Len(steps) : Faithful(steps[i], MaxStepErrLen)

Lines ==
    /\ Shown(gotStep)
    /\ Shown(wrapped)
    /\ log # <<>> => Shown(log[1].steps)

IInv ==
    /\ Types
    /\ Caller
    /\ Sockets
    /\ Offers
    /\ TeardownInv
    /\ Settled
    /\ Lines

-----------------------------------------------------------------------------
(***************************************************************************)
(* What the step errors become, and what a CONNECT says                    *)
(***************************************************************************)

\* The CONNECT of the credential leg has the user, that of the durable leg the
\* token, both over what the Config asks for.
LEMMA OfferIs ==
    ASSUME Types, Caller
    PROVE  Offer = OfferOf(leg) /\ OfferOf(leg) # NoOffer
<1>1. Offer = OfferOf(leg)
    BY DEF Types, TypeOK, Caller, Leg, Offer, OfferOf
<1>2. OfferOf(leg).login # NoOffer.login
    BY DEF OfferOf, NoOffer, User, Token
<1>3. QED
    BY <1>1, <1>2

\* A step error is bounded to one entry, no error to none.
LEMMA BoundIs ==
    /\ Bound(NoErr) = <<>>
    /\ \A t \in Texts : Bound(<<t>>) = <<EscapeBounded(t, MaxStepErrLen)>>
<1>1. Bound(NoErr) = <<>>
    BY DEF Bound, NoErr
<1>2. ASSUME NEW t \in Texts
      PROVE  Bound(<<t>>) = <<EscapeBounded(t, MaxStepErrLen)>>
    BY DEF Bound
<1>3. QED
    BY <1>1, <1>2

\* What \o makes of one entry or none.
LEMMA ConcatOne ==
    ASSUME NEW a, NEW b
    PROVE  /\ <<a>> \o <<>> = <<a>>
           /\ <<>> \o <<a>> = <<a>>
           /\ Len(<<a>> \o <<b>>) = 2
           /\ (<<a>> \o <<b>>)[1] = a
           /\ (<<a>> \o <<b>>)[2] = b
<1>1. <<a>> \o <<>> = <<a>> /\ <<>> \o <<a>> = <<a>>
    OBVIOUS
<1>2. ASSUME NEW S, a \in S, b \in S, NEW s, NEW t, s = <<a>>, t = <<b>>
      PROVE  Len(s \o t) = 2 /\ (s \o t)[1] = a /\ (s \o t)[2] = b
    BY <1>2
<1>3. QED
    <2>1. a \in {a, b} /\ b \in {a, b}
        OBVIOUS
    <2>2. QED
        BY <1>1, <1>2, <2>1, Zenon

\* The joined errors of the two steps: each is there, bounded, and nothing else.
LEMMA JoinShows ==
    ASSUME NEW u \in StepErrs, NEW d \in StepErrs
    PROVE  /\ Shown(JoinSteps(Bound(u), Bound(d)))
           /\ JoinSteps(Bound(u), Bound(d)) = <<>> => u = NoErr /\ d = NoErr
           /\ \A e \in {u, d} \ {NoErr} :
                 \E i \in 1 .. Len(JoinSteps(Bound(u), Bound(d))) :
                     JoinSteps(Bound(u), Bound(d))[i].raw = e[1]
<1> DEFINE B(t) == EscapeBounded(t, MaxStepErrLen)
<1>1. \A t \in Texts : Faithful(B(t), MaxStepErrLen) /\ B(t).raw = t
    <2>1. \A t \in Texts : Faithful(B(t), MaxStepErrLen)
        BY AuthAssumption, EscapeIsFaithful
    <2>2. \A t \in Texts : B(t).raw = t
        BY DEF EscapeBounded
    <2>3. QED
        BY <2>1, <2>2
<1>2. Bound(NoErr) = <<>> /\ \A t \in Texts : Bound(<<t>>) = <<B(t)>>
    BY BoundIs
<1> HIDE DEF B
<1>3. CASE u = NoErr /\ d = NoErr
    BY <1>2, <1>3 DEF JoinSteps, Shown, NoErr
<1>4. CASE d = NoErr /\ u # NoErr
    <2>1. PICK t \in Texts : u = <<t>>
        BY <1>4 DEF StepErrs
    <2>2. Bound(u) = <<B(t)>> /\ Bound(d) = <<>> /\ u[1] = t
        BY <1>2, <1>4, <2>1
    <2>3. JoinSteps(Bound(u), Bound(d)) = <<B(t)>>
        BY <2>2, ConcatOne, Zenon DEF JoinSteps
    <2>4. QED
        BY <1>1, <1>4, <2>2, <2>3 DEF Shown
<1>5. CASE u = NoErr /\ d # NoErr
    <2>1. PICK t \in Texts : d = <<t>>
        BY <1>5 DEF StepErrs
    <2>2. Bound(u) = <<>> /\ Bound(d) = <<B(t)>> /\ d[1] = t
        BY <1>2, <1>5, <2>1
    <2>3. JoinSteps(Bound(u), Bound(d)) = <<B(t)>>
        BY <2>2, ConcatOne, Zenon DEF JoinSteps
    <2>4. QED
        BY <1>1, <1>5, <2>2, <2>3 DEF Shown
<1>6. CASE u # NoErr /\ d # NoErr
    <2>1. PICK t \in Texts, v \in Texts : u = <<t>> /\ d = <<v>>
        BY <1>6 DEF StepErrs
    <2> DEFINE j == JoinSteps(Bound(u), Bound(d))
    <2>2. Bound(u) = <<B(t)>> /\ Bound(d) = <<B(v)>> /\ u[1] = t /\ d[1] = v
        BY <1>2, <2>1
    <2>3. j = <<B(t)>> \o <<B(v)>>
        BY <2>2 DEF JoinSteps
    <2> HIDE DEF j
    <2>4. Len(j) = 2 /\ j[1] = B(t) /\ j[2] = B(v)
        <3>1. ASSUME NEW x, NEW y, j = <<x>> \o <<y>>
              PROVE  Len(j) = 2 /\ j[1] = x /\ j[2] = y
            BY <3>1, ConcatOne, Zenon
        <3>2. QED
            BY <2>3, <3>1, Zenon
    <2>5. /\ Shown(j)
          /\ j # <<>>
          /\ \A e \in {u, d} : \E i \in 1 .. Len(j) : j[i].raw = e[1]
        BY <1>1, <2>2, <2>4 DEF Shown
    <2>6. QED
        BY <2>5 DEF j
<1>7. QED
    BY <1>3, <1>4, <1>5, <1>6

\* Who logs in.
LEMMA OfferFields ==
    ASSUME NEW l \in Leg
    PROVE  OfferOf(l).login = (IF l = "credential" THEN User ELSE Token)
BY DEF OfferOf

LEMMA InitInv == Init => IInv
<1> SUFFICES ASSUME Init PROVE IInv
    OBVIOUS
<1>1. Types
    BY OfferFields DEF Init, Types, TypeOK, Leg, CallerPc, TeardownPc, Errors,
       StepErrs, NoOffer
<1>2. Caller /\ Sockets /\ Offers /\ Settled
    BY DEF Init, Caller, Sockets, Offers, Settled, Fetching, Dialing, Leg
<1>3. TeardownInv
    BY DEF Init, TeardownInv, HasRead
<1>4. Lines
    BY DEF Init, Lines, Shown
<1>5. QED
    BY <1>1, <1>2, <1>3, <1>4 DEF IInv

LEMMA TypesStep ==
    ASSUME IInv, [Next]_vars
    PROVE  Types'
<1> USE DEF IInv, dialVars, resultVars, teardownVars
<1>1. CASE DialFails
    BY <1>1 DEF DialFails, Return, Types, TypeOK, OfferOf, CallerPc, Errors
<1>2. CASE DialOk
    BY <1>2 DEF DialOk, Types, TypeOK, OfferOf, CallerPc
<1>3. CASE HandshakeOk
    BY <1>3 DEF HandshakeOk, Types, TypeOK, OfferOf, CallerPc
<1>4. ASSUME NEW e \in {"timeout", "handshake"}, HandshakeFails(e)
      PROVE  Types'
    BY <1>4 DEF HandshakeFails, Return, Types, TypeOK, OfferOf, CallerPc,
       Errors
<1>5. CASE ConnectBegin
    BY <1>5, OfferIs DEF ConnectBegin, Types, TypeOK, OfferOf, CallerPc
<1>6. CASE ConnectOk
    BY <1>6 DEF ConnectOk, Types, TypeOK, OfferOf, CallerPc
<1>7. CASE ConnectFails
    BY <1>7 DEF ConnectFails, Return, Types, TypeOK, OfferOf, CallerPc, Errors
<1>8. CASE Nonce
    BY <1>8 DEF Nonce, Step, Types, TypeOK, OfferOf, CallerPc
<1>9. CASE Subscribe
    BY <1>9 DEF Subscribe, Step, Types, TypeOK, OfferOf, CallerPc
<1>10. CASE Send
    BY <1>10 DEF Send, Step, Types, TypeOK, OfferOf, CallerPc
<1>11. CASE StepFails
    BY <1>11 DEF StepFails, Leave, Types, TypeOK, OfferOf, CallerPc, Errors
<1>12. CASE WaitDone
    BY <1>12 DEF WaitDone, Leave, Types, TypeOK, OfferOf, CallerPc, Errors
<1>13. ASSUME NEW e \in {"none", "empty", "error", "closed"}, Answered(e)
      PROVE  Types'
    BY <1>13 DEF Answered, Leave, Types, TypeOK, OfferOf, CallerPc, Errors
<1>14. CASE EndBegin
    BY <1>14 DEF EndBegin, Types, TypeOK, OfferOf, CallerPc, TeardownPc
<1>15. CASE SettleDone
    BY <1>15 DEF SettleDone, Settle, Types, TypeOK, OfferOf, CallerPc, Errors,
       Leg
<1>16. CASE SettleLeft
    BY <1>16 DEF SettleLeft, Settle, Types, TypeOK, OfferOf, CallerPc, Errors,
       Leg
<1>17. CASE TeardownSkips \/ TeardownCalls
    <2>1. tpc' \in TeardownPc
        BY <1>17 DEF TeardownSkips, TeardownCalls, Teardown, TeardownPc
    <2>2. UNCHANGED <<cfg, ctx, pc, dialVars, sub, resultVars, uerr, derr,
                      gotStep, gotCtx, closer, own, left>>
        BY <1>17 DEF TeardownSkips, TeardownCalls, Teardown
    <2>3. QED
        BY <2>1, <2>2 DEF Types, TypeOK, OfferOf
<1>18. ASSUME NEW e \in StepErrs, UnsubscribeReturns(e) PROVE Types'
    BY <1>18 DEF UnsubscribeReturns, Teardown, Types, TypeOK, OfferOf,
       TeardownPc
<1>19. ASSUME NEW e \in StepErrs, DisconnectReturns(e) PROVE Types'
    BY <1>19 DEF DisconnectReturns, Teardown, Types, TypeOK, OfferOf,
       TeardownPc
<1>20. CASE TeardownReads
    BY <1>20 DEF TeardownReads, Teardown, Types, TypeOK, OfferOf, TeardownPc
<1>21. CASE TeardownStops
    BY <1>21 DEF TeardownStops, Teardown, Types, TypeOK, OfferOf, TeardownPc
<1>22. CASE TeardownDone
    BY <1>22 DEF TeardownDone, Teardown, Types, TypeOK, OfferOf, TeardownPc
<1>23. CASE CloserCloses
    BY <1>23 DEF CloserCloses, Types, TypeOK, OfferOf, Leg
<1>24. ASSUME NEW how \in {"cancelled", "expired"}, CtxEnds(how)
      PROVE  Types'
    BY <1>24 DEF CtxEnds, Types, TypeOK, OfferOf
<1>25. CASE UNCHANGED vars
    BY <1>25 DEF vars, Types, TypeOK, OfferOf
<1>26. QED
    BY <1>1, <1>2, <1>3, <1>4, <1>5, <1>6, <1>7, <1>8, <1>9, <1>10, <1>11,
       <1>12, <1>13, <1>14, <1>15, <1>16, <1>17, <1>18, <1>19, <1>20, <1>21,
       <1>22, <1>23, <1>24, <1>25 DEF Next, NetDial, StompConnect, FetchToken,
       Answer, TeardownStep

LEMMA CallerStep ==
    ASSUME IInv, [Next]_vars
    PROVE  Caller'
<1> USE DEF IInv, dialVars, resultVars, teardownVars
<1>1. CASE DialFails \/ DialOk \/ HandshakeOk
    BY <1>1 DEF DialFails, DialOk, HandshakeOk, Return, Caller, Fetching
<1>2. ASSUME NEW e \in {"timeout", "handshake"}, HandshakeFails(e)
      PROVE  Caller'
    BY <1>2 DEF HandshakeFails, Return, Caller, Fetching
<1>3. CASE ConnectBegin
    BY <1>3 DEF ConnectBegin, Caller, Fetching
<1>4. CASE ConnectOk
    BY <1>4 DEF ConnectOk, Caller, Fetching
<1>5. CASE ConnectFails
    BY <1>5 DEF ConnectFails, Return, Caller, Fetching
<1>6. CASE Nonce \/ Subscribe \/ Send
    BY <1>6 DEF Nonce, Subscribe, Send, Step, Caller, Fetching
<1>7. CASE StepFails \/ WaitDone
    BY <1>7 DEF StepFails, WaitDone, Leave, Caller, Fetching
<1>8. ASSUME NEW e \in {"none", "empty", "error", "closed"}, Answered(e)
      PROVE  Caller'
    BY <1>8 DEF Answered, Leave, Caller, Fetching
<1>9. CASE EndBegin
    BY <1>9 DEF EndBegin, Caller, Fetching
<1>10. CASE SettleDone
    BY <1>10 DEF SettleDone, Settle, CtxFails, Caller, Fetching
<1>11. CASE SettleLeft
    BY <1>11 DEF SettleLeft, Settle, CtxFails, Done, Caller, Fetching
<1>12. CASE TeardownSkips \/ TeardownCalls
    BY <1>12 DEF TeardownSkips, TeardownCalls, Teardown, Caller
<1>13. ASSUME NEW e \in StepErrs,
                UnsubscribeReturns(e) \/ DisconnectReturns(e)
      PROVE  Caller'
    BY <1>13 DEF UnsubscribeReturns, DisconnectReturns, Teardown, Caller
<1>14. CASE TeardownReads
    BY <1>14 DEF TeardownReads, Teardown, Caller
<1>15. CASE TeardownStops \/ TeardownDone
    BY <1>15 DEF TeardownStops, TeardownDone, Teardown, Caller
<1>16. CASE CloserCloses
    BY <1>16 DEF CloserCloses, Caller
<1>17. ASSUME NEW how \in {"cancelled", "expired"}, CtxEnds(how)
      PROVE  Caller'
    BY <1>17 DEF CtxEnds, Caller
<1>18. CASE UNCHANGED vars
    BY <1>18 DEF vars, Caller
<1>19. QED
    BY <1>1, <1>2, <1>3, <1>4, <1>5, <1>6, <1>7, <1>8, <1>9, <1>10, <1>11,
       <1>12, <1>13, <1>14, <1>15, <1>16, <1>17, <1>18 DEF Next, NetDial,
       StompConnect, FetchToken, Answer, TeardownStep

LEMMA SocketsStep ==
    ASSUME IInv, [Next]_vars
    PROVE  Sockets'
<1> USE DEF IInv, dialVars, resultVars, teardownVars
<1>1. CASE DialFails \/ DialOk \/ HandshakeOk
    BY <1>1 DEF DialFails, DialOk, HandshakeOk, Types, TypeOK, Sockets,
       Dialing, Leg
<1>2. ASSUME NEW e \in {"timeout", "handshake"}, HandshakeFails(e)
      PROVE  Sockets'
    BY <1>2 DEF HandshakeFails, Return, Types, TypeOK, Sockets, Leg
<1>3. CASE ConnectBegin
    BY <1>3 DEF ConnectBegin, Sockets, Dialing
<1>4. CASE ConnectOk
    BY <1>4 DEF ConnectOk, Caller, Sockets
<1>5. CASE ConnectFails
    BY <1>5 DEF ConnectFails, Return, Types, TypeOK, Sockets, Leg
<1>6. CASE Nonce \/ Subscribe \/ Send
    BY <1>6 DEF Nonce, Subscribe, Send, Step, Sockets, Dialing
<1>7. CASE StepFails \/ WaitDone
    BY <1>7 DEF StepFails, WaitDone, Leave, Sockets, Dialing
<1>8. ASSUME NEW e \in {"none", "empty", "error", "closed"}, Answered(e)
      PROVE  Sockets'
    BY <1>8 DEF Answered, Leave, Sockets, Dialing
<1>9. CASE EndBegin
    BY <1>9 DEF EndBegin, Sockets, Dialing
<1>10. CASE SettleDone
    BY <1>10 DEF SettleDone, Settle, MustClose, CtxFails, Types, TypeOK,
       Sockets, TeardownInv, HasRead, Dialing, Leg
<1>11. CASE SettleLeft
    BY <1>11 DEF SettleLeft, Settle, CtxFails, Done, Caller, Sockets, Fetching
<1>12. CASE TeardownSkips \/ TeardownCalls
    BY <1>12 DEF TeardownSkips, TeardownCalls, Teardown, Sockets
<1>13. ASSUME NEW e \in StepErrs,
                UnsubscribeReturns(e) \/ DisconnectReturns(e)
      PROVE  Sockets'
    BY <1>13 DEF UnsubscribeReturns, DisconnectReturns, Teardown, Types,
       TypeOK, Caller, Sockets, Leg
<1>14. CASE TeardownReads
    BY <1>14 DEF TeardownReads, Teardown, Sockets
<1>15. CASE TeardownStops \/ TeardownDone
    BY <1>15 DEF TeardownStops, TeardownDone, Teardown, Sockets
<1>16. CASE CloserCloses
    BY <1>16 DEF CloserCloses, Caller, Sockets, TeardownInv
<1>17. ASSUME NEW how \in {"cancelled", "expired"}, CtxEnds(how)
      PROVE  Sockets'
    BY <1>17 DEF CtxEnds, Sockets
<1>18. CASE UNCHANGED vars
    BY <1>18 DEF vars, Sockets
<1>19. QED
    BY <1>1, <1>2, <1>3, <1>4, <1>5, <1>6, <1>7, <1>8, <1>9, <1>10, <1>11,
       <1>12, <1>13, <1>14, <1>15, <1>16, <1>17, <1>18 DEF Next, NetDial,
       StompConnect, FetchToken, Answer, TeardownStep

LEMMA OffersStep ==
    ASSUME IInv, [Next]_vars
    PROVE  Offers'
<1> USE DEF IInv, dialVars, resultVars, teardownVars
<1>1. CASE DialFails \/ DialOk \/ HandshakeOk
    BY <1>1 DEF DialFails, DialOk, HandshakeOk, Return, Done, Offers, Fetching
<1>2. ASSUME NEW e \in {"timeout", "handshake"}, HandshakeFails(e)
      PROVE  Offers'
    BY <1>2 DEF HandshakeFails, Return, Offers, Fetching
<1>3. CASE ConnectBegin
    BY <1>3, OfferIs DEF ConnectBegin, Types, TypeOK, Offers, Leg
<1>4. CASE ConnectOk
    BY <1>4 DEF ConnectOk, Offers, Fetching
<1>5. CASE ConnectFails
    BY <1>5 DEF ConnectFails, Types, TypeOK, Offers, Leg
<1>6. CASE Nonce \/ Subscribe \/ Send
    BY <1>6 DEF Nonce, Subscribe, Send, Step, Offers, Fetching
<1>7. CASE StepFails \/ WaitDone
    BY <1>7 DEF StepFails, WaitDone, Leave, Done, Offers, Fetching
<1>8. ASSUME NEW e \in {"none", "empty", "error", "closed"}, Answered(e)
      PROVE  Offers'
    BY <1>8 DEF Answered, Caller, Offers, Fetching
<1>9. CASE EndBegin
    BY <1>9 DEF EndBegin, Offers, Fetching
<1>10. CASE SettleDone
    BY <1>10 DEF SettleDone, Settle, Offers, Fetching
<1>11. CASE SettleLeft
    BY <1>11 DEF SettleLeft, Settle, Offers, Fetching
<1>12. CASE TeardownSkips \/ TeardownCalls
    BY <1>12 DEF TeardownSkips, TeardownCalls, Teardown, Done, Offers
<1>13. ASSUME NEW e \in StepErrs,
                UnsubscribeReturns(e) \/ DisconnectReturns(e)
      PROVE  Offers'
    BY <1>13 DEF UnsubscribeReturns, DisconnectReturns, Teardown, Offers
<1>14. CASE TeardownReads
    BY <1>14 DEF TeardownReads, Teardown, Offers
<1>15. CASE TeardownStops \/ TeardownDone
    BY <1>15 DEF TeardownStops, TeardownDone, Teardown, Offers
<1>16. CASE CloserCloses
    BY <1>16 DEF CloserCloses, Offers
<1>17. ASSUME NEW how \in {"cancelled", "expired"}, CtxEnds(how)
      PROVE  Offers'
    BY <1>17 DEF CtxEnds, Offers
<1>18. CASE UNCHANGED vars
    BY <1>18 DEF vars, Offers
<1>19. QED
    BY <1>1, <1>2, <1>3, <1>4, <1>5, <1>6, <1>7, <1>8, <1>9, <1>10, <1>11,
       <1>12, <1>13, <1>14, <1>15, <1>16, <1>17, <1>18 DEF Next, NetDial,
       StompConnect, FetchToken, Answer, TeardownStep

LEMMA TeardownInvStep ==
    ASSUME IInv, [Next]_vars
    PROVE  TeardownInv'
<1> USE DEF IInv, dialVars, resultVars, teardownVars
<1>1. CASE DialFails \/ DialOk \/ HandshakeOk
    BY <1>1 DEF DialFails, DialOk, HandshakeOk, Types, TypeOK, Caller,
       TeardownInv, HasRead, Leg
<1>2. ASSUME NEW e \in {"timeout", "handshake"}, HandshakeFails(e)
      PROVE  TeardownInv'
    BY <1>2 DEF HandshakeFails, TeardownInv
<1>3. CASE ConnectBegin
    BY <1>3 DEF ConnectBegin, TeardownInv
<1>4. CASE ConnectOk
    BY <1>4 DEF ConnectOk, TeardownInv
<1>5. CASE ConnectFails
    BY <1>5 DEF ConnectFails, TeardownInv
<1>6. CASE Nonce \/ Subscribe \/ Send
    BY <1>6 DEF Nonce, Subscribe, Send, Step, TeardownInv
<1>7. CASE StepFails \/ WaitDone
    BY <1>7 DEF StepFails, WaitDone, TeardownInv
<1>8. ASSUME NEW e \in {"none", "empty", "error", "closed"}, Answered(e)
      PROVE  TeardownInv'
    BY <1>8 DEF Answered, TeardownInv
<1>9. CASE EndBegin
    BY <1>9 DEF EndBegin, Done, Caller, TeardownInv, HasRead, Fetching
<1>10. CASE SettleDone
    BY <1>10 DEF SettleDone, Settle, TeardownInv
<1>11. CASE SettleLeft
    BY <1>11 DEF SettleLeft, Settle, TeardownInv
<1>12. CASE TeardownSkips \/ TeardownCalls
    BY <1>12 DEF TeardownSkips, TeardownCalls, Teardown, Done, TeardownInv,
       HasRead
<1>13. ASSUME NEW e \in StepErrs,
                UnsubscribeReturns(e) \/ DisconnectReturns(e)
      PROVE  TeardownInv'
    BY <1>13 DEF UnsubscribeReturns, DisconnectReturns, Teardown, Types,
       TypeOK, TeardownInv, HasRead, Leg
<1>14. CASE TeardownReads
    BY <1>14, JoinShows DEF TeardownReads, Teardown, Types, TypeOK,
       TeardownInv, HasRead
<1>15. CASE TeardownStops \/ TeardownDone
    BY <1>15 DEF TeardownStops, TeardownDone, Teardown, TeardownInv, HasRead
<1>16. CASE CloserCloses
    BY <1>16 DEF CloserCloses, Types, TypeOK, TeardownInv, Leg
<1>17. ASSUME NEW how \in {"cancelled", "expired"}, CtxEnds(how)
      PROVE  TeardownInv'
    BY <1>17 DEF CtxEnds, TeardownInv
<1>18. CASE UNCHANGED vars
    BY <1>18 DEF vars, TeardownInv
<1>19. QED
    BY <1>1, <1>2, <1>3, <1>4, <1>5, <1>6, <1>7, <1>8, <1>9, <1>10, <1>11,
       <1>12, <1>13, <1>14, <1>15, <1>16, <1>17, <1>18 DEF Next, NetDial,
       StompConnect, FetchToken, Answer, TeardownStep

LEMMA SettledStep ==
    ASSUME IInv, [Next]_vars
    PROVE  Settled'
<1> USE DEF IInv, dialVars, resultVars, teardownVars
<1>1. CASE DialFails \/ DialOk \/ HandshakeOk
    BY <1>1 DEF DialFails, DialOk, HandshakeOk, Return, Types, TypeOK, Caller,
       Settled, Leg
<1>2. ASSUME NEW e \in {"timeout", "handshake"}, HandshakeFails(e)
      PROVE  Settled'
    BY <1>2 DEF HandshakeFails, Return, Caller, Settled
<1>3. CASE ConnectBegin
    BY <1>3 DEF ConnectBegin, Settled
<1>4. CASE ConnectOk
    BY <1>4 DEF ConnectOk, Settled
<1>5. CASE ConnectFails
    BY <1>5 DEF ConnectFails, Return, Caller, Settled
<1>6. CASE Nonce \/ Subscribe \/ Send
    BY <1>6 DEF Nonce, Subscribe, Send, Step, Settled
<1>7. CASE StepFails \/ WaitDone
    BY <1>7 DEF StepFails, WaitDone, Caller, Settled, Fetching
<1>8. ASSUME NEW e \in {"none", "empty", "error", "closed"}, Answered(e)
      PROVE  Settled'
    BY <1>8 DEF Answered, Caller, Settled, Fetching
<1>9. CASE EndBegin
    BY <1>9 DEF EndBegin, Settled
<1>10. CASE SettleDone
    BY <1>10 DEF SettleDone, Settle, MustClose, CtxFails, Types, TypeOK,
       Caller, TeardownInv, Settled, Fetching
<1>11. CASE SettleLeft
    BY <1>11 DEF SettleLeft, Settle, CtxFails, Done, Caller, Settled
<1>12. CASE TeardownSkips \/ TeardownCalls
    BY <1>12 DEF TeardownSkips, TeardownCalls, Teardown, Settled
<1>13. ASSUME NEW e \in StepErrs,
                UnsubscribeReturns(e) \/ DisconnectReturns(e)
      PROVE  Settled'
    BY <1>13 DEF UnsubscribeReturns, DisconnectReturns, Teardown, Settled
<1>14. CASE TeardownReads
    BY <1>14 DEF TeardownReads, Teardown, Settled
<1>15. CASE TeardownStops \/ TeardownDone
    BY <1>15 DEF TeardownStops, TeardownDone, Teardown, Settled
<1>16. CASE CloserCloses
    BY <1>16 DEF CloserCloses, Settled
<1>17. ASSUME NEW how \in {"cancelled", "expired"}, CtxEnds(how)
      PROVE  Settled'
    BY <1>17 DEF CtxEnds, Settled
<1>18. CASE UNCHANGED vars
    BY <1>18 DEF vars, Settled
<1>19. QED
    BY <1>1, <1>2, <1>3, <1>4, <1>5, <1>6, <1>7, <1>8, <1>9, <1>10, <1>11,
       <1>12, <1>13, <1>14, <1>15, <1>16, <1>17, <1>18 DEF Next, NetDial,
       StompConnect, FetchToken, Answer, TeardownStep

LEMMA LinesStep ==
    ASSUME IInv, [Next]_vars
    PROVE  Lines'
<1> USE DEF IInv, dialVars, resultVars, teardownVars
<1>1. CASE DialFails \/ DialOk \/ HandshakeOk
    BY <1>1 DEF DialFails, DialOk, HandshakeOk, Return, Lines
<1>2. ASSUME NEW e \in {"timeout", "handshake"}, HandshakeFails(e)
      PROVE  Lines'
    BY <1>2 DEF HandshakeFails, Return, Lines
<1>3. CASE ConnectBegin
    BY <1>3 DEF ConnectBegin, Lines
<1>4. CASE ConnectOk
    BY <1>4 DEF ConnectOk, Lines
<1>5. CASE ConnectFails
    BY <1>5 DEF ConnectFails, Return, Lines
<1>6. CASE Nonce \/ Subscribe \/ Send
    BY <1>6 DEF Nonce, Subscribe, Send, Step, Lines
<1>7. CASE StepFails \/ WaitDone
    BY <1>7 DEF StepFails, WaitDone, Leave, Lines
<1>8. ASSUME NEW e \in {"none", "empty", "error", "closed"}, Answered(e)
      PROVE  Lines'
    BY <1>8 DEF Answered, Leave, Lines
<1>9. CASE EndBegin
    BY <1>9 DEF EndBegin, Lines
<1>10. CASE SettleDone
    BY <1>10 DEF SettleDone, Settle, Lines
<1>11. CASE SettleLeft
    BY <1>11 DEF SettleLeft, Settle, Lines, Shown
<1>12. CASE TeardownSkips \/ TeardownCalls
    BY <1>12 DEF TeardownSkips, TeardownCalls, Teardown, Lines
<1>13. ASSUME NEW e \in StepErrs,
                UnsubscribeReturns(e) \/ DisconnectReturns(e)
      PROVE  Lines'
    BY <1>13 DEF UnsubscribeReturns, DisconnectReturns, Teardown, Lines
<1>14. CASE TeardownReads
    BY <1>14, JoinShows DEF TeardownReads, Teardown, Lines, Types, TypeOK
<1>15. CASE TeardownStops \/ TeardownDone
    BY <1>15 DEF TeardownStops, TeardownDone, Teardown, Lines
<1>16. CASE CloserCloses
    BY <1>16 DEF CloserCloses, Lines
<1>17. ASSUME NEW how \in {"cancelled", "expired"}, CtxEnds(how)
      PROVE  Lines'
    BY <1>17 DEF CtxEnds, Lines
<1>18. CASE UNCHANGED vars
    BY <1>18 DEF vars, Lines
<1>19. QED
    BY <1>1, <1>2, <1>3, <1>4, <1>5, <1>6, <1>7, <1>8, <1>9, <1>10, <1>11,
       <1>12, <1>13, <1>14, <1>15, <1>16, <1>17, <1>18 DEF Next, NetDial,
       StompConnect, FetchToken, Answer, TeardownStep

-----------------------------------------------------------------------------
(***************************************************************************)
(* Theorems                                                                *)
(***************************************************************************)

LEMMA InvHolds == Spec => []IInv
<1>1. IInv /\ [Next]_vars => IInv'
    BY TypesStep, CallerStep, SocketsStep, OffersStep, TeardownInvStep,
       SettledStep, LinesStep DEF IInv
<1>2. QED
    BY InitInv, <1>1, PTL DEF Spec

\* Every variable of Exchange, fetchToken and endCredentialConn has its type.
THEOREM TypeCorrect == Spec => []TypeOK
<1>1. IInv => TypeOK
    BY DEF IInv, Types
<1>2. QED
    BY InvHolds, <1>1, PTL

\* Once Exchange has returned and its goroutines are gone, no socket that it
\* dialed is open but that of the connection it returned, or in the one window
\* between stop() and close(done) of endCredentialConn.
THEOREM LeavesOnlyOverlooked == Spec => []OnlyOverlookedLeft
<1>1. IInv => OnlyOverlookedLeft
    <2> SUFFICES ASSUME IInv, Over
                 PROVE  /\ sock["durable"] = "open" => err = "none"
                        /\ sock["credential"] # "open" \/ Overlooked
        BY DEF OnlyOverlookedLeft
    <2>1. sock["durable"] = "open" => err = "none"
        BY DEF IInv, Sockets, Over, Dialing
    <2>2. CASE tpc = "none"
        BY <2>1, <2>2 DEF IInv, Sockets, Over
    <2>3. CASE tpc = "done" /\ closer = "ran"
        BY <2>1, <2>3 DEF IInv, TeardownInv
    <2>4. CASE tpc = "done" /\ closer = "stopped"
        <3>1. gotCtx = "live"
            BY <2>4 DEF IInv, TeardownInv
        <3>2. CASE gotStep = <<>>
            BY <2>1, <2>4, <3>1, <3>2 DEF IInv, TeardownInv, HasRead
        <3>3. CASE gotStep # <<>> /\ left
            BY <2>1, <3>1, <3>3 DEF Overlooked
        <3>4. CASE gotStep # <<>> /\ ~left
            BY <2>1, <2>4, <3>1, <3>4 DEF IInv, Settled, Over
        <3>5. QED
            BY <3>2, <3>3, <3>4
    <2>5. QED
        BY <2>2, <2>3, <2>4 DEF IInv, Types, TypeOK, TeardownInv, Over
<1>2. QED
    BY InvHolds, <1>1, PTL

\* For every Config: the durable leg of Exchange begins after the credential one
\* is closed, with the token, the same transport and heart-beats, and plaintext
\* only where the Config chose it.
THEOREM KeepsLegsInOrder == Spec => []LegsInOrder
<1>1. IInv => LegsInOrder
    <2> SUFFICES ASSUME IInv PROVE LegsInOrder
        OBVIOUS
    <2>1. sock["durable"] # "none" => sock["credential"] = "closed" /\ token = Token
        BY DEF IInv, Types, TypeOK, Caller, Sockets, Leg
    <2>2. ASSUME NEW l \in Leg, offer[l] # NoOffer
          PROVE  /\ offer[l].login = (IF l = "credential" THEN User ELSE Token)
                 /\ offer[l].plain => cfg.tls = <<>> /\ cfg.plain
                 /\ ~offer[l].plain /\ offer[l].tls.min < TLS12 => cfg.tls # <<>>
                 /\ 0 \in {offer[l].beats[1], offer[l].beats[2]} => cfg.hbs # <<>>
        <3>1. offer[l] = OfferOf(l)
            BY <2>2 DEF IInv, Types
        <3>2. /\ offer[l].login = (IF l = "credential" THEN User ELSE Token)
              /\ offer[l].plain = DialsPlain(cfg)
              /\ ~DialsPlain(cfg) => offer[l].tls = Hardened(Wanted(cfg))
              /\ offer[l].beats = ResolveHeartBeat(cfg)
            BY <3>1 DEF OfferOf
        <3>3. offer[l].plain => cfg.tls = <<>> /\ cfg.plain
            BY <3>2 DEF DialsPlain
        <3>4. ASSUME cfg.tls = <<>> PROVE Hardened(Wanted(cfg)).min = TLS12
            BY <3>4 DEF Hardened, Wanted
        <3>5. ASSUME cfg.hbs = <<>>
              PROVE  ResolveHeartBeat(cfg)[1] # 0 /\ ResolveHeartBeat(cfg)[2] # 0
            BY <3>5 DEF ResolveHeartBeat, DefaultHeartBeat
        <3>6. QED
            BY <3>2, <3>3, <3>4, <3>5 DEF TLS12
    <2>3. offer["durable"] # NoOffer =>
             /\ offer["durable"].tls = offer["credential"].tls
             /\ offer["durable"].beats = offer["credential"].beats
        BY DEF IInv, Types, TypeOK, Offers, OfferOf, Leg
    <2>4. pc # "connecting" => armed = {}
        BY DEF IInv, Offers
    <2>5. QED
        BY <2>1, <2>2, <2>3, <2>4, Zenon DEF LegsInOrder
<1>2. QED
    BY InvHolds, <1>1, PTL

\* fetchToken loses no step error of a teardown that it waited for, keeps its own
\* error, and gives up a token only when ctx ended.
THEOREM SettlesTeardown == Spec => []TeardownSettled
<1>1. IInv => TeardownSettled
    <2> SUFFICES ASSUME IInv, tpc # "none", pc \notin {"deferred", "select"}
                 PROVE  /\ own # "none" => err = own
                        /\ own = "none" /\ err = "teardown" => Done
                        /\ own = "none" /\ (left \/ gotCtx # "live") => err = "teardown"
                        /\ ~left /\ (uerr # NoErr \/ derr # NoErr) =>
                              LET steps == IF err = "teardown" THEN wrapped
                                           ELSE log[1].steps IN
                              \A e \in {uerr, derr} \ {NoErr} :
                                  \E i \in 1 .. Len(steps) : steps[i].raw = e[1]
        BY Zenon DEF TeardownSettled
    <2>1. /\ own # "none" => err = own
          /\ own = "none" /\ err = "teardown" => Done
          /\ own = "none" /\ (left \/ gotCtx # "live") => err = "teardown"
        BY DEF IInv, Settled, Done
    <2> DEFINE steps == IF err = "teardown" THEN wrapped ELSE log[1].steps
    <2>2. ASSUME ~left, uerr # NoErr \/ derr # NoErr
          PROVE  steps = JoinSteps(Bound(uerr), Bound(derr))
        <3>1. tpc = "done" /\ gotStep = JoinSteps(Bound(uerr), Bound(derr))
            BY <2>2 DEF IInv, Settled, TeardownInv, HasRead
        <3>2. gotStep # <<>>
            BY <2>2, <3>1, JoinShows DEF IInv, Types, TypeOK
        <3>3. QED
            BY <2>2, <3>1, <3>2 DEF IInv, Settled
    <2>3. \A e \in {uerr, derr} \ {NoErr} :
              \E i \in 1 .. Len(JoinSteps(Bound(uerr), Bound(derr))) :
                  JoinSteps(Bound(uerr), Bound(derr))[i].raw = e[1]
        BY JoinShows DEF IInv, Types, TypeOK
    <2> HIDE DEF steps
    <2>4. ~left /\ (uerr # NoErr \/ derr # NoErr) =>
              \A e \in {uerr, derr} \ {NoErr} :
                  \E i \in 1 .. Len(steps) : steps[i].raw = e[1]
        BY <2>2, <2>3, Zenon
    <2>5. QED
        BY <2>1, <2>4, Zenon DEF steps
<1>2. QED
    BY InvHolds, <1>1, PTL

\* Whatever the errors of Unsubscribe and Disconnect say, and whatever the limit,
\* what fetchToken logs or wraps is printable, within the limit, and the beginning
\* of what they said.
THEOREM LogLinesSafe == Spec => []LogLineSafe
<1>1. IInv => LogLineSafe
    BY DEF IInv, Lines, Shown, LogLineSafe
<1>2. QED
    BY InvHolds, <1>1, PTL
====
