-------------------------- MODULE StoreBootProofs ---------------------------
(***************************************************************************)
(* Proofs about StoreBoot, for any processes, keys and values, any initial *)
(* data and any order of starts, writes and crashes.                       *)
(*                                                                         *)
(* The argument: while there is a key to move, no process has come past    *)
(* its migration, and what those that are about to migrate got is the data *)
(* as it is; so the first migration moves exactly that.  From then on      *)
(* there is no such key, and every migration from older data is refused    *)
(* because a key that it removes is missing.                               *)
(*                                                                         *)
(* It holds when the names and keys can be told apart (Separate) and when  *)
(* the data has no key in both versions (OneVersion): with one in both the *)
(* migration would put the older value over the newer one.                 *)
(***************************************************************************)
EXTENDS StoreBoot, SequenceTheorems, TLAPS

\* What names and keys are: words with hyphens between them.
Texts == Seq(Words)

\* No capability's name begins another's or the placeholder, and no key
\* begins as the keys of version 2 do.
Separate ==
  /\ \A i, j \in DOMAIN Names : Claims(Names[i], Names[j]) => i = j
  /\ \A i \in DOMAIN Names : \A q \in DOMAIN Placeholder : ~Claims(Names[i], q)
  /\ \A k \in Keys : ~Claims(<<"v2">>, k)

\* No key of a capability is in the data in both versions.
OneVersion(d) ==
  \A n \in NameSet, k \in Keys : ~(V1Key(n, k) \in DOMAIN d /\ V2Key(n, k) \in DOMAIN d)

\* What begins with a capability's name is one of its keys.
Owned(d) ==
  \A n \in NameSet : \A q \in DOMAIN d :
    Claims(n, q) => \E k \in Keys : q \in {V1Key(n, k), V2Key(n, k)}

-----------------------------------------------------------------------------
(* Lemmas about names and keys.                                            *)

\* A common beginning can be taken away.
LEMMA ConcatCancels ==
  ASSUME NEW n \in Texts, NEW r \in Texts, NEW s \in Texts, n \o r = n \o s
  PROVE  r = s
<1>1. Len(n) \in Nat /\ Len(r) \in Nat /\ Len(s) \in Nat
  BY LenProperties DEF Texts
<1>2. /\ Len(n \o r) = Len(n) + Len(r) /\ Len(n \o s) = Len(n) + Len(s)
      /\ \A i \in 1..Len(n) + Len(r) : (n \o r)[i] = IF i <= Len(n) THEN n[i] ELSE r[i - Len(n)]
      /\ \A i \in 1..Len(n) + Len(s) : (n \o s)[i] = IF i <= Len(n) THEN n[i] ELSE s[i - Len(n)]
  BY ConcatProperties DEF Texts
<1>3. Len(r) = Len(s)
  BY <1>1, <1>2
<1>4. ASSUME NEW i \in 1..Len(r) PROVE r[i] = s[i]
  <2>1. Len(n) + i \in 1..Len(n) + Len(r) /\ ~(Len(n) + i <= Len(n)) /\ (Len(n) + i) - Len(n) = i
    BY <1>1
  <2>2. (n \o r)[Len(n) + i] = r[i] /\ (n \o s)[Len(n) + i] = s[i]
    BY <1>1, <1>2, <1>3, <2>1
  <2>3. QED
    BY <2>2
<1>5. QED
  BY <1>3, <1>4, SeqEqual DEF Texts

\* What follows the beginning n of q.
Rest(n, q) == SubSeq(q, Len(n) + 1, Len(q))

\* What begins with a name is the name and the rest.
LEMMA Unstripped ==
  ASSUME NEW n \in Texts, NEW q \in Texts, Claims(n, q)
  PROVE  Rest(n, q) \in Texts /\ n \o Rest(n, q) = q
<1>1. Len(n) \in Nat /\ Len(q) \in Nat /\ Len(n) <= Len(q)
  BY LenProperties DEF Claims, IsPrefix, Texts
<1>2. \A i \in 1..Len(n) : n[i] = q[i]
  <2>1. SubSeq(n, 1, Len(n)) = n
    BY SubSeqFull DEF Texts
  <2>2. \A i \in 1..Len(n) : SubSeq(q, 1, Len(n))[i] = q[i]
    BY <1>1, SubSeqProperties, ElementOfSeq DEF Texts
  <2>3. QED
    BY <2>1, <2>2 DEF Claims, IsPrefix
<1>. DEFINE rest == Rest(n, q)
<1>3. /\ rest \in Texts
      /\ Len(rest) = Len(q) - Len(n)
      /\ \A i \in 1..(Len(q) - Len(n)) : rest[i] = q[Len(n) + i]
  <2>1. \A i \in (Len(n) + 1)..Len(q) : q[i] \in Words
    BY <1>1, ElementOfSeq DEF Texts
  <2>2. /\ SubSeq(q, Len(n) + 1, Len(q)) \in Seq(Words)
        /\ Len(SubSeq(q, Len(n) + 1, Len(q))) = IF Len(n) + 1 <= Len(q) THEN Len(q) - (Len(n) + 1) + 1 ELSE 0
        /\ \A i \in 1..(Len(q) - (Len(n) + 1) + 1) :
             SubSeq(q, Len(n) + 1, Len(q))[i] = q[(Len(n) + 1) + i - 1]
    BY <1>1, <2>1, SubSeqProperties
  <2>3. QED
    BY <1>1, <2>2 DEF Rest, Texts
<1>. HIDE DEF rest
<1>4. /\ n \o rest \in Texts
      /\ Len(n \o rest) = Len(q)
      /\ \A i \in 1..Len(q) : (n \o rest)[i] = q[i]
  BY <1>1, <1>2, <1>3, ConcatProperties DEF Texts
<1>5. n \o rest = q
  BY <1>1, <1>4, SeqEqual DEF Texts
<1>6. QED
  BY <1>3, <1>5 DEF rest

\* A name and a rest begin with the name, and the rest is what remains.
LEMMA ClaimsConcat ==
  ASSUME NEW n \in Texts, NEW r \in Texts
  PROVE  n \o r \in Texts /\ Claims(n, n \o r) /\ Rest(n, n \o r) = r
<1>1. /\ n \o r \in Texts
      /\ Len(n) \in Nat /\ Len(r) \in Nat
      /\ Len(n \o r) = Len(n) + Len(r)
      /\ \A i \in 1..Len(n) : (n \o r)[i] = n[i]
  BY ConcatProperties, LenProperties DEF Texts
<1>2. Claims(n, n \o r)
  <2>1. SubSeq(n, 1, Len(n)) = n
    BY SubSeqFull DEF Texts
  <2>2. /\ SubSeq(n \o r, 1, Len(n)) \in Texts
        /\ Len(SubSeq(n \o r, 1, Len(n))) = Len(n)
        /\ \A i \in 1..Len(n) : SubSeq(n \o r, 1, Len(n))[i] = n[i]
    <3>1. \A i \in 1..Len(n) : (n \o r)[i] \in Words
      BY <1>1, ElementOfSeq DEF Texts
    <3>2. /\ SubSeq(n \o r, 1, Len(n)) \in Seq(Words)
          /\ Len(SubSeq(n \o r, 1, Len(n))) = IF 1 <= Len(n) THEN Len(n) - 1 + 1 ELSE 0
          /\ \A i \in 1..(Len(n) - 1 + 1) : SubSeq(n \o r, 1, Len(n))[i] = (n \o r)[1 + i - 1]
      BY <1>1, <3>1, SubSeqProperties
    <3>3. QED
      BY <1>1, <3>2 DEF Texts
  <2>3. SubSeq(n \o r, 1, Len(n)) = n
    BY <1>1, <2>2, SeqEqual DEF Texts
  <2>4. QED
    BY <1>1, <2>1, <2>3 DEF Claims, IsPrefix
<1>3. Rest(n, n \o r) \in Texts /\ n \o Rest(n, n \o r) = n \o r
  BY <1>1, <1>2, Unstripped
<1>4. Rest(n, n \o r) = r
  BY <1>3, ConcatCancels
<1>5. QED
  BY <1>1, <1>2, <1>4

\* Of two beginnings of a key one begins the other.
LEMMA Comparable ==
  ASSUME NEW a \in Texts, NEW b \in Texts, NEW q \in Texts, Claims(a, q), Claims(b, q)
  PROVE  Claims(a, b) \/ Claims(b, a)
<1>1. ASSUME NEW x \in Texts, NEW y \in Texts, Claims(x, q), Claims(y, q), Len(x) <= Len(y)
      PROVE  Claims(x, y)
  <2>1. Len(x) \in Nat /\ Len(y) \in Nat /\ Len(q) \in Nat /\ Len(y) <= Len(q)
    BY <1>1, LenProperties DEF Claims, IsPrefix, Texts
  <2>2. x \o Rest(x, q) = q /\ y \o Rest(y, q) = q
        /\ Rest(x, q) \in Texts /\ Rest(y, q) \in Texts
    BY <1>1, Unstripped
  <2>3. \A i \in 1..Len(x) : x[i] = q[i] /\ y[i] = q[i]
    <3>1. Len(q) = Len(x) + Len(Rest(x, q)) /\ Len(q) = Len(y) + Len(Rest(y, q))
      BY <2>2, ConcatProperties DEF Texts
    <3>2. \A i \in 1..Len(q) : q[i] = IF i <= Len(x) THEN x[i] ELSE Rest(x, q)[i - Len(x)]
      BY <2>2, <3>1, ConcatProperties DEF Texts
    <3>3. \A i \in 1..Len(q) : q[i] = IF i <= Len(y) THEN y[i] ELSE Rest(y, q)[i - Len(y)]
      BY <2>2, <3>1, ConcatProperties DEF Texts
    <3>4. QED
      BY <1>1, <2>1, <3>2, <3>3
  <2>4. SubSeq(x, 1, Len(x)) = x
    BY SubSeqFull DEF Texts
  <2>5. /\ SubSeq(y, 1, Len(x)) \in Texts
        /\ Len(SubSeq(y, 1, Len(x))) = Len(x)
        /\ \A i \in 1..Len(x) : SubSeq(y, 1, Len(x))[i] = x[i]
    <3>1. \A i \in 1..Len(x) : y[i] \in Words
      BY <1>1, <2>1, ElementOfSeq DEF Texts
    <3>2. /\ SubSeq(y, 1, Len(x)) \in Seq(Words)
          /\ Len(SubSeq(y, 1, Len(x))) = IF 1 <= Len(x) THEN Len(x) - 1 + 1 ELSE 0
          /\ \A i \in 1..(Len(x) - 1 + 1) : SubSeq(y, 1, Len(x))[i] = y[1 + i - 1]
      BY <2>1, <3>1, SubSeqProperties
    <3>3. QED
      BY <2>1, <2>3, <3>2 DEF Texts
  <2>6. SubSeq(y, 1, Len(x)) = x
    BY <2>1, <2>5, SeqEqual DEF Texts
  <2>7. QED
    BY <1>1, <2>4, <2>6 DEF Claims, IsPrefix
<1>2. Len(a) \in Nat /\ Len(b) \in Nat
  BY LenProperties DEF Texts
<1>3. QED
  BY <1>1, <1>2

\* What the names of capabilities are.
LEMMA NamesAreTexts == \A i \in DOMAIN Names : Names[i] \in Texts /\ Names[i] \in NameSet
<1>1. ASSUME NEW i \in DOMAIN Names PROVE Names[i] \in Texts /\ Names[i] \in NameSet
  <2>1. Names \in Seq(Texts)
    BY BootAssumption DEF Texts
  <2>2. DOMAIN Names = 1..Len(Names)
    BY <2>1, LenProperties
  <2>3. Names[i] \in Texts
    BY <2>1, <2>2, ElementOfSeq
  <2>4. QED
    BY <2>3 DEF NameSet
<1>2. QED
  BY <1>1

LEMMA NameSetTexts == \A n \in NameSet : n \in Texts /\ \E i \in DOMAIN Names : n = Names[i]
  BY NamesAreTexts DEF NameSet

\* The pieces that the code puts between a name and a key.
Hyphen == <<"-">>
Two == <<"v2">>
Mark == <<"-", "v2">>

\* Concatenation, kept from the provers where only its laws are needed.
Glue(a, b) == a \o b

LEMMA KeysAreTexts ==
  /\ Keys \subseteq Texts
  /\ <<"-">> \in Texts
  /\ <<"v2">> \in Texts
  /\ <<"v2", "-">> \in Texts
  /\ <<"-", "v2">> \in Texts
<1>1. Keys \subseteq Texts
  BY BootAssumption DEF Texts
<1>2. "-" \in Words /\ "v2" \in Words
  BY BootAssumption
<1>3. <<"-">> \in Texts /\ <<"v2">> \in Texts
  BY <1>2 DEF Texts
<1>4. <<"v2", "-">> \in Texts /\ <<"-", "v2">> \in Texts
  BY <1>2 DEF Texts
<1>5. QED
  BY <1>1, <1>3, <1>4

LEMMA PiecesAreTexts == Hyphen \in Texts /\ Two \in Texts /\ Mark \in Texts
  BY KeysAreTexts DEF Hyphen, Two, Mark

LEMMA TwoPieces ==
  ASSUME NEW a \in Words, NEW b \in Words
  PROVE  <<a>> \o <<b>> = <<a, b>>
<1>1. <<a>> \in Seq(Words) /\ <<b>> \in Seq(Words) /\ <<a, b>> \in Seq(Words)
  OBVIOUS
<1>2. /\ <<a>> \o <<b>> \in Seq(Words)
      /\ Len(<<a>> \o <<b>>) = 2
      /\ \A i \in 1..2 : (<<a>> \o <<b>>)[i] = IF i <= 1 THEN a ELSE b
  <2>1. Len(<<a>>) = 1 /\ Len(<<b>>) = 1
    OBVIOUS
  <2>2. /\ <<a>> \o <<b>> \in Seq(Words)
        /\ Len(<<a>> \o <<b>>) = Len(<<a>>) + Len(<<b>>)
        /\ \A i \in 1..(Len(<<a>>) + Len(<<b>>)) :
             (<<a>> \o <<b>>)[i] = IF i <= Len(<<a>>) THEN <<a>>[i] ELSE <<b>>[i - Len(<<a>>)]
    BY <1>1, ConcatProperties
  <2>3. (<<a>> \o <<b>>)[1] = a /\ (<<a>> \o <<b>>)[2] = b
    BY <2>1, <2>2
  <2>4. QED
    BY <2>1, <2>2, <2>3
<1>3. Len(<<a, b>>) = 2 /\ <<a, b>>[1] = a /\ <<a, b>>[2] = b
  OBVIOUS
<1>4. \A i \in 1..2 : (<<a>> \o <<b>>)[i] = <<a, b>>[i]
  BY <1>2, <1>3
<1>5. QED
  BY <1>1, <1>2, <1>3, <1>4, SeqEqual

LEMMA Assoc ==
  ASSUME NEW a \in Texts, NEW b \in Texts, NEW c \in Texts
  PROVE  /\ Glue(a, b) \in Texts /\ Glue(b, c) \in Texts
         /\ Glue(Glue(a, b), c) \in Texts
         /\ Glue(Glue(a, b), c) = Glue(a, Glue(b, c))
  BY ConcatProperties, ConcatAssociative DEF Texts, Glue

\* What is left of a key after a name and a piece.
LEMMA StrippedIs ==
  ASSUME NEW n \in Texts, NEW q \in Texts, Claims(n, q)
  PROVE  Stripped(n, q) \in Texts /\ Stripped(n, q) = Rest(n \o <<"-">>, q)
<1>1. Len(n) \in Nat /\ Len(q) \in Nat /\ Len(n) <= Len(q)
  BY LenProperties DEF Claims, IsPrefix, Texts
<1>2. Len(n \o <<"-">>) = Len(n) + 1
  BY KeysAreTexts, ConcatProperties DEF Texts
<1>3. \A i \in (Len(n) + 2)..Len(q) : q[i] \in Words
  BY <1>1, ElementOfSeq DEF Texts
<1>4. SubSeq(q, Len(n) + 2, Len(q)) \in Texts
  BY <1>1, <1>3, SubSeqProperties DEF Texts
<1>5. QED
  BY <1>1, <1>2, <1>4 DEF Stripped, Rest

\* Only one capability's name begins a key.
LEMMA OneName ==
  ASSUME Separate, NEW i \in DOMAIN Names, NEW j \in DOMAIN Names, NEW q \in Texts,
         Claims(Names[i], q), Claims(Names[j], q)
  PROVE  i = j
<1>1. Claims(Names[i], Names[j]) \/ Claims(Names[j], Names[i])
  BY NamesAreTexts, Comparable
<1>2. QED
  BY <1>1 DEF Separate

\* A key of version 1 is the name, a hyphen and the key.
LEMMA V1KeyClaims ==
  ASSUME NEW n \in Texts, NEW k \in Texts
  PROVE  /\ n \o <<"-">> \in Texts /\ V1Key(n, k) \in Texts
         /\ Claims(n, V1Key(n, k))
         /\ Stripped(n, V1Key(n, k)) = k
<1>1. /\ n \o <<"-">> \in Texts /\ <<"-">> \o k \in Texts /\ V1Key(n, k) \in Texts
      /\ V1Key(n, k) = n \o (<<"-">> \o k)
  <2>1. /\ Glue(n, Hyphen) \in Texts /\ Glue(Hyphen, k) \in Texts
        /\ Glue(Glue(n, Hyphen), k) \in Texts
        /\ Glue(Glue(n, Hyphen), k) = Glue(n, Glue(Hyphen, k))
    BY PiecesAreTexts, Assoc
  <2>2. QED
    BY <2>1 DEF V1Key, Hyphen, Glue
<1>2. Claims(n, V1Key(n, k))
  BY <1>1, ClaimsConcat
<1>3. Rest(n \o <<"-">>, V1Key(n, k)) = k
  BY <1>1, ClaimsConcat DEF V1Key
<1>4. QED
  BY <1>1, <1>2, <1>3, StrippedIs

\* Two keys of one capability are different keys.
LEMMA V1KeyApart ==
  ASSUME NEW n \in Texts, NEW k \in Texts, NEW l \in Texts, V1Key(n, k) = V1Key(n, l)
  PROVE  k = l
  BY V1KeyClaims

LEMMA V2IsText == \A k \in Texts : V2(k) \in Texts
<1>1. \A k \in Texts : Glue(<<"v2", "-">>, k) \in Texts
  BY KeysAreTexts, Assoc
<1>2. QED
  BY <1>1 DEF V2, Glue

\* A key of version 2 is the name, v2 between hyphens, and the key.
LEMMA V2KeyClaims ==
  ASSUME NEW n \in Texts, NEW k \in Texts
  PROVE  /\ n \o <<"-", "v2">> \in Texts /\ V2(k) \in Texts /\ V2Key(n, k) \in Texts
         /\ Claims(n, V2Key(n, k))
         /\ Claims(n \o <<"-", "v2">>, V2Key(n, k))
         /\ Stripped(n, V2Key(n, k)) = V2(k)
<1>1. n \o <<"-", "v2">> \in Texts /\ V2(k) \in Texts /\ <<"-">> \o k \in Texts
  <2>1. Glue(n, Mark) \in Texts /\ Glue(Hyphen, k) \in Texts
    BY PiecesAreTexts, Assoc
  <2>2. QED
    BY <2>1, V2IsText DEF Mark, Hyphen, Glue
<1>2. V2Key(n, k) = (n \o <<"-", "v2">>) \o (<<"-">> \o k)
  <2>1. Glue(Hyphen, Two) = Mark /\ Glue(Two, Hyphen) = <<"v2", "-">>
    BY BootAssumption, TwoPieces DEF Hyphen, Two, Mark, Glue
  <2>2. Glue(Hyphen, k) \in Texts /\ Glue(n, Hyphen) \in Texts
        /\ Glue(n, Glue(Hyphen, Two)) = Glue(Glue(n, Hyphen), Two)
        /\ Glue(Glue(Two, Hyphen), k) = Glue(Two, Glue(Hyphen, k))
    BY PiecesAreTexts, Assoc
  <2>3. Glue(Glue(n, Hyphen), Glue(Two, Glue(Hyphen, k)))
          = Glue(Glue(Glue(n, Hyphen), Two), Glue(Hyphen, k))
    BY <2>2, PiecesAreTexts, Assoc
  <2>4. V2Key(n, k) = Glue(Glue(n, Hyphen), Glue(<<"v2", "-">>, k))
    BY DEF V2Key, V1Key, V2, Glue, Hyphen
  <2>5. V2Key(n, k) = Glue(Glue(n, Mark), Glue(Hyphen, k))
    BY <2>1, <2>2, <2>3, <2>4
  <2>6. QED
    BY <2>5 DEF Mark, Hyphen, Glue
<1>3. V2Key(n, k) \in Texts /\ Claims(n, V2Key(n, k)) /\ Stripped(n, V2Key(n, k)) = V2(k)
  BY <1>1, V1KeyClaims DEF V2Key
<1>4. Claims(n \o <<"-", "v2">>, V2Key(n, k))
  BY <1>1, <1>2, ClaimsConcat
<1>5. QED
  BY <1>1, <1>3, <1>4

LEMMA V2KeyApart ==
  ASSUME NEW n \in Texts, NEW k \in Texts, NEW l \in Texts, V2Key(n, k) = V2Key(n, l)
  PROVE  k = l
<1>1. V2(k) \in Texts /\ V2(l) \in Texts
  BY V2IsText
<1>2. <<"v2", "-">> \o k = <<"v2", "-">> \o l
  BY <1>1, V1KeyApart DEF V2Key, V2
<1>3. QED
  BY <1>2, KeysAreTexts, ConcatCancels

\* A version 1 key does not look like one of version 2.
LEMMA V1NotV2 ==
  ASSUME Separate, NEW n \in Texts, NEW k \in Keys
  PROVE  ~Claims(n \o <<"-", "v2">>, V1Key(n, k))
<1> SUFFICES ASSUME Claims(n \o <<"-", "v2">>, V1Key(n, k)) PROVE FALSE
  OBVIOUS
<1>. DEFINE rest == Rest(n \o <<"-", "v2">>, V1Key(n, k))
<1>1. k \in Texts /\ V1Key(n, k) \in Texts /\ n \o <<"-", "v2">> \in Texts /\ n \o <<"-">> \in Texts
  BY KeysAreTexts, V1KeyClaims, V2KeyClaims
<1>2. rest \in Texts /\ (n \o <<"-", "v2">>) \o rest = V1Key(n, k)
  BY <1>1, Unstripped
<1>. HIDE DEF rest
<1>3. /\ (n \o <<"-", "v2">>) \o rest = (n \o <<"-">>) \o (<<"v2">> \o rest)
      /\ <<"v2">> \o rest \in Texts
  <2>1. Glue(Hyphen, Two) = Mark
    BY BootAssumption, TwoPieces DEF Hyphen, Two, Mark, Glue
  <2>2. n \in Texts
    OBVIOUS
  <2>3. Glue(n, Hyphen) \in Texts /\ Glue(Two, rest) \in Texts
        /\ Glue(n, Glue(Hyphen, Two)) = Glue(Glue(n, Hyphen), Two)
    BY <1>2, <2>2, PiecesAreTexts, Assoc
  <2>4. Glue(Glue(Glue(n, Hyphen), Two), rest) = Glue(Glue(n, Hyphen), Glue(Two, rest))
    BY <1>2, <2>3, PiecesAreTexts, Assoc
  <2>5. Glue(Glue(n, Mark), rest) = Glue(Glue(n, Hyphen), Glue(Two, rest))
    BY <2>1, <2>3, <2>4
  <2>6. QED
    BY <2>3, <2>5 DEF Mark, Hyphen, Two, Glue
<1>4. k = <<"v2">> \o rest
  BY <1>1, <1>2, <1>3, ConcatCancels DEF V1Key
<1>5. Claims(<<"v2">>, k)
  BY <1>2, <1>4, KeysAreTexts, ClaimsConcat
<1>6. QED
  BY <1>5 DEF Separate

-----------------------------------------------------------------------------
(* Lemmas about the migration.                                             *)

\* What the resource may hold.
Data == UNION {[D -> Values \cup {"k-thx-bye"}] : D \in SUBSET Texts}

\* The keys of a version before v2.
OldKeys(d) == UNION {Old(i, d) : i \in DOMAIN Names}

LEMMA DataIs ==
  /\ \A d \in Data : DOMAIN d \subseteq Texts /\ d \in [DOMAIN d -> Values \cup {"k-thx-bye"}]
  /\ \A D \in SUBSET Texts : \A d \in [D -> Values \cup {"k-thx-bye"}] : d \in Data
  BY DEF Data

\* A key that is moved begins with one name only, and is moved to the key
\* of version 2 for that name.
LEMMA OldIs ==
  ASSUME Separate, NEW d \in Data, Owned(d), NEW i \in DOMAIN Names, NEW o \in Old(i, d)
  PROVE  /\ o \in DOMAIN d /\ o \in Texts /\ Claims(Names[i], o)
         /\ ~Claims(Names[i] \o <<"-", "v2">>, o)
         /\ Stripped(Names[i], o) \in Keys /\ Stripped(Names[i], o) \in Texts
         /\ o = V1Key(Names[i], Stripped(Names[i], o))
         /\ \A j \in DOMAIN Names : o \in Old(j, d) => j = i
<1>1. /\ o \in DOMAIN d /\ o \in Texts /\ Claims(Names[i], o)
      /\ ~Claims(Names[i] \o <<"-", "v2">>, o)
  BY DataIs DEF Old
<1>2. PICK k \in Keys : o \in {V1Key(Names[i], k), V2Key(Names[i], k)}
  BY <1>1, NamesAreTexts DEF Owned
<1>3. o = V1Key(Names[i], k) /\ Stripped(Names[i], o) = k /\ k \in Texts
  <2>1. Names[i] \in Texts /\ k \in Texts
    BY NamesAreTexts, KeysAreTexts
  <2>2. o # V2Key(Names[i], k)
    BY <1>1, <2>1, V2KeyClaims
  <2>3. o = V1Key(Names[i], k)
    BY <1>2, <2>2
  <2>4. QED
    BY <2>1, <2>3, V1KeyClaims
<1>4. ASSUME NEW j \in DOMAIN Names, o \in Old(j, d) PROVE j = i
  <2>1. Claims(Names[j], o)
    BY <1>4 DEF Old
  <2>2. QED
    BY <1>1, <2>1, OneName
<1>5. QED
  BY <1>1, <1>3, <1>4

\* The path of a removal is that of the key that is moved.
LEMMA OldPathsAre ==
  ASSUME Separate, NEW d \in Data, Owned(d), NEW i \in DOMAIN Names
  PROVE  OldPaths(i, d) = Old(i, d)
<1>1. \A o \in Old(i, d) : V1Key(Names[i], Stripped(Names[i], o)) = o
  BY OldIs
<1>2. QED
  BY <1>1 DEF OldPaths

\* No removal is saved by one for an earlier capability.
LEMMA RemovesIs ==
  ASSUME Separate, NEW d \in Data, Owned(d), NEW i \in DOMAIN Names
  PROVE  Removes(i, d) = Old(i, d)
<1>1. ASSUME NEW j \in 1..(i - 1), NEW o \in Old(i, d), o \in Old(j, d) PROVE FALSE
  <2>1. j \in DOMAIN Names /\ j # i
    <3>1. Names \in Seq(Texts)
      BY BootAssumption DEF Texts
    <3>2. DOMAIN Names = 1..Len(Names) /\ Len(Names) \in Nat
      BY <3>1, LenProperties
    <3>3. QED
      BY <3>2
  <2>2. QED
    BY <1>1, <2>1, OldIs
<1>2. \A j \in 1..(i - 1) : j \in DOMAIN Names
  <2>1. Names \in Seq(Texts)
    BY BootAssumption DEF Texts
  <2>2. DOMAIN Names = 1..Len(Names) /\ Len(Names) \in Nat
    BY <2>1, LenProperties
  <2>3. QED
    BY <2>2
<1>3. OldPaths(i, d) = Old(i, d) /\ \A j \in 1..(i - 1) : OldPaths(j, d) = Old(j, d)
  BY <1>2, OldPathsAre
<1>4. QED
  BY <1>1, <1>3 DEF Removes

\* What a move adds is a key of version 2 of the same name.
LEMMA MovesIs ==
  ASSUME Separate, NEW d \in Data, Owned(d), NEW i \in DOMAIN Names, NEW add \in Moves(i, d)
  PROVE  /\ add[1] \in Texts /\ Claims(Names[i], add[1]) /\ Claims(Names[i] \o <<"-", "v2">>, add[1])
         /\ \E o \in Old(i, d) :
              add[1] = V2Key(Names[i], Stripped(Names[i], o)) /\ add[2] = d[o]
<1>1. PICK o \in Old(i, d) : add = <<V2Key(Names[i], Stripped(Names[i], o)), d[o]>>
  BY DEF Moves
<1>2. add[1] = V2Key(Names[i], Stripped(Names[i], o)) /\ add[2] = d[o]
  BY <1>1
<1>3. Stripped(Names[i], o) \in Texts /\ Names[i] \in Texts
  BY OldIs, NamesAreTexts
<1>4. /\ V2Key(Names[i], Stripped(Names[i], o)) \in Texts
      /\ Claims(Names[i], V2Key(Names[i], Stripped(Names[i], o)))
      /\ Claims(Names[i] \o <<"-", "v2">>, V2Key(Names[i], Stripped(Names[i], o)))
  BY <1>3, V2KeyClaims
<1>5. QED
  BY <1>2, <1>4

\* No add is saved by one for an earlier capability.
LEMMA AddsIs ==
  ASSUME Separate, NEW d \in Data, Owned(d), NEW i \in DOMAIN Names
  PROVE  Adds(i, d) = Moves(i, d)
<1>1. ASSUME NEW j \in 1..(i - 1), NEW add \in Moves(i, d), add \in Moves(j, d) PROVE FALSE
  <2>1. j \in DOMAIN Names /\ j # i
    <3>1. Names \in Seq(Texts)
      BY BootAssumption DEF Texts
    <3>2. DOMAIN Names = 1..Len(Names) /\ Len(Names) \in Nat
      BY <3>1, LenProperties
    <3>3. QED
      BY <3>2
  <2>2. add[1] \in Texts /\ Claims(Names[i], add[1]) /\ Claims(Names[j], add[1])
    BY <1>1, <2>1, MovesIs
  <2>3. QED
    BY <2>1, <2>2, OneName
<1>2. QED
  BY <1>1 DEF Adds

\* The capability for which a path is added is the one whose name begins it.
LEMMA AddingIs ==
  ASSUME Separate, NEW d \in Data, Owned(d), NEW q, NEW i \in Adding(q, d)
  PROVE  /\ i \in DOMAIN Names /\ q \in Texts
         /\ Claims(Names[i], q) /\ Claims(Names[i] \o <<"-", "v2">>, q)
         /\ \A j \in DOMAIN Names : Claims(Names[j], q) => j = i
<1>1. i \in DOMAIN Names /\ \E add \in Moves(i, d) : add[1] = q
  BY AddsIs DEF Adding
<1>2. q \in Texts /\ Claims(Names[i], q) /\ Claims(Names[i] \o <<"-", "v2">>, q)
  BY <1>1, MovesIs
<1>3. QED
  BY <1>1, <1>2, OneName

\* What is removed stays removed, and it is all that is old.
LEMMA RemovedIs ==
  ASSUME Separate, NEW d \in Data, Owned(d)
  PROVE  Removed(d) = OldKeys(d)
<1>1. ASSUME NEW i \in DOMAIN Names, NEW q \in Old(i, d), NEW j \in Adding(q, d) PROVE FALSE
  <2>1. Claims(Names[i], q) /\ ~Claims(Names[i] \o <<"-", "v2">>, q)
    BY OldIs
  <2>2. i = j /\ Claims(Names[j] \o <<"-", "v2">>, q)
    BY <2>1, AddingIs
  <2>3. QED
    BY <2>1, <2>2
<1>2. ASSUME NEW i \in DOMAIN Names
      PROVE  {q \in Removes(i, d) : \A j \in Adding(q, d) : j < i} = Old(i, d)
  BY <1>1, RemovesIs
<1>3. QED
  BY <1>2 DEF Removed, OldKeys

LEMMA AddedIs ==
  ASSUME Separate, NEW d \in Data, NEW q
  PROVE  q \in Added(d) <=> Adding(q, d) # {}
  BY DEF Added, Adding

\* A moved key comes back under its new name with its value.
LEMMA MovedValue ==
  ASSUME Separate, NEW d \in Data, Owned(d), NEW i \in DOMAIN Names, NEW o \in Old(i, d)
  PROVE  /\ V2Key(Names[i], Stripped(Names[i], o)) \in Added(d)
         /\ LastAdded(V2Key(Names[i], Stripped(Names[i], o)), d) = d[o]
<1>. DEFINE q == V2Key(Names[i], Stripped(Names[i], o))
            add == <<q, d[o]>>
<1>1. add \in Moves(i, d) /\ add[1] = q /\ add[2] = d[o]
  BY DEF Moves
<1>2. i \in Adding(q, d)
  BY <1>1, AddsIs DEF Adding
<1>3. ASSUME NEW other \in Moves(i, d), other[1] = q PROVE other[2] = d[o]
  <2>1. PICK p \in Old(i, d) : other[1] = V2Key(Names[i], Stripped(Names[i], p)) /\ other[2] = d[p]
    BY MovesIs
  <2>2. V2Key(Names[i], Stripped(Names[i], p)) = V2Key(Names[i], Stripped(Names[i], o))
    BY <1>3, <2>1
  <2>3. /\ Stripped(Names[i], p) \in Texts /\ V1Key(Names[i], Stripped(Names[i], p)) = p
        /\ Stripped(Names[i], o) \in Texts /\ V1Key(Names[i], Stripped(Names[i], o)) = o
        /\ Names[i] \in Texts
    BY OldIs, NamesAreTexts
  <2>5. Stripped(Names[i], p) = Stripped(Names[i], o)
    BY <2>2, <2>3, V2KeyApart
  <2>6. p = o
    BY <2>3, <2>5
  <2>7. QED
    BY <2>1, <2>6
<1>. HIDE DEF q, add
<1>4. Adding(q, d) = {i}
  <2>1. ASSUME NEW j \in Adding(q, d) PROVE j = i
    BY <1>2, AddingIs
  <2>2. QED
    BY <1>2, <2>1
<1>5. (CHOOSE j \in Adding(q, d) : \A k \in Adding(q, d) : k <= j) = i
  <2>1. i \in Nat
    <3>1. Names \in Seq(Texts)
      BY BootAssumption DEF Texts
    <3>2. DOMAIN Names = 1..Len(Names)
      BY <3>1, LenProperties
    <3>3. QED
      BY <3>2
  <2>2. i <= i
    BY <2>1
  <2>3. QED
    BY <1>4, <2>2
<1>6. (CHOOSE a \in Adds(i, d) : a[1] = q)[2] = d[o]
  <2>1. add \in Adds(i, d) /\ add[1] = q
    BY <1>1, AddsIs
  <2>2. \A a \in Adds(i, d) : a[1] = q => a[2] = d[o]
    BY <1>3, AddsIs
  <2>3. QED
    BY <2>1, <2>2
<1>7. LastAdded(q, d) = d[o]
  BY <1>5, <1>6 DEF LastAdded
<1>8. q \in Added(d)
  BY <1>2, AddedIs
<1>9. QED
  BY <1>7, <1>8 DEF q

\* Every added path is such a new name.
LEMMA AddedFrom ==
  ASSUME Separate, NEW d \in Data, Owned(d), NEW q \in Added(d)
  PROVE  /\ q \in Texts
         /\ \E i \in DOMAIN Names : \E o \in Old(i, d) :
              q = V2Key(Names[i], Stripped(Names[i], o)) /\ LastAdded(q, d) = d[o]
<1>1. PICK i \in DOMAIN Names : \E add \in Moves(i, d) : add[1] = q
  BY AddsIs DEF Added
<1>2. PICK o \in Old(i, d) : q = V2Key(Names[i], Stripped(Names[i], o))
  BY <1>1, MovesIs
<1>3. QED
  BY <1>1, <1>2, MovesIs, MovedValue

\* What comes of a migration, from whatever data it was made.
LEMMA MigratedIs ==
  ASSUME Separate, data \in Data, NEW d \in Data, Owned(d)
  PROVE  /\ Migrated(d) \in Data
         /\ DOMAIN Migrated(d) = (DOMAIN data \cup Added(d)) \ OldKeys(d)
         /\ \A q \in DOMAIN Migrated(d) :
              Migrated(d)[q] = IF q \in Added(d) THEN LastAdded(q, d) ELSE data[q]
<1>. DEFINE D == (DOMAIN data \cup Added(d)) \ OldKeys(d)
<1>1. Migrated(d) = [q \in D |-> IF q \in Added(d) THEN LastAdded(q, d) ELSE data[q]]
  BY RemovedIs DEF Migrated
<1>2. D \in SUBSET Texts
  BY AddedFrom, DataIs
<1>3. ASSUME NEW q \in D
      PROVE  (IF q \in Added(d) THEN LastAdded(q, d) ELSE data[q]) \in Values \cup {"k-thx-bye"}
  <2>1. CASE q \in Added(d)
    <3>1. PICK i \in DOMAIN Names : \E o \in Old(i, d) : LastAdded(q, d) = d[o]
      BY <2>1, AddedFrom
    <3>2. PICK o \in Old(i, d) : LastAdded(q, d) = d[o]
      BY <3>1
    <3>3. o \in DOMAIN d
      BY OldIs
    <3>4. QED
      BY <2>1, <3>2, <3>3, DataIs
  <2>2. CASE q \notin Added(d)
    BY <2>2, DataIs
  <2>3. QED
    BY <2>1, <2>2
<1>. HIDE DEF D
<1>4. Migrated(d) \in [D -> Values \cup {"k-thx-bye"}]
  BY <1>1, <1>3
<1>5. QED
  BY <1>1, <1>2, <1>4, DataIs DEF D

\* A key of version 2 is never one to be moved.
LEMMA V2NotOld ==
  ASSUME Separate, NEW d \in Data, NEW i \in DOMAIN Names, NEW n \in NameSet, NEW k \in Texts
  PROVE  V2Key(n, k) \notin Old(i, d)
<1> SUFFICES ASSUME V2Key(n, k) \in Old(i, d) PROVE FALSE
  OBVIOUS
<1>1. PICK j \in DOMAIN Names : n = Names[j]
  BY NameSetTexts
<1>2. /\ V2Key(n, k) \in Texts /\ Claims(Names[j], V2Key(n, k))
      /\ Claims(Names[j] \o <<"-", "v2">>, V2Key(n, k))
  BY <1>1, NamesAreTexts, V2KeyClaims
<1>3. Claims(Names[i], V2Key(n, k)) /\ ~Claims(Names[i] \o <<"-", "v2">>, V2Key(n, k))
  BY DEF Old
<1>4. i = j
  BY <1>2, <1>3, OneName
<1>5. QED
  BY <1>2, <1>3, <1>4

\* A key of version 1 is one to be moved.
LEMMA V1IsOld ==
  ASSUME Separate, NEW d \in Data, NEW i \in DOMAIN Names, NEW k \in Keys,
         V1Key(Names[i], k) \in DOMAIN d
  PROVE  V1Key(Names[i], k) \in Old(i, d)
<1>1. Claims(Names[i], V1Key(Names[i], k)) /\ ~Claims(Names[i] \o <<"-", "v2">>, V1Key(Names[i], k))
  BY NamesAreTexts, KeysAreTexts, V1KeyClaims, V1NotV2
<1>2. QED
  BY <1>1 DEF Old

LEMMA NoV1 ==
  ASSUME Separate, NEW d \in Data, OldKeys(d) = {}, NEW n \in NameSet, NEW k \in Keys
  PROVE  V1Key(n, k) \notin DOMAIN d
  BY NameSetTexts, V1IsOld DEF OldKeys

\* Different slots have different keys.
LEMMA SlotsApart ==
  ASSUME Separate, NEW n \in NameSet, NEW k \in Texts, NEW m \in NameSet, NEW l \in Texts
  PROVE  /\ Claims(m, V2Key(n, k)) => m = n
         /\ V2Key(n, k) = V2Key(m, l) => n = m /\ k = l
         /\ l \in Keys => V1Key(m, l) # V2Key(n, k)
<1>1. /\ n \in Texts /\ m \in Texts
      /\ \E i \in DOMAIN Names : n = Names[i]
      /\ \E i \in DOMAIN Names : m = Names[i]
  BY NameSetTexts
<1>2. V2Key(n, k) \in Texts /\ Claims(n, V2Key(n, k)) /\ Claims(n \o <<"-", "v2">>, V2Key(n, k))
  BY <1>1, V2KeyClaims
<1>3. Claims(m, V2Key(n, k)) => m = n
  BY <1>1, <1>2, OneName
<1>4. ASSUME V2Key(n, k) = V2Key(m, l) PROVE n = m /\ k = l
  <2>1. Claims(m, V2Key(n, k))
    BY <1>1, <1>4, V2KeyClaims
  <2>2. m = n
    BY <1>3, <2>1
  <2>3. k = l
    BY <1>1, <1>4, <2>2, V2KeyApart
  <2>4. QED
    BY <2>2, <2>3
<1>5. ASSUME l \in Keys, V1Key(m, l) = V2Key(n, k) PROVE FALSE
  <2>1. Claims(m, V2Key(n, k))
    BY <1>1, <1>5, V1KeyClaims
  <2>2. m = n
    BY <1>3, <2>1
  <2>3. QED
    BY <1>1, <1>2, <1>5, <2>2, V1NotV2
<1>6. QED
  BY <1>3, <1>4, <1>5

\* The first migration moves every key of version 1 to its new name with its
\* value and leaves the others alone.
LEMMA FirstMigration ==
  ASSUME Separate, data \in Data, Owned(data), OneVersion(data), data' = Migrated(data)
  PROVE  /\ OldKeys(data') = {}
         /\ \A n \in NameSet, k \in Keys : Stored(n, k)' = Stored(n, k)
<1>1. /\ data' \in Data
      /\ DOMAIN data' = (DOMAIN data \cup Added(data)) \ OldKeys(data)
      /\ \A q \in DOMAIN data' : data'[q] = IF q \in Added(data) THEN LastAdded(q, data) ELSE data[q]
  BY MigratedIs
<1>2. OldKeys(data') = {}
  <2> SUFFICES ASSUME NEW i \in DOMAIN Names, NEW q \in Old(i, data') PROVE FALSE
    BY DEF OldKeys
  <2>1. q \in DOMAIN data' /\ Claims(Names[i], q) /\ ~Claims(Names[i] \o <<"-", "v2">>, q)
    BY DEF Old
  <2>2. CASE q \in DOMAIN data
    <3>1. q \in Old(i, data)
      BY <2>1, <2>2 DEF Old
    <3>2. QED
      BY <1>1, <2>1, <3>1 DEF OldKeys
  <2>3. CASE q \in Added(data)
    <3>1. PICK j \in DOMAIN Names : \E o \in Old(j, data) : q = V2Key(Names[j], Stripped(Names[j], o))
      BY <2>3, AddedFrom
    <3>2. PICK o \in Old(j, data) : q = V2Key(Names[j], Stripped(Names[j], o))
      BY <3>1
    <3>3. Stripped(Names[j], o) \in Texts /\ Names[j] \in NameSet
      BY OldIs, NamesAreTexts
    <3>4. QED
      BY <1>1, <3>2, <3>3, V2NotOld
  <2>4. QED
    BY <1>1, <2>1, <2>2, <2>3
<1>3. ASSUME NEW n \in NameSet, NEW k \in Keys PROVE Stored(n, k)' = Stored(n, k)
  <2>1. PICK i \in DOMAIN Names : n = Names[i]
    BY NameSetTexts
  <2>2. k \in Texts /\ n \in Texts
    BY KeysAreTexts, NameSetTexts
  <2>3. V1Key(n, k) \notin DOMAIN data'
    BY <1>1, <1>2, NoV1
  <2>4. V2Key(n, k) \notin OldKeys(data)
    BY <2>2, V2NotOld DEF OldKeys
  <2>5. CASE V1Key(n, k) \in DOMAIN data
    <3>1. V1Key(n, k) \in Old(i, data) /\ Stripped(Names[i], V1Key(n, k)) = k
      BY <2>1, <2>2, <2>5, V1IsOld, V1KeyClaims
    <3>2. V2Key(n, k) \in Added(data) /\ LastAdded(V2Key(n, k), data) = data[V1Key(n, k)]
      BY <2>1, <3>1, MovedValue
    <3>3. V2Key(n, k) \in DOMAIN data' /\ data'[V2Key(n, k)] = data[V1Key(n, k)]
      BY <1>1, <2>4, <3>2
    <3>4. V2Key(n, k) \notin DOMAIN data
      BY <2>5 DEF OneVersion
    <3>5. QED
      BY <2>5, <3>3, <3>4 DEF Stored
  <2>6. CASE V1Key(n, k) \notin DOMAIN data
    <3>1. V2Key(n, k) \notin Added(data)
      <4> SUFFICES ASSUME V2Key(n, k) \in Added(data) PROVE FALSE
        OBVIOUS
      <4>1. PICK j \in DOMAIN Names : \E o \in Old(j, data) : V2Key(n, k) = V2Key(Names[j], Stripped(Names[j], o))
        BY AddedFrom
      <4>2. PICK o \in Old(j, data) : V2Key(n, k) = V2Key(Names[j], Stripped(Names[j], o))
        BY <4>1
      <4>3. /\ Stripped(Names[j], o) \in Texts /\ V1Key(Names[j], Stripped(Names[j], o)) = o
            /\ o \in DOMAIN data /\ Names[j] \in NameSet
        BY OldIs, NamesAreTexts
      <4>4. n = Names[j] /\ k = Stripped(Names[j], o)
        BY <2>2, <4>2, <4>3, SlotsApart
      <4>5. QED
        BY <2>6, <4>3, <4>4
    <3>2. /\ V2Key(n, k) \in DOMAIN data' <=> V2Key(n, k) \in DOMAIN data
          /\ V2Key(n, k) \in DOMAIN data' => data'[V2Key(n, k)] = data[V2Key(n, k)]
      BY <1>1, <2>4, <3>1
    <3>3. QED
      BY <2>3, <2>6, <3>2 DEF Stored
  <2>7. QED
    BY <2>5, <2>6
<1>4. QED
  BY <1>2, <1>3

\* Once no key is left to move, a migration from older data is refused.
LEMMA LateMigrationRefused ==
  ASSUME Separate, data \in Data, NEW d \in Data, Owned(d), OldKeys(data) = {}
  PROVE  ~Applicable(d)
<1> SUFFICES ASSUME Applicable(d) PROVE FALSE
  OBVIOUS
<1>1. PICK i \in DOMAIN Names : Old(i, d) # {}
  BY DEF Applicable
<1>2. PICK q \in Old(i, d) : TRUE
  BY <1>1
<1>3. q \in DOMAIN data \/ \E j \in Adding(q, d) : j < i
  BY <1>2, RemovesIs DEF Applicable
<1>4. Claims(Names[i], q) /\ ~Claims(Names[i] \o <<"-", "v2">>, q)
  BY OldIs
<1>5. CASE q \in DOMAIN data
  <2>1. q \in Old(i, data)
    BY <1>4, <1>5 DEF Old
  <2>2. QED
    BY <2>1 DEF OldKeys
<1>6. CASE \E j \in Adding(q, d) : j < i
  <2>1. PICK j \in Adding(q, d) : TRUE
    BY <1>6
  <2>2. i = j /\ Claims(Names[j] \o <<"-", "v2">>, q)
    BY <1>4, <2>1, AddingIs
  <2>3. QED
    BY <1>4, <2>2
<1>7. QED
  BY <1>3, <1>5, <1>6

\* A migration from the data as it is, with something to move, is applied.
LEMMA PromptMigrationApplies ==
  ASSUME Separate, data \in Data, Owned(data), OldKeys(data) # {}
  PROVE  Applicable(data)
<1>1. \E i \in DOMAIN Names : Old(i, data) # {}
  BY DEF OldKeys
<1>2. ASSUME NEW i \in DOMAIN Names, NEW q \in Removes(i, data) PROVE q \in DOMAIN data
  BY OldIs, RemovesIs
<1>3. QED
  BY <1>1, <1>2 DEF Applicable

\* A migration adds keys of capabilities only.
LEMMA MigratedOwned ==
  ASSUME Separate, data \in Data, NEW d \in Data, Owned(data), Owned(d)
  PROVE  Owned(Migrated(d))
<1> SUFFICES ASSUME NEW n \in NameSet, NEW q \in DOMAIN Migrated(d), Claims(n, q)
             PROVE  \E k \in Keys : q \in {V1Key(n, k), V2Key(n, k)}
  BY DEF Owned
<1>1. CASE q \in DOMAIN data
  BY <1>1 DEF Owned
<1>2. CASE q \in Added(d)
  <2>1. PICK i \in DOMAIN Names : \E o \in Old(i, d) : q = V2Key(Names[i], Stripped(Names[i], o))
    BY <1>2, AddedFrom
  <2>2. PICK o \in Old(i, d) : q = V2Key(Names[i], Stripped(Names[i], o))
    BY <2>1
  <2>3. /\ o \in DOMAIN d /\ Claims(Names[i], o) /\ ~Claims(Names[i] \o <<"-", "v2">>, o)
        /\ Stripped(Names[i], o) \in Texts /\ Names[i] \in NameSet /\ Names[i] \in Texts
    BY OldIs, NamesAreTexts
  <2>4. PICK k \in Keys : o \in {V1Key(Names[i], k), V2Key(Names[i], k)}
    BY <2>3 DEF Owned
  <2>5. k \in Texts
    BY KeysAreTexts
  <2>6. o # V2Key(Names[i], k)
    BY <2>3, <2>5, V2KeyClaims
  <2>7. Stripped(Names[i], o) = k
    BY <2>3, <2>4, <2>5, <2>6, V1KeyClaims
  <2>8. n = Names[i]
    BY <2>2, <2>3, SlotsApart
  <2>9. QED
    BY <2>2, <2>7, <2>8
<1>3. QED
  BY <1>1, <1>2, MigratedIs

-----------------------------------------------------------------------------
(* The invariants.                                                         *)

Stages == {"down", "getting", "migrating", "creating", "watching", "ready", "deaf", "stuck"}

BootTypeOK ==
  /\ exists \in BOOLEAN
  /\ data \in Data
  /\ stage \in [Processes -> Stages]
  /\ got \in [Processes -> Data]
  /\ view \in [Processes -> [NameSet -> Data]]
  /\ owed \in [NameSet \X Keys -> Values \cup {"k-thx-bye", Absent}]
  /\ writes \in 0..MaxWrites
  /\ failures \in 0..MaxFailures
  /\ crashes \in 0..MaxCrashes

\* As long as there is no resource, nobody has come further than creating it.
ResourceInv ==
  ~exists =>
    /\ data = Nothing
    /\ \A p \in Processes : stage[p] \in {"down", "getting", "creating", "stuck"}

\* While there is a key to move, nobody has come past the migration, and
\* who is about to migrate got the data as it is.
PristineInv ==
  OldKeys(data) # {} =>
    \A p \in Processes :
      /\ stage[p] \in {"down", "getting", "migrating"}
      /\ stage[p] = "migrating" => got[p] = data

MovedInv ==
  /\ ResourceInv
  /\ failures = 0 => Preserved /\ OneVersion(data) /\ PristineInv

OwnedInv ==
  /\ Owned(data)
  /\ \A p \in Processes : Owned(got[p])
  /\ OwnDataOnly

LEMMA NothingIsData == Nothing \in Data /\ DOMAIN Nothing = {}
<1>1. <<>> = [q \in {} |-> "k-thx-bye"]
  OBVIOUS
<1>2. Nothing \in [{} -> Values \cup {"k-thx-bye"}]
  BY <1>1 DEF Nothing
<1>3. QED
  BY <1>1, <1>2, DataIs DEF Nothing

LEMMA PlaceholderIsData == Placeholder \in Data
<1>1. {<<"__peppr_do_not_delete__">>} \in SUBSET Texts
  BY BootAssumption DEF Texts
<1>2. Placeholder \in [{<<"__peppr_do_not_delete__">>} -> Values \cup {"k-thx-bye"}]
  BY DEF Placeholder
<1>3. QED
  BY <1>1, <1>2, DataIs

\* Neither is there anything to move in it.
LEMMA PlaceholderIsEmpty ==
  ASSUME Separate
  PROVE  /\ OldKeys(Nothing) = {} /\ OneVersion(Nothing) /\ Owned(Nothing)
         /\ OldKeys(Placeholder) = {} /\ OneVersion(Placeholder) /\ Owned(Placeholder)
         /\ \A n \in NameSet, k \in Keys :
              V1Key(n, k) \notin DOMAIN Placeholder /\ V2Key(n, k) \notin DOMAIN Placeholder
<1>1. \A n \in NameSet : \A q \in DOMAIN Placeholder : ~Claims(n, q)
  BY NameSetTexts DEF Separate
<1>2. \A n \in NameSet, k \in Keys : Claims(n, V1Key(n, k)) /\ Claims(n, V2Key(n, k))
  BY NameSetTexts, KeysAreTexts, V1KeyClaims, V2KeyClaims
<1>3. \A n \in NameSet, k \in Keys :
        V1Key(n, k) \notin DOMAIN Placeholder /\ V2Key(n, k) \notin DOMAIN Placeholder
  BY <1>1, <1>2
<1>4. OldKeys(Placeholder) = {} /\ OldKeys(Nothing) = {}
  BY <1>1, NamesAreTexts, NothingIsData DEF OldKeys, Old
<1>5. OneVersion(Nothing) /\ Owned(Nothing) /\ OneVersion(Placeholder) /\ Owned(Placeholder)
  BY <1>1, <1>3, NothingIsData DEF OneVersion, Owned
<1>6. QED
  BY <1>3, <1>4, <1>5

\* What a capability is handed is data under stripped keys.
LEMMA FilteredIs ==
  ASSUME data \in Data, NEW n \in NameSet
  PROVE  /\ Filtered(n) \in Data
         /\ DOMAIN Filtered(n) = {Stripped(n, q) : q \in {r \in DOMAIN data : Claims(n, r)}}
<1>. DEFINE own == {q \in DOMAIN data : Claims(n, q)}
            D == {Stripped(n, q) : q \in own}
<1>1. ASSUME NEW q \in own PROVE Stripped(n, q) \in Texts /\ data[q] \in Values \cup {"k-thx-bye"}
  BY DataIs, NameSetTexts, StrippedIs
<1>2. D \in SUBSET Texts
  BY <1>1
<1>3. ASSUME NEW k \in D
      PROVE  data[CHOOSE q \in own : Stripped(n, q) = k] \in Values \cup {"k-thx-bye"}
  <2>1. (CHOOSE q \in own : Stripped(n, q) = k) \in own
    OBVIOUS
  <2>2. QED
    BY <1>1, <2>1
<1>4. Filtered(n) = [k \in D |-> data[CHOOSE q \in own : Stripped(n, q) = k]]
  BY DEF Filtered
<1>5. DOMAIN Filtered(n) = {Stripped(n, q) : q \in {r \in DOMAIN data : Claims(n, r)}}
  BY <1>4
<1>. HIDE DEF D, own
<1>6. Filtered(n) \in [D -> Values \cup {"k-thx-bye"}]
  BY <1>3, <1>4
<1>7. QED
  BY <1>2, <1>5, <1>6, DataIs

\* Setting and removing an item.
LEMMA ItemData ==
  ASSUME data \in Data, NEW n \in NameSet, NEW k \in Keys
  PROVE  /\ \A v \in Values :
              [q \in DOMAIN data \cup {V2Key(n, k)} |-> IF q = V2Key(n, k) THEN v ELSE data[q]] \in Data
         /\ [q \in DOMAIN data \ {V2Key(n, k)} |-> data[q]] \in Data
<1>1. V2Key(n, k) \in Texts
  BY NameSetTexts, KeysAreTexts, V2KeyClaims
<1>2. DOMAIN data \subseteq Texts /\ data \in [DOMAIN data -> Values \cup {"k-thx-bye"}]
  BY DataIs
<1>3. ASSUME NEW v \in Values
      PROVE  [q \in DOMAIN data \cup {V2Key(n, k)} |-> IF q = V2Key(n, k) THEN v ELSE data[q]] \in Data
  <2>. DEFINE D == DOMAIN data \cup {V2Key(n, k)}
  <2>1. D \in SUBSET Texts
    BY <1>1, <1>2
  <2>2. [q \in D |-> IF q = V2Key(n, k) THEN v ELSE data[q]] \in [D -> Values \cup {"k-thx-bye"}]
    BY <1>2
  <2>3. QED
    BY <2>1, <2>2, DataIs
<1>4. [q \in DOMAIN data \ {V2Key(n, k)} |-> data[q]] \in Data
  <2>. DEFINE D == DOMAIN data \ {V2Key(n, k)}
  <2>1. D \in SUBSET Texts
    BY <1>2
  <2>2. [q \in D |-> data[q]] \in [D -> Values \cup {"k-thx-bye"}]
    BY <1>2
  <2>3. QED
    BY <2>1, <2>2, DataIs
<1>5. QED
  BY <1>3, <1>4

-----------------------------------------------------------------------------
(* Type correctness.                                                       *)

\* What the initial data is.
LEMMA InitialIsData == \A d \in InitialData : d \in Data
<1>1. ASSUME NEW d \in InitialData PROVE d \in Data
  <2>1. DOMAIN d \in SUBSET Texts /\ d \in [DOMAIN d -> Values \cup {"k-thx-bye"}]
    BY BootAssumption DEF Texts
  <2>2. QED
    BY <2>1, DataIs
<1>2. QED
  BY <1>1

LEMMA StoredType ==
  ASSUME data \in Data, NEW n \in NameSet, NEW k \in Keys
  PROVE  Stored(n, k) \in Values \cup {"k-thx-bye", Absent}
<1>1. \A q \in DOMAIN data : data[q] \in Values \cup {"k-thx-bye"}
  BY DataIs
<1>2. QED
  BY <1>1 DEF Stored

LEMMA InitBootType == Init => BootTypeOK
<1> SUFFICES ASSUME Init PROVE BootTypeOK
  OBVIOUS
<1>1. data \in Data
  BY InitialIsData, NothingIsData DEF Init
<1>2. owed \in [NameSet \X Keys -> Values \cup {"k-thx-bye", Absent}]
  <2>1. \A slot \in NameSet \X Keys : Stored(slot[1], slot[2]) \in Values \cup {"k-thx-bye", Absent}
    BY <1>1, StoredType
  <2>2. QED
    BY <2>1 DEF Init
<1>3. MaxWrites \in Nat /\ MaxFailures \in Nat /\ MaxCrashes \in Nat
  BY BootAssumption
<1>4. exists \in BOOLEAN /\ writes = 0 /\ failures = 0 /\ crashes = 0
      /\ stage = [p \in Processes |-> "down"] /\ got = [p \in Processes |-> Nothing]
      /\ view = [p \in Processes |-> [n \in NameSet |-> Nothing]]
  BY DEF Init
<1>5. QED
  BY <1>1, <1>2, <1>3, <1>4, NothingIsData DEF BootTypeOK, Stages

\* The steps that leave the resource alone and change one process's stage.
LEMMA ReachesType ==
  ASSUME BootTypeOK, NEW p \in Processes, NEW s \in Stages, Reaches(p, s)
  PROVE  /\ stage' \in [Processes -> Stages]
         /\ stage'[p] = s
         /\ \A r \in Processes : r # p => stage'[r] = stage[r]
  BY DEF BootTypeOK, Reaches

LEMMA FailsType ==
  ASSUME BootTypeOK, Fails
  PROVE  writes' \in 0..MaxWrites /\ failures' \in 0..MaxFailures /\ crashes' \in 0..MaxCrashes
         /\ failures' # 0
  BY BootAssumption DEF BootTypeOK, Fails

LEMMA NextBootType ==
  ASSUME Separate, BootTypeOK, OwnedInv, [Next]_vars
  PROVE  BootTypeOK'
<1>1. /\ writes \in 0..MaxWrites /\ failures \in 0..MaxFailures /\ crashes \in 0..MaxCrashes
      /\ MaxWrites \in Nat /\ MaxFailures \in Nat /\ MaxCrashes \in Nat
  BY BootAssumption DEF BootTypeOK
<1>2. \A s \in {"down", "getting", "migrating", "creating", "watching", "ready", "deaf", "stuck"} : s \in Stages
  BY DEF Stages
<1>3. ASSUME NEW p \in Processes, Start(p) PROVE BootTypeOK'
  BY <1>1, <1>2, <1>3, ReachesType DEF Start, counters, BootTypeOK
<1>4. ASSUME NEW p \in Processes, GetSucceeds(p) PROVE BootTypeOK'
  BY <1>1, <1>2, <1>4, ReachesType DEF GetSucceeds, counters, BootTypeOK
<1>5. ASSUME NEW p \in Processes, GetFails(p) PROVE BootTypeOK'
  <2>1. writes' \in 0..MaxWrites /\ failures' \in 0..MaxFailures /\ crashes' \in 0..MaxCrashes
    BY <1>1, <1>5, FailsType DEF GetFails, counters
  <2>2. QED
    BY <1>2, <1>5, <2>1, ReachesType DEF GetFails, BootTypeOK
<1>6. ASSUME NEW p \in Processes, Migrate(p) \/ MigrateFails(p) PROVE BootTypeOK'
  <2>1. data' = data \/ data' = Migrated(got[p])
    BY <1>6 DEF Migrate, MigrateFails
  <2>2. data' \in Data
    BY <2>1, MigratedIs DEF BootTypeOK, OwnedInv
  <2>3. writes' \in 0..MaxWrites /\ failures' \in 0..MaxFailures /\ crashes' \in 0..MaxCrashes
    BY <1>1, <1>6, FailsType DEF Migrate, MigrateFails, counters
  <2>4. Watches(p)
    BY <1>6 DEF Migrate, MigrateFails
  <2>5. QED
    BY <1>2, <2>2, <2>3, <2>4, ReachesType, NothingIsData DEF Watches, BootTypeOK
<1>7. ASSUME NEW p \in Processes, Create(p) PROVE BootTypeOK'
  BY <1>1, <1>2, <1>7, ReachesType, PlaceholderIsData DEF Create, counters, BootTypeOK
<1>8. ASSUME NEW p \in Processes, CreateFails(p) PROVE BootTypeOK'
  BY <1>2, <1>8, ReachesType, FailsType DEF CreateFails, BootTypeOK
<1>9. ASSUME NEW p \in Processes, Receive(p) PROVE BootTypeOK'
  <2>1. Contents \in [NameSet -> Data]
    BY FilteredIs DEF Contents, BootTypeOK
  <2>2. QED
    BY <1>1, <1>2, <1>9, <2>1, ReachesType DEF Receive, counters, BootTypeOK
<1>10. ASSUME NEW p \in Processes, WatchGivesUp(p) PROVE BootTypeOK'
  <2>1. PICK s \in Stages : Reaches(p, s)
    BY <1>2, <1>10 DEF WatchGivesUp
  <2>2. QED
    BY <1>10, <2>1, ReachesType, FailsType DEF WatchGivesUp, BootTypeOK
<1>11. ASSUME NEW p \in Processes, Ends(p), crashes' \in 0..MaxCrashes PROVE BootTypeOK'
  <2>1. [n \in NameSet |-> Nothing] \in [NameSet -> Data]
    BY NothingIsData
  <2>2. QED
    BY <1>1, <1>2, <1>11, <2>1, ReachesType, NothingIsData DEF Ends, BootTypeOK
<1>12. ASSUME NEW p \in Processes, NEW n \in NameSet, NEW k \in Keys,
              NEW v \in Values \cup {Absent}, Writes(p, n, k, v), data' \in Data
       PROVE  BootTypeOK'
  <2>1. writes' \in 0..MaxWrites
    BY <1>1, <1>12 DEF Writes
  <2>2. owed' \in [NameSet \X Keys -> Values \cup {"k-thx-bye", Absent}]
    BY <1>12 DEF Writes, BootTypeOK
  <2>3. QED
    BY <1>12, <2>1, <2>2 DEF Writes, BootTypeOK
<1>13. CASE UNCHANGED vars
  BY <1>13 DEF vars, counters, BootTypeOK
<1>14. ASSUME NEW p \in Processes, Crash(p) \/ ProbeFails(p) PROVE BootTypeOK'
  BY <1>1, <1>11, <1>14 DEF Crash, ProbeFails
<1>15. ASSUME NEW p \in Processes, NEW n \in NameSet, NEW k \in Keys, RemoveItem(p, n, k)
       PROVE  BootTypeOK'
  <2>1. Absent \in Values \cup {Absent} /\ data' \in Data
    BY <1>15, ItemData DEF RemoveItem, BootTypeOK
  <2>2. QED
    BY <1>12, <1>15, <2>1 DEF RemoveItem
<1>16. ASSUME NEW p \in Processes, NEW n \in NameSet, NEW k \in Keys, NEW v \in Values,
              SetItem(p, n, k, v)
       PROVE  BootTypeOK'
  <2>1. v \in Values \cup {Absent} /\ data' \in Data
    BY <1>16, ItemData DEF SetItem, BootTypeOK
  <2>2. QED
    BY <1>12, <1>16, <2>1 DEF SetItem
<1>17. QED
  BY <1>3, <1>4, <1>5, <1>6, <1>7, <1>8, <1>9, <1>10, <1>13, <1>14, <1>15, <1>16 DEF Next, ComingUp

-----------------------------------------------------------------------------
(* Capabilities are handed their own keys.                                 *)

\* What is handed over of owned data is keys of the capability.
LEMMA FilteredOwned ==
  ASSUME data \in Data, Owned(data), NEW n \in NameSet, NEW q \in DOMAIN Filtered(n)
  PROVE  \E k \in Keys : q \in {k, V2(k)}
<1>1. PICK r \in DOMAIN data : Claims(n, r) /\ q = Stripped(n, r)
  BY FilteredIs
<1>2. PICK k \in Keys : r \in {V1Key(n, k), V2Key(n, k)}
  BY <1>1 DEF Owned
<1>3. Stripped(n, V1Key(n, k)) = k /\ Stripped(n, V2Key(n, k)) = V2(k)
  BY NameSetTexts, KeysAreTexts, V1KeyClaims, V2KeyClaims
<1>4. QED
  BY <1>1, <1>2, <1>3

LEMMA NextOwned ==
  ASSUME Separate, BootTypeOK, OwnedInv, [Next]_vars
  PROVE  OwnedInv'
<1>1. /\ data \in Data /\ got \in [Processes -> Data] /\ view \in [Processes -> [NameSet -> Data]]
      /\ Owned(data) /\ Owned(Nothing) /\ Owned(Placeholder) /\ DOMAIN Nothing = {}
  BY PlaceholderIsEmpty, NothingIsData DEF BootTypeOK, OwnedInv
<1>2. ASSUME UNCHANGED <<data, got, view>> PROVE OwnedInv'
  BY <1>2 DEF OwnedInv, Owned, OwnDataOnly
<1>3. ASSUME NEW p \in Processes,
             Start(p) \/ GetFails(p) \/ CreateFails(p) \/ WatchGivesUp(p)
      PROVE  OwnedInv'
  BY <1>2, <1>3 DEF Start, GetFails, CreateFails, WatchGivesUp
<1>4. ASSUME NEW p \in Processes, GetSucceeds(p) PROVE OwnedInv'
  BY <1>1, <1>4 DEF GetSucceeds, OwnedInv, Owned, OwnDataOnly
<1>5. ASSUME NEW p \in Processes, Migrate(p) \/ MigrateFails(p) PROVE OwnedInv'
  <2>1. (data' = data \/ data' = Migrated(got[p])) /\ got' = [got EXCEPT ![p] = Nothing] /\ view' = view
    BY <1>5 DEF Migrate, MigrateFails, Watches
  <2>2. Owned(data)'
    <3>1. CASE data' = data
      BY <1>1, <3>1 DEF Owned
    <3>2. CASE data' = Migrated(got[p])
      <4>1. Owned(Migrated(got[p]))
        BY <1>1, MigratedOwned DEF OwnedInv
      <4>2. QED
        BY <3>2, <4>1 DEF Owned
    <3>3. QED
      BY <2>1, <3>1, <3>2
  <2>3. \A r \in Processes : Owned(got[r])'
    BY <1>1, <2>1 DEF OwnedInv, Owned
  <2>4. QED
    BY <2>1, <2>2, <2>3 DEF OwnedInv, OwnDataOnly
<1>6. ASSUME NEW p \in Processes, Create(p) PROVE OwnedInv'
  <2>1. (data' = data \/ data' = Placeholder) /\ UNCHANGED <<got, view>>
    BY <1>6 DEF Create
  <2>2. QED
    BY <1>1, <2>1 DEF OwnedInv, Owned, OwnDataOnly
<1>7. ASSUME NEW p \in Processes, Receive(p) PROVE OwnedInv'
  <2>1. view' = [view EXCEPT ![p] = Contents] /\ UNCHANGED <<data, got>>
    BY <1>7 DEF Receive
  <2>2. ASSUME NEW r \in Processes, NEW n \in NameSet, NEW q \in DOMAIN view'[r][n]
        PROVE  \E k \in Keys : q \in {k, V2(k)}
    <3>1. CASE r = p
      <4>1. view'[r][n] = Filtered(n)
        BY <1>1, <2>1, <3>1 DEF Contents
      <4>2. QED
        BY <1>1, <2>2, <4>1, FilteredOwned
    <3>2. CASE r # p
      BY <1>1, <2>1, <2>2, <3>2 DEF OwnedInv, OwnDataOnly
    <3>3. QED
      BY <3>1, <3>2
  <2>3. QED
    BY <2>1, <2>2 DEF OwnedInv, Owned, OwnDataOnly
<1>8. ASSUME NEW p \in Processes, Crash(p) \/ ProbeFails(p) PROVE OwnedInv'
  <2>1. Ends(p)
    BY <1>8 DEF Crash, ProbeFails
  <2>2. /\ got' = [got EXCEPT ![p] = Nothing]
        /\ view' = [view EXCEPT ![p] = [n \in NameSet |-> Nothing]]
        /\ data' = data
    BY <2>1 DEF Ends
  <2>3. \A r \in Processes : Owned(got[r])'
    BY <1>1, <2>2 DEF OwnedInv, Owned
  <2>4. ASSUME NEW r \in Processes, NEW n \in NameSet, NEW q \in DOMAIN view'[r][n]
        PROVE  \E k \in Keys : q \in {k, V2(k)}
    BY <1>1, <2>2, <2>4 DEF OwnedInv, OwnDataOnly
  <2>5. QED
    BY <2>2, <2>3, <2>4 DEF OwnedInv, Owned, OwnDataOnly
<1>9. ASSUME NEW p \in Processes, NEW n \in NameSet, NEW k \in Keys,
             RemoveItem(p, n, k) \/ \E v \in Values : SetItem(p, n, k, v)
      PROVE  OwnedInv'
  <2>1. DOMAIN data' \subseteq DOMAIN data \cup {V2Key(n, k)} /\ UNCHANGED <<got, view>>
    BY <1>9 DEF RemoveItem, SetItem, Writes
  <2>2. ASSUME NEW m \in NameSet, NEW q \in DOMAIN data', Claims(m, q)
        PROVE  \E l \in Keys : q \in {V1Key(m, l), V2Key(m, l)}
    <3>1. CASE q \in DOMAIN data
      BY <1>1, <2>2, <3>1 DEF Owned
    <3>2. CASE q = V2Key(n, k)
      <4>1. m = n
        BY <2>2, <3>2, KeysAreTexts, SlotsApart
      <4>2. QED
        BY <3>2, <4>1
    <3>3. QED
      BY <2>1, <3>1, <3>2
  <2>3. QED
    BY <2>1, <2>2 DEF OwnedInv, Owned, OwnDataOnly
<1>10. CASE UNCHANGED vars
  BY <1>2, <1>10 DEF vars
<1>11. QED
  BY <1>3, <1>4, <1>5, <1>6, <1>7, <1>8, <1>9, <1>10 DEF Next, ComingUp

-----------------------------------------------------------------------------
(* What was stored stays stored.                                           *)

\* No process is far on while there is no resource.
LEMMA NextResource ==
  ASSUME BootTypeOK, ResourceInv, [Next]_vars
  PROVE  ResourceInv'
<1>1. stage \in [Processes -> Stages]
  BY DEF BootTypeOK
<1>2. ASSUME NEW p \in Processes, NEW s \in {"down", "getting", "creating", "stuck"},
             Reaches(p, s), UNCHANGED <<exists, data>>
      PROVE  ResourceInv'
  BY <1>1, <1>2 DEF Reaches, ResourceInv
<1>3. ASSUME NEW p \in Processes, Start(p) \/ GetFails(p) \/ CreateFails(p) \/ Crash(p) \/ ProbeFails(p)
      PROVE  ResourceInv'
  BY <1>2, <1>3 DEF Start, GetFails, CreateFails, Crash, ProbeFails, Ends
<1>4. ASSUME NEW p \in Processes,
             \/ GetSucceeds(p) \/ Migrate(p) \/ MigrateFails(p) \/ Receive(p) \/ WatchGivesUp(p)
             \/ \E n \in NameSet, k \in Keys : RemoveItem(p, n, k) \/ \E v \in Values : SetItem(p, n, k, v)
      PROVE  exists /\ exists' = exists
  <2>1. exists \/ stage[p] \in {"down", "getting", "creating", "stuck"}
    BY DEF ResourceInv
  <2>2. QED
    BY <1>4, <2>1 DEF GetSucceeds, Migrate, MigrateFails, Watches, Receive, WatchGivesUp, RemoveItem,
                      SetItem, Writes
<1>5. ASSUME NEW p \in Processes, Create(p) PROVE exists'
  BY <1>5 DEF Create
<1>6. CASE UNCHANGED vars
  BY <1>6 DEF vars, ResourceInv
<1>7. QED
  BY <1>3, <1>4, <1>5, <1>6 DEF Next, ComingUp, ResourceInv

\* A write of a capability that is up, when nothing is left to move.
LEMMA WriteMoved ==
  ASSUME Separate, data \in Data, OldKeys(data) = {}, NEW n \in NameSet, NEW k \in Keys,
         DOMAIN data' \subseteq DOMAIN data \cup {V2Key(n, k)}, data' \in Data
  PROVE  OldKeys(data') = {} /\ OneVersion(data')
<1>1. ASSUME NEW i \in DOMAIN Names, NEW q \in Old(i, data') PROVE FALSE
  <2>1. q # V2Key(n, k)
    BY KeysAreTexts, V2NotOld
  <2>2. q \in DOMAIN data /\ Claims(Names[i], q) /\ ~Claims(Names[i] \o <<"-", "v2">>, q)
    BY <2>1 DEF Old
  <2>3. q \in Old(i, data)
    BY <2>2 DEF Old
  <2>4. QED
    BY <2>3 DEF OldKeys
<1>2. OldKeys(data') = {}
  BY <1>1 DEF OldKeys
<1>3. QED
  BY <1>2, NoV1 DEF OneVersion

LEMMA InitMoved ==
  ASSUME Separate, \A d \in InitialData : OneVersion(d), Init
  PROVE  MovedInv
<1>1. ResourceInv
  BY DEF Init, ResourceInv
<1>2. Preserved
  BY DEF Init, Preserved
<1>3. OneVersion(data)
  BY PlaceholderIsEmpty DEF Init
<1>4. PristineInv
  BY DEF Init, PristineInv
<1>5. QED
  BY <1>1, <1>2, <1>3, <1>4 DEF MovedInv

LEMMA NextMoved ==
  ASSUME Separate, BootTypeOK, BootTypeOK', OwnedInv, MovedInv, [Next]_vars
  PROVE  MovedInv'
<1>1. ResourceInv'
  BY NextResource DEF MovedInv
<1> SUFFICES ASSUME failures' = 0 PROVE (Preserved /\ OneVersion(data) /\ PristineInv)'
  BY <1>1 DEF MovedInv
<1>2. failures = 0 /\ ~Fails
  <2>1. failures \in Nat
    BY BootAssumption DEF BootTypeOK
  <2>2. ~Fails
    BY <2>1 DEF Fails
  <2>3. failures' = failures
    BY <2>2 DEF Next, ComingUp, Start, GetSucceeds, GetFails, Migrate, MigrateFails, Create, CreateFails,
                Receive, WatchGivesUp, Crash, ProbeFails, Ends, RemoveItem, SetItem, Writes, vars, counters
  <2>4. QED
    BY <2>2, <2>3
<1>3. ResourceInv /\ Preserved /\ OneVersion(data) /\ PristineInv
  BY <1>2 DEF MovedInv
<1>4. /\ data \in Data /\ data' \in Data
      /\ got \in [Processes -> Data] /\ stage \in [Processes -> Stages]
      /\ owed \in [NameSet \X Keys -> Values \cup {"k-thx-bye", Absent}]
      /\ Owned(data) /\ \A p \in Processes : Owned(got[p])
  BY DEF BootTypeOK, OwnedInv
<1>5. ASSUME UNCHANGED <<data, owed>> PROVE (Preserved /\ OneVersion(data))'
  BY <1>3, <1>5 DEF Preserved, Stored, OneVersion
<1>6. ASSUME OldKeys(data') = {} PROVE PristineInv'
  BY <1>6 DEF PristineInv
<1>7. ASSUME NEW p \in Processes, NEW s \in {"down", "getting"}, Reaches(p, s),
             data' = data, \A r \in Processes : r # p => got'[r] = got[r]
      PROVE  PristineInv'
  <2>1. stage' = [stage EXCEPT ![p] = s]
    BY <1>7 DEF Reaches
  <2>2. stage'[p] = s /\ \A r \in Processes : r # p => stage'[r] = stage[r]
    BY <1>4, <2>1
  <2>3. s # "migrating"
    BY <1>7
  <2>4. ASSUME OldKeys(data) # {}, NEW r \in Processes
        PROVE  stage'[r] \in {"down", "getting", "migrating"} /\ (stage'[r] = "migrating" => got'[r] = data)
    BY <1>3, <1>7, <2>2, <2>3, <2>4 DEF PristineInv
  <2>5. QED
    BY <1>7, <2>4 DEF PristineInv
<1>8. ASSUME NEW p \in Processes, Start(p) PROVE (Preserved /\ OneVersion(data) /\ PristineInv)'
  BY <1>5, <1>7, <1>8 DEF Start
<1>9. ASSUME NEW p \in Processes, Crash(p) \/ ProbeFails(p)
      PROVE  (Preserved /\ OneVersion(data) /\ PristineInv)'
  <2>1. Ends(p)
    BY <1>9 DEF Crash, ProbeFails
  <2>2. \A r \in Processes : r # p => got'[r] = got[r]
    BY <1>4, <2>1 DEF Ends
  <2>3. QED
    BY <1>5, <1>7, <2>1, <2>2 DEF Ends
<1>10. ASSUME NEW p \in Processes, GetSucceeds(p) PROVE (Preserved /\ OneVersion(data) /\ PristineInv)'
  <2>1. /\ got' = [got EXCEPT ![p] = data] /\ stage' = [stage EXCEPT ![p] = "migrating"]
        /\ UNCHANGED <<data, owed>>
    BY <1>10 DEF GetSucceeds, Reaches
  <2>2. PristineInv'
    BY <1>3, <1>4, <2>1 DEF PristineInv
  <2>3. QED
    BY <1>5, <2>1, <2>2
<1>11. ASSUME NEW p \in Processes, GetFails(p) PROVE (Preserved /\ OneVersion(data) /\ PristineInv)'
  <2>1. ~exists /\ UNCHANGED <<data, owed>>
    BY <1>2, <1>11 DEF GetFails
  <2>2. OldKeys(data) = {}
    BY <1>3, <2>1, PlaceholderIsEmpty DEF ResourceInv
  <2>3. QED
    BY <1>5, <1>6, <2>1, <2>2
<1>12. ASSUME NEW p \in Processes, Migrate(p) PROVE (Preserved /\ OneVersion(data) /\ PristineInv)'
  <2>1. /\ stage[p] = "migrating" /\ owed' = owed
        /\ data' = IF Applicable(got[p]) THEN Migrated(got[p]) ELSE data
    BY <1>12 DEF Migrate, Watches
  <2>2. CASE OldKeys(data) # {}
    <3>1. got[p] = data
      BY <1>3, <2>1, <2>2 DEF PristineInv
    <3>2. data' = Migrated(data)
      BY <1>4, <2>1, <2>2, <3>1, PromptMigrationApplies
    <3>3. OldKeys(data') = {} /\ \A n \in NameSet, k \in Keys : Stored(n, k)' = Stored(n, k)
      BY <1>3, <1>4, <3>2, FirstMigration
    <3>4. OneVersion(data')
      BY <1>4, <3>3, NoV1 DEF OneVersion
    <3>5. Preserved'
      BY <1>3, <2>1, <3>3 DEF Preserved
    <3>6. QED
      BY <1>6, <3>3, <3>4, <3>5
  <2>3. CASE OldKeys(data) = {}
    <3>1. data' = data
      BY <1>4, <2>1, <2>3, LateMigrationRefused
    <3>2. QED
      BY <1>5, <1>6, <2>1, <2>3, <3>1
  <2>4. QED
    BY <2>2, <2>3
<1>13. ASSUME NEW p \in Processes, Create(p) PROVE (Preserved /\ OneVersion(data) /\ PristineInv)'
  <2>1. stage[p] = "creating" /\ owed' = owed /\ data' = IF exists THEN data ELSE Placeholder
    BY <1>13 DEF Create
  <2>2. OldKeys(data) = {}
    BY <1>3, <2>1 DEF PristineInv
  <2>3. CASE exists
    BY <1>5, <1>6, <2>1, <2>2, <2>3
  <2>4. CASE ~exists
    <3>1. data = Nothing /\ data' = Placeholder
      BY <1>3, <2>1, <2>4 DEF ResourceInv
    <3>2. \A n \in NameSet, k \in Keys : Stored(n, k)' = Absent /\ Stored(n, k) = Absent
      BY <3>1, PlaceholderIsEmpty, NothingIsData DEF Stored
    <3>3. Preserved'
      BY <1>3, <2>1, <3>2 DEF Preserved
    <3>4. QED
      BY <1>6, <3>1, <3>3, PlaceholderIsEmpty
  <2>5. QED
    BY <2>3, <2>4
<1>14. ASSUME NEW p \in Processes, Receive(p) PROVE (Preserved /\ OneVersion(data) /\ PristineInv)'
  <2>1. stage[p] \in {"watching", "ready"} /\ UNCHANGED <<data, owed>>
    BY <1>14 DEF Receive
  <2>2. OldKeys(data) = {}
    BY <1>3, <2>1 DEF PristineInv
  <2>3. QED
    BY <1>5, <1>6, <2>1, <2>2
<1>15. ASSUME NEW p \in Processes, NEW n \in NameSet, NEW k \in Keys,
              RemoveItem(p, n, k) \/ \E v \in Values : SetItem(p, n, k, v)
       PROVE  (Preserved /\ OneVersion(data) /\ PristineInv)'
  <2>1. stage[p] \in {"ready", "deaf"}
    BY <1>15 DEF RemoveItem, SetItem, Writes
  <2>2. OldKeys(data) = {}
    BY <1>3, <2>1 DEF PristineInv
  <2>3. DOMAIN data' \subseteq DOMAIN data \cup {V2Key(n, k)}
    BY <1>15 DEF RemoveItem, SetItem
  <2>4. OldKeys(data') = {} /\ OneVersion(data')
    BY <1>4, <2>2, <2>3, WriteMoved
  <2>5. ASSUME NEW m \in NameSet, NEW l \in Keys PROVE Stored(m, l)' = owed'[<<m, l>>]
    <3>1. V1Key(m, l) \notin DOMAIN data /\ V1Key(m, l) \notin DOMAIN data'
      BY <1>4, <2>2, <2>4, NoV1
    <3>2. Stored(m, l) = owed[<<m, l>>]
      BY <1>3 DEF Preserved
    <3>3. V2Key(m, l) = V2Key(n, k) <=> m = n /\ l = k
      BY KeysAreTexts, SlotsApart
    <3>4. CASE RemoveItem(p, n, k)
      <4>1. /\ data' = [q \in DOMAIN data \ {V2Key(n, k)} |-> data[q]]
            /\ owed' = [owed EXCEPT ![<<n, k>>] = Absent]
        BY <3>4 DEF RemoveItem, Writes
      <4>2. owed'[<<m, l>>] = IF m = n /\ l = k THEN Absent ELSE owed[<<m, l>>]
        BY <1>4, <4>1
      <4>3. CASE m = n /\ l = k
        BY <3>1, <4>1, <4>2, <4>3 DEF Stored
      <4>4. CASE ~(m = n /\ l = k)
        BY <3>1, <3>2, <3>3, <4>1, <4>2, <4>4 DEF Stored
      <4>5. QED
        BY <4>3, <4>4
    <3>5. ASSUME NEW v \in Values, SetItem(p, n, k, v) PROVE Stored(m, l)' = owed'[<<m, l>>]
      <4>1. /\ data' = [q \in DOMAIN data \cup {V2Key(n, k)} |-> IF q = V2Key(n, k) THEN v ELSE data[q]]
            /\ owed' = [owed EXCEPT ![<<n, k>>] = v]
        BY <3>5 DEF SetItem, Writes
      <4>2. owed'[<<m, l>>] = IF m = n /\ l = k THEN v ELSE owed[<<m, l>>]
        BY <1>4, <4>1
      <4>3. CASE m = n /\ l = k
        BY <4>1, <4>2, <4>3 DEF Stored
      <4>4. CASE ~(m = n /\ l = k)
        BY <3>1, <3>2, <3>3, <4>1, <4>2, <4>4 DEF Stored
      <4>5. QED
        BY <4>3, <4>4
    <3>6. QED
      BY <1>15, <3>4, <3>5
  <2>6. QED
    BY <1>6, <2>4, <2>5 DEF Preserved
<1>16. ASSUME NEW p \in Processes, MigrateFails(p) \/ CreateFails(p) \/ WatchGivesUp(p) PROVE FALSE
  BY <1>2, <1>16 DEF MigrateFails, CreateFails, WatchGivesUp
<1>17. CASE UNCHANGED vars
  <2>1. UNCHANGED <<data, owed, got, stage>>
    BY <1>17 DEF vars
  <2>2. PristineInv'
    BY <1>3, <2>1 DEF PristineInv
  <2>3. QED
    BY <1>5, <2>1, <2>2
<1>18. QED
  BY <1>8, <1>9, <1>10, <1>11, <1>12, <1>13, <1>14, <1>15, <1>16, <1>17 DEF Next, ComingUp

-----------------------------------------------------------------------------
(* The theorems.                                                           *)

\* The types and the ownership of keys are one invariant: what a migration
\* makes is only well-formed for keys of capabilities.
LEMMA BootInvariant ==
  ASSUME Separate, \A d \in InitialData : Owned(d)
  PROVE  Spec => [](BootTypeOK /\ OwnedInv)
<1>1. Init => OwnedInv
  BY PlaceholderIsEmpty, NothingIsData DEF Init, OwnedInv, OwnDataOnly
<1>2. BootTypeOK /\ OwnedInv /\ [Next]_vars => (BootTypeOK /\ OwnedInv)'
  BY NextBootType, NextOwned
<1>3. QED
  BY <1>1, <1>2, InitBootType, PTL DEF Spec

\* Type correctness of the resource, of what the processes got and were
\* handed, and of what is owed.
THEOREM BootTypeCorrect ==
  ASSUME Separate, \A d \in InitialData : Owned(d)
  PROVE  Spec => []BootTypeOK
  BY BootInvariant, PTL

\* A capability is handed its own data and nothing else, whatever fails, if
\* no capability's name begins another's, as a string or by words.
THEOREM OwnKeysHanded ==
  ASSUME Separate, \A d \in InitialData : Owned(d)
  PROVE  Spec => []OwnDataOnly
<1>1. OwnedInv => OwnDataOnly
  BY DEF OwnedInv
<1>2. QED
  BY <1>1, BootInvariant, PTL

\* As long as no request fails the resource has for each key of a capability
\* what was last stored there: the migrations of processes that start
\* together, from data that some got long ago, lose and overwrite nothing.
THEOREM NothingLostAtStart ==
  ASSUME Separate, \A d \in InitialData : Owned(d) /\ OneVersion(d)
  PROVE  Spec => []PreservedUnlessFailed
<1>1. Init => MovedInv
  BY InitMoved
<1>2. BootTypeOK /\ BootTypeOK' /\ OwnedInv /\ MovedInv /\ [Next]_vars => MovedInv'
  BY NextMoved
<1>3. MovedInv => PreservedUnlessFailed
  BY DEF MovedInv, PreservedUnlessFailed
<1>4. \A d \in InitialData : Owned(d)
  OBVIOUS
<1>5. Spec => [](BootTypeOK /\ OwnedInv)
  BY <1>4, BootInvariant
<1>6. QED
  BY <1>1, <1>2, <1>3, <1>5, PTL DEF Spec
=============================================================================
