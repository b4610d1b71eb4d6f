---------------------------- MODULE PackageTrees ----------------------------
(***************************************************************************)
(* Lemmas about the paths and trees of module Package.                     *)
(***************************************************************************)
EXTENDS Package, SequenceTheorems, TLAPS

\* A name.  (The provers do not know of a literal that it is a string, so the
\* names the code gives are listed.)
Literals ==
  {"data", "bagit.txt", "content", "header", "additional", "old", "SIP", "metadata.xml",
   "xsd", "arelda.xsd", "metadata", "objects", "premis.xml", "identifiers.json",
   Prozess, Updated}
FileName == STRING \cup Literals
Path == Seq(FileName)

\* The names the code gives are names.
LEMMA Names ==
  /\ "data" \in FileName /\ "bagit.txt" \in FileName
  /\ "content" \in FileName /\ "header" \in FileName /\ "additional" \in FileName
  /\ "old" \in FileName /\ "SIP" \in FileName /\ "metadata.xml" \in FileName
  /\ "xsd" \in FileName /\ "arelda.xsd" \in FileName
  /\ "metadata" \in FileName /\ "objects" \in FileName
  /\ "premis.xml" \in FileName /\ "identifiers.json" \in FileName
  /\ Prozess \in FileName /\ Updated \in FileName
  /\ Name \in FileName /\ LogicalMD \in FileName
BY NamesAreNames DEF FileName, Literals

\* The paths of a package are paths.
LEMMA PathsArePaths == Seq(STRING) \subseteq Path
<1> SUFFICES ASSUME NEW p \in Seq(STRING) PROVE p \in Path
  OBVIOUS
<1>1. PICK n \in Nat : p \in [1..n -> STRING]
  BY SeqDef
<1>2. p \in [1..n -> FileName]
  BY <1>1 DEF FileName
<1> QED
  BY <1>2, SeqDef DEF Path

\* A path of one name.
LEMMA Singleton ==
  ASSUME NEW e \in FileName
  PROVE  <<e>> \in Path /\ Len(<<e>>) = 1 /\ <<e>>[1] = e /\ <<e>> # <<>>
BY DEF Path


-----------------------------------------------------------------------------
(* Paths.                                                                   *)

\* A path is below another if it is the other one and something more.
LEMMA PrefixIsConcat ==
  ASSUME NEW d \in Path, NEW p \in Path
  PROVE  /\ IsPrefix(d, p) <=> \E x \in Path : p = d \o x
         /\ SubSeq(p, Len(d) + 1, Len(p)) \in Path
         /\ IsPrefix(d, p) => p = d \o SubSeq(p, Len(d) + 1, Len(p))
<1> DEFINE x == SubSeq(p, Len(d) + 1, Len(p))
<1>1. Len(d) \in Nat /\ Len(p) \in Nat /\ DOMAIN d = 1..Len(d) /\ DOMAIN p = 1..Len(p)
  BY LenProperties DEF Path
<1>2. x \in Path /\ Len(x) = (IF Len(d) + 1 <= Len(p) THEN Len(p) - (Len(d) + 1) + 1 ELSE 0)
      /\ \A i \in 1..(Len(p) - (Len(d) + 1) + 1) : x[i] = p[Len(d) + 1 + i - 1]
  <2>1. \A i \in (Len(d) + 1)..Len(p) : p[i] \in FileName
    BY <1>1, ElementOfSeq DEF Path
  <2> QED
    BY <1>1, <2>1, SubSeqProperties DEF Path
<1>3. ASSUME IsPrefix(d, p) PROVE p = d \o x
  <2>1. Len(d) <= Len(p) /\ SubSeq(d, 1, Len(d)) = SubSeq(p, 1, Len(d))
    BY <1>3 DEF IsPrefix
  <2>2. SubSeq(p, 1, Len(d)) = d
    BY <2>1, SubSeqFull DEF Path
  <2>3. SubSeq(p, 1, Len(d)) \o SubSeq(p, Len(d) + 1, Len(p)) = SubSeq(p, 1, Len(p))
    <3>1. \A l, n \in Nat : l <= n => 1 \in 1..(n + 1) /\ l \in (1 - 1)..n /\ n \in l..n
      OBVIOUS
    <3>2. 1 \in 1..(Len(p) + 1) /\ Len(d) \in (1 - 1)..Len(p) /\ Len(p) \in Len(d)..Len(p)
      BY <1>1, <2>1, <3>1
    <3> QED
      BY <3>2, ConcatAdjacentSubSeq DEF Path
  <2> QED
    BY <2>2, <2>3, SubSeqFull DEF Path
<1>4. ASSUME NEW y \in Path, p = d \o y PROVE IsPrefix(d, p)
  <2>1. /\ Len(p) = Len(d) + Len(y) /\ Len(y) \in Nat
        /\ \A i \in 1..(Len(d) + Len(y)) : p[i] = IF i <= Len(d) THEN d[i] ELSE y[i - Len(d)]
    BY <1>4, ConcatProperties, LenProperties DEF Path
  <2>2. Len(d) <= Len(p)
    BY <1>1, <2>1
  <2>3. SubSeq(d, 1, Len(d)) = d
    BY SubSeqFull DEF Path
  <2>4. SubSeq(p, 1, Len(d)) = d
    <3>1. \A i \in 1..Len(d) : p[i] \in FileName /\ p[i] = d[i]
      BY <1>1, <2>1, <2>2, ElementOfSeq DEF Path
    <3>2. /\ SubSeq(p, 1, Len(d)) \in Seq(FileName)
          /\ Len(SubSeq(p, 1, Len(d))) = (IF 1 <= Len(d) THEN Len(d) - 1 + 1 ELSE 0)
          /\ \A i \in 1..(Len(d) - 1 + 1) : SubSeq(p, 1, Len(d))[i] = p[1 + i - 1]
      BY <1>1, <3>1, SubSeqProperties
    <3>3. Len(SubSeq(p, 1, Len(d))) = Len(d)
      BY <1>1, <3>2
    <3>4. \A i \in 1..Len(d) : SubSeq(p, 1, Len(d))[i] = d[i]
      BY <1>1, <3>1, <3>2
    <3> QED
      BY <3>2, <3>3, <3>4, SeqEqual DEF Path
  <2> QED
    BY <2>2, <2>3, <2>4 DEF IsPrefix
<1> QED
  BY <1>2, <1>3, <1>4

\* The laws of concatenation.
LEMMA ConcatFacts ==
  ASSUME NEW a \in Path, NEW b \in Path, NEW c \in Path
  PROVE  /\ a \o b \in Path /\ Len(a \o b) = Len(a) + Len(b)
         /\ (a \o b) \o c = a \o (b \o c)
         /\ a \o <<>> = a /\ <<>> \o a = a
         /\ a \o b = a \o c => b = c
         /\ a \o b = a => b = <<>>
         /\ a \o b = <<>> => a = <<>> /\ b = <<>>
<1>1. a \o b \in Path /\ Len(a \o b) = Len(a) + Len(b)
  BY ConcatProperties DEF Path
<1>2. (a \o b) \o c = a \o (b \o c)
  BY ConcatAssociative DEF Path
<1>3. a \o <<>> = a /\ <<>> \o a = a
  BY ConcatEmptySeq DEF Path
<1>4. a \o b = a \o c => b = c
  BY ConcatSimplifications DEF Path
<1>5. (a \o b = a => b = <<>>) /\ (a \o b = <<>> => a = <<>> /\ b = <<>>)
  BY ConcatEqualIffEmpty DEF Path
<1> QED
  BY <1>1, <1>2, <1>3, <1>4, <1>5

\* The same, name by name.
LEMMA PrefixByNames ==
  ASSUME NEW a \in Path, NEW b \in Path
  PROVE  /\ IsPrefix(a, b) <=> Len(a) <= Len(b) /\ \A i \in 1..Len(a) : a[i] = b[i]
         /\ Len(a) \in Nat /\ (Len(a) = 0 <=> a = <<>>)
         /\ \A i \in 1..Len(a) : a[i] \in FileName
<1>1. Len(a) \in Nat /\ Len(b) \in Nat /\ (Len(a) = 0 <=> a = <<>>)
  BY LenProperties, EmptySeq DEF Path
<1>2. \A i \in 1..Len(a) : a[i] \in FileName
  BY ElementOfSeq DEF Path
<1>3. ASSUME IsPrefix(a, b) PROVE Len(a) <= Len(b) /\ \A i \in 1..Len(a) : a[i] = b[i]
  <2>1. PICK x \in Path : b = a \o x
    BY <1>3, PrefixIsConcat
  <2>2. /\ Len(b) = Len(a) + Len(x) /\ Len(x) \in Nat
        /\ \A i \in 1..(Len(a) + Len(x)) : b[i] = IF i <= Len(a) THEN a[i] ELSE x[i - Len(a)]
    BY <2>1, ConcatProperties, LenProperties DEF Path
  <2> QED
    BY <1>1, <2>2
<1>4. ASSUME Len(a) <= Len(b), \A i \in 1..Len(a) : a[i] = b[i] PROVE IsPrefix(a, b)
  <2>1. SubSeq(a, 1, Len(a)) = a
    BY SubSeqFull DEF Path
  <2>2. \A i \in 1..Len(a) : b[i] \in FileName
    BY <1>2, <1>4
  <2>3. /\ SubSeq(b, 1, Len(a)) \in Seq(FileName)
        /\ Len(SubSeq(b, 1, Len(a))) = (IF 1 <= Len(a) THEN Len(a) - 1 + 1 ELSE 0)
        /\ \A i \in 1..(Len(a) - 1 + 1) : SubSeq(b, 1, Len(a))[i] = b[1 + i - 1]
    BY <1>1, <2>2, SubSeqProperties
  <2>4. Len(SubSeq(b, 1, Len(a))) = Len(a)
    BY <1>1, <2>3
  <2>5. \A i \in 1..Len(a) : SubSeq(b, 1, Len(a))[i] = a[i]
    BY <1>1, <1>4, <2>3
  <2>6. SubSeq(b, 1, Len(a)) = a
    BY <2>3, <2>4, <2>5, SeqEqual DEF Path
  <2> QED
    BY <1>4, <2>1, <2>6 DEF IsPrefix
<1> QED
  BY <1>1, <1>2, <1>3, <1>4

\* The order of the paths.
LEMMA PrefixOrder ==
  ASSUME NEW a \in Path, NEW b \in Path, NEW c \in Path
  PROVE  /\ IsPrefix(a, a) /\ IsPrefix(<<>>, a) /\ (IsPrefix(a, <<>>) => a = <<>>)
         /\ IsPrefix(a, b) /\ IsPrefix(b, c) => IsPrefix(a, c)
         /\ IsPrefix(a, b) /\ IsPrefix(b, a) => a = b
         /\ IsPrefix(a, c) /\ IsPrefix(b, c) => IsPrefix(a, b) \/ IsPrefix(b, a)
<1>1. Len(a) \in Nat /\ Len(b) \in Nat /\ Len(c) \in Nat
  BY PrefixByNames
<1>2. <<>> \in Path
  BY EmptySeq DEF Path
<1>3. IsPrefix(a, a)
  BY <1>1, PrefixByNames
<1>4. IsPrefix(<<>>, a) /\ (IsPrefix(a, <<>>) => a = <<>>)
  <2>1. a = <<>> \o a
    BY ConcatFacts
  <2>2. IsPrefix(<<>>, a)
    BY <1>2, <2>1, PrefixIsConcat
  <2>3. ASSUME IsPrefix(a, <<>>) PROVE a = <<>>
    <3>1. PICK x \in Path : <<>> = a \o x
      BY <1>2, <2>3, PrefixIsConcat
    <3> QED
      BY <3>1, ConcatFacts
  <2> QED
    BY <2>2, <2>3
<1>5. IsPrefix(a, b) /\ IsPrefix(b, c) => IsPrefix(a, c)
  <2>1. \A m, n, k \in Nat : m <= n /\ n <= k => m <= k /\ \A i \in 1..m : i \in 1..n
    OBVIOUS
  <2> QED
    BY <1>1, <2>1, PrefixByNames
<1>6. IsPrefix(a, b) /\ IsPrefix(b, a) => a = b
  <2> SUFFICES ASSUME IsPrefix(a, b), IsPrefix(b, a) PROVE a = b
    OBVIOUS
  <2>1. Len(a) <= Len(b) /\ Len(b) <= Len(a) /\ \A i \in 1..Len(a) : a[i] = b[i]
    BY PrefixByNames
  <2>2. Len(a) = Len(b)
    BY <1>1, <2>1
  <2> QED
    BY <2>1, <2>2, SeqEqual DEF Path
<1>7. ASSUME IsPrefix(a, c), IsPrefix(b, c) PROVE IsPrefix(a, b) \/ IsPrefix(b, a)
  <2>1. /\ \A i \in 1..Len(a) : a[i] = c[i]
        /\ \A i \in 1..Len(b) : b[i] = c[i]
    BY <1>7, PrefixByNames
  <2>2. CASE Len(a) <= Len(b)
    <3>1. \A i \in 1..Len(a) : i \in 1..Len(b)
      BY <1>1, <2>2
    <3> QED
      BY <2>1, <2>2, <3>1, PrefixByNames
  <2>3. CASE Len(b) <= Len(a)
    <3>1. \A i \in 1..Len(b) : i \in 1..Len(a)
      BY <1>1, <2>3
    <3> QED
      BY <2>1, <2>3, <3>1, PrefixByNames
  <2> QED
    BY <1>1, <2>2, <2>3
<1> QED
  BY <1>3, <1>4, <1>5, <1>6, <1>7

\* What is a prefix of a concatenation.
LEMMA PrefixOfConcat ==
  ASSUME NEW a \in Path, NEW b \in Path, NEW c \in Path
  PROVE  /\ a \o b \in Path /\ IsPrefix(a, a \o b)
         /\ IsPrefix(a \o b, a \o c) <=> IsPrefix(b, c)
<1>1. \A x, y \in Path : x \o y \in Path
  BY ConcatFacts
<1>2. IsPrefix(a, a \o b)
  BY <1>1, PrefixIsConcat
<1>3. ASSUME IsPrefix(a \o b, a \o c) PROVE IsPrefix(b, c)
  <2>1. PICK x \in Path : a \o c = (a \o b) \o x
    BY <1>1, <1>3, PrefixIsConcat, ZenonT(60)
  <2>2. (a \o b) \o x = a \o (b \o x)
    BY ConcatAssociative, SMTT(60) DEF Path
  <2>3. b \o x \in Path
    BY <1>1
  <2>4. c = b \o x
    BY <2>1, <2>2, <2>3, ConcatSimplifications DEF Path
  <2> QED
    BY <2>4, PrefixIsConcat
<1>4. ASSUME IsPrefix(b, c) PROVE IsPrefix(a \o b, a \o c)
  <2>1. PICK x \in Path : c = b \o x
    BY <1>4, PrefixIsConcat
  <2>2. a \o c = (a \o b) \o x
    BY <2>1, ConcatAssociative, SMTT(60) DEF Path
  <2> QED
    BY <1>1, <2>2, PrefixIsConcat
<1> QED
  BY <1>1, <1>2, <1>3, <1>4

\* A prefix of a concatenation ends in its first part or in its second.
LEMMA PrefixSplits ==
  ASSUME NEW a \in Path, NEW b \in Path, NEW c \in Path, IsPrefix(a, b \o c)
  PROVE  IsPrefix(a, b) \/ \E y \in Path : a = b \o y /\ IsPrefix(y, c)
<1> SUFFICES ASSUME ~IsPrefix(a, b) PROVE \E y \in Path : a = b \o y /\ IsPrefix(y, c)
  OBVIOUS
<1>1. \A x, y \in Path : x \o y \in Path
  BY ConcatFacts
<1>2. IsPrefix(b, b \o c) /\ b \o c \in Path
  BY <1>1, PrefixIsConcat
<1>3. IsPrefix(b, a)
  BY <1>2, PrefixOrder
<1>4. PICK y \in Path : a = b \o y
  BY <1>3, PrefixIsConcat
<1>5. PICK x \in Path : b \o c = (b \o y) \o x
  BY <1>1, <1>2, <1>4, PrefixIsConcat
<1>6. (b \o y) \o x = b \o (y \o x) /\ y \o x \in Path
  BY <1>1, ConcatAssociative, SMTT(60) DEF Path
<1>7. c = y \o x
  BY <1>5, <1>6, ConcatSimplifications, ZenonT(150) DEF Path
<1> QED
  BY <1>4, <1>7, PrefixIsConcat

\* The directory a path is in, and its last name.
LEMMA ParentFacts ==
  ASSUME NEW p \in Path, p # <<>>
  PROVE  /\ Parent(p) \in Path /\ Last(p) \in FileName /\ <<Last(p)>> \in Path
         /\ p = Parent(p) \o <<Last(p)>>
         /\ Parent(p) # p /\ IsPrefix(Parent(p), p)
         /\ \A q \in Path : IsPrefix(q, p) /\ q # p => IsPrefix(q, Parent(p))
<1>1. Len(p) \in Nat /\ Len(p) # 0 /\ \A i \in 1..Len(p) : p[i] \in FileName
  BY PrefixByNames
<1>2. Len(p) \in 1..Len(p) /\ Len(p) - 1 \in 0..Len(p) /\ Len(p) - 1 \in Nat
      /\ Len(p) - 1 + 1 = Len(p)
  BY <1>1
<1>3. /\ Parent(p) \in Path /\ Len(Parent(p)) = Len(p) - 1
      /\ \A i \in 1..(Len(p) - 1) : Parent(p)[i] = p[i]
  <2>1. \A i \in 1..(Len(p) - 1) : p[i] \in FileName
    BY <1>1
  <2>2. /\ SubSeq(p, 1, Len(p) - 1) \in Seq(FileName)
        /\ Len(SubSeq(p, 1, Len(p) - 1)) = (IF 1 <= Len(p) - 1 THEN (Len(p) - 1) - 1 + 1 ELSE 0)
        /\ \A i \in 1..((Len(p) - 1) - 1 + 1) : SubSeq(p, 1, Len(p) - 1)[i] = p[1 + i - 1]
    BY <1>2, <2>1, SubSeqProperties
  <2>3. \A n \in Nat : n # 0 => /\ (IF 1 <= n - 1 THEN (n - 1) - 1 + 1 ELSE 0) = n - 1
                                /\ (n - 1) - 1 + 1 = n - 1
                                /\ \A i \in 1..(n - 1) : 1 + i - 1 = i
    OBVIOUS
  <2> QED
    BY <1>1, <2>2, <2>3 DEF Parent, Front, Path
<1>4. Last(p) \in FileName /\ <<Last(p)>> \in Path /\ Len(<<Last(p)>>) = 1
  BY <1>1, <1>2 DEF Last, Path
<1>5. p = Parent(p) \o <<Last(p)>>
  <2>1. /\ Parent(p) \o <<Last(p)>> \in Seq(FileName)
        /\ Len(Parent(p) \o <<Last(p)>>) = Len(p) - 1 + 1
        /\ \A i \in 1..(Len(p) - 1 + 1) : (Parent(p) \o <<Last(p)>>)[i] =
             IF i <= Len(p) - 1 THEN Parent(p)[i] ELSE <<Last(p)>>[i - (Len(p) - 1)]
    BY <1>3, <1>4, ConcatProperties DEF Path
  <2>2. ASSUME NEW i \in 1..Len(p) PROVE (Parent(p) \o <<Last(p)>>)[i] = p[i]
    <3>1. CASE i <= Len(p) - 1
      <4>1. i \in 1..(Len(p) - 1)
        BY <1>1, <3>1
      <4> QED
        BY <1>2, <1>3, <2>1, <3>1, <4>1
    <3>2. CASE i = Len(p)
      <4>1. ~(i <= Len(p) - 1) /\ i - (Len(p) - 1) = 1
        BY <1>1, <3>2
      <4>2. <<Last(p)>>[1] = p[i]
        BY <3>2 DEF Last
      <4> QED
        BY <1>2, <2>1, <3>2, <4>1, <4>2
    <3>3. \A n \in Nat : \A j \in 1..n : j <= n - 1 \/ j = n
      OBVIOUS
    <3> QED
      BY <1>1, <3>1, <3>2, <3>3
  <2> QED
    BY <1>2, <2>1, <2>2, SeqEqual DEF Path
<1>6. Parent(p) # p /\ IsPrefix(Parent(p), p)
  <2>1. IsPrefix(Parent(p), p)
    BY <1>3, <1>4, <1>5, PrefixIsConcat
  <2> QED
    BY <1>1, <1>3, <2>1
<1>7. ASSUME NEW q \in Path, IsPrefix(q, p), q # p PROVE IsPrefix(q, Parent(p))
  <2>1. Len(q) \in Nat /\ Len(q) <= Len(p) /\ \A i \in 1..Len(q) : q[i] = p[i]
    BY <1>7, PrefixByNames
  <2>2. Len(q) # Len(p)
    BY <1>7, <2>1, SeqEqual DEF Path
  <2>3. Len(q) <= Len(p) - 1 /\ \A i \in 1..Len(q) : i \in 1..(Len(p) - 1)
    BY <1>1, <2>1, <2>2
  <2> QED
    BY <1>3, <2>1, <2>3, PrefixByNames
<1> QED
  BY <1>3, <1>4, <1>5, <1>6, <1>7

\* A name is added at the end, or a path.
LEMMA ParentOfConcat ==
  ASSUME NEW a \in Path, NEW b \in Path, b # <<>>
  PROVE  /\ a \o b # <<>> /\ Parent(a \o b) = a \o Parent(b) /\ Last(a \o b) = Last(b)
         /\ \A e \in FileName : /\ a \o <<e>> \in Path /\ a \o <<e>> # <<>> /\ a \o <<e>> # a
                              /\ Parent(a \o <<e>>) = a /\ Last(a \o <<e>>) = e
                              /\ Append(a, e) = a \o <<e>>
<1>1. ASSUME NEW c \in Path, NEW e \in FileName
      PROVE  /\ c \o <<e>> \in Path /\ c \o <<e>> # <<>> /\ c \o <<e>> # c
             /\ Parent(c \o <<e>>) = c /\ Last(c \o <<e>>) = e /\ Append(c, e) = c \o <<e>>
  <2>1. Append(c, e) = c \o <<e>> /\ Append(c, e) \in Path /\ Append(c, e) # <<>>
        /\ Append(c, e)[Len(c) + 1] = e /\ Len(Append(c, e)) = Len(c) + 1
    BY AppendProperties, AppendIsConcat DEF Path
  <2>2. Last(c \o <<e>>) = e
    BY <2>1 DEF Last
  <2>3. /\ Parent(c \o <<e>>) \in Path
        /\ Append(c, e) = Append(Parent(c \o <<e>>), e)
    <3>1. Parent(c \o <<e>>) \in Path /\ c \o <<e>> = Parent(c \o <<e>>) \o <<Last(c \o <<e>>)>>
      BY <2>1, ParentFacts
    <3> QED
      BY <2>1, <2>2, <3>1, AppendIsConcat DEF Path
  <2>4. Parent(c \o <<e>>) = c
    <3>1. \A u, v \in Path : Append(u, e) = Append(v, e) => u = v
      BY AppendInjective DEF Path
    <3> QED
      BY <2>3, <3>1
  <2>5. Append(c, e) # c
    BY <2>1, LenProperties DEF Path
  <2> QED
    BY <2>1, <2>2, <2>4, <2>5
<1>2. PICK f \in Path, e \in FileName : b = f \o <<e>> /\ f = Parent(b) /\ e = Last(b)
  BY ParentFacts
<1>3. <<e>> \in Path
  BY ParentFacts, <1>2
<1>4. a \o b = (a \o f) \o <<e>> /\ a \o f \in Path
  BY <1>2, <1>3, ConcatAssociative, ConcatProperties DEF Path
<1>5. /\ (a \o f) \o <<e>> # <<>> /\ Parent((a \o f) \o <<e>>) = a \o f
      /\ Last((a \o f) \o <<e>>) = e
  BY <1>1, <1>4
<1>6. a \o b # <<>> /\ Parent(a \o b) = a \o Parent(b) /\ Last(a \o b) = Last(b)
  BY <1>2, <1>4, <1>5
<1> QED
  BY <1>1, <1>6

\* The paths on the way to a path.
LEMMA PrefixesFacts ==
  ASSUME NEW p \in Path
  PROVE  Prefixes(p) = {q \in Path : IsPrefix(q, p)}
<1>1. Len(p) \in Nat
  BY LenProperties DEF Path
<1>2. ASSUME NEW n \in 0..Len(p)
      PROVE  SubSeq(p, 1, n) \in Path /\ IsPrefix(SubSeq(p, 1, n), p)
  <2>1. /\ n \in Nat /\ n <= Len(p) /\ n - 1 + 1 = n
        /\ \A i \in 1..n : i \in 1..Len(p) /\ 1 + i - 1 = i
    BY <1>1
  <2>2. \A i \in 1..n : p[i] \in FileName
    BY <2>1, PrefixByNames
  <2>3. /\ SubSeq(p, 1, n) \in Seq(FileName)
        /\ Len(SubSeq(p, 1, n)) = (IF 1 <= n THEN n - 1 + 1 ELSE 0)
        /\ \A i \in 1..(n - 1 + 1) : SubSeq(p, 1, n)[i] = p[1 + i - 1]
    BY <2>1, <2>2, SubSeqProperties
  <2>4. Len(SubSeq(p, 1, n)) = n
    BY <2>1, <2>3
  <2>5. \A i \in 1..n : SubSeq(p, 1, n)[i] = p[i]
    BY <2>1, <2>3
  <2>6. SubSeq(p, 1, n) \in Path
    BY <2>3, SMTT(60) DEF Path
  <2> QED
    BY <2>1, <2>4, <2>5, <2>6, PrefixByNames
<1>3. ASSUME NEW q \in Path, IsPrefix(q, p)
      PROVE  q \in Prefixes(p)
  <2>1. Len(q) \in Nat /\ Len(q) <= Len(p)
    BY <1>3, PrefixByNames
  <2>2. SubSeq(p, 1, Len(q)) = q
    BY <1>3, SubSeqFull DEF IsPrefix, Path
  <2>3. Len(q) \in 0..Len(p)
    BY <1>1, <2>1
  <2> QED
    BY <2>2, <2>3 DEF Prefixes
<1> QED
  BY <1>2, <1>3 DEF Prefixes

\* What is below one directory, in another.
LEMMA RebaseFacts ==
  ASSUME NEW d \in Path, NEW x \in Path, NEW to
  PROVE  d \o x \in Path /\ Rebase(d \o x, d, to) = to \o x
<1>1. d \o x \in Path /\ IsPrefix(d, d \o x)
  BY PrefixOfConcat
<1> DEFINE y == SubSeq(d \o x, Len(d) + 1, Len(d \o x))
<1>2. y \in Path /\ d \o x = d \o y
  BY <1>1, PrefixIsConcat
<1>3. x = y
  BY <1>2, ConcatSimplifications DEF Path
<1> QED
  BY <1>1, <1>3 DEF Rebase

\* The first name of a path, and the rest.
LEMMA HeadFacts ==
  ASSUME NEW p \in Path, p # <<>>
  PROVE  /\ Head(p) \in FileName /\ Tail(p) \in Path /\ Head(p) = p[1]
         /\ <<Head(p)>> \in Path /\ p = <<Head(p)>> \o Tail(p)
         /\ \A e \in FileName : IsPrefix(<<e>>, p) <=> Head(p) = e
<1>1. /\ Head(p) \in FileName /\ Tail(p) \in Path /\ Len(Tail(p)) = Len(p) - 1
      /\ \A i \in 1..Len(Tail(p)) : Tail(p)[i] = p[i + 1]
      /\ Head(p) = p[1] /\ <<Head(p)>> \in Path
  BY HeadTailProperties DEF Path
<1>2. Len(p) \in Nat /\ Len(p) # 0
  BY PrefixByNames
<1>3. p = <<Head(p)>> \o Tail(p)
  <2>1. /\ <<Head(p)>> \o Tail(p) \in Seq(FileName) /\ Len(<<Head(p)>>) = 1
        /\ Len(<<Head(p)>> \o Tail(p)) = 1 + (Len(p) - 1)
        /\ \A i \in 1..(1 + (Len(p) - 1)) : (<<Head(p)>> \o Tail(p))[i] =
             IF i <= 1 THEN <<Head(p)>>[i] ELSE Tail(p)[i - 1]
    <3>1. Len(<<Head(p)>>) = 1
      OBVIOUS
    <3> QED
      BY <1>1, <3>1, ConcatProperties DEF Path
  <2>2. 1 + (Len(p) - 1) = Len(p)
    BY <1>2
  <2>3. ASSUME NEW i \in 1..Len(p) PROVE (<<Head(p)>> \o Tail(p))[i] = p[i]
    <3>1. CASE i = 1
      <4>1. (<<Head(p)>> \o Tail(p))[i] = <<Head(p)>>[1]
        BY <2>1, <2>2, <3>1
      <4> QED
        BY <1>1, <3>1, <4>1
    <3>2. CASE i # 1
      <4>1. ~(i <= 1) /\ i - 1 \in 1..(Len(p) - 1) /\ i - 1 + 1 = i
        BY <1>2, <3>2
      <4>2. (<<Head(p)>> \o Tail(p))[i] = Tail(p)[i - 1]
        BY <2>1, <2>2, <4>1
      <4>3. Tail(p)[i - 1] = p[i - 1 + 1]
        BY <1>1, <4>1
      <4> QED
        BY <4>1, <4>2, <4>3
    <3> QED
      BY <3>1, <3>2
  <2> QED
    BY <2>1, <2>2, <2>3, SeqEqual DEF Path
<1>4. ASSUME NEW e \in FileName PROVE IsPrefix(<<e>>, p) <=> Head(p) = e
  <2>1. <<e>> \in Path /\ Len(<<e>>) = 1 /\ <<e>>[1] = e
    BY Singleton
  <2>2. IsPrefix(<<e>>, p) <=> 1 <= Len(p) /\ \A i \in 1..1 : <<e>>[i] = p[i]
    BY <2>1, PrefixByNames
  <2>3. 1 <= Len(p) /\ 1..1 = {1}
    BY <1>2
  <2> QED
    BY <1>1, <2>1, <2>2, <2>3
<1> QED
  BY <1>1, <1>3, <1>4

\* A name and a path behind it.
LEMMA ConsFacts ==
  ASSUME NEW e \in FileName, NEW q \in Path
  PROVE  /\ <<e>> \in Path /\ <<e>> \o q \in Path /\ <<e>> \o q # <<>>
         /\ Head(<<e>> \o q) = e /\ Tail(<<e>> \o q) = q
<1>1. <<e>> \in Path /\ <<e>> # <<>>
  BY Singleton
<1>2. <<e>> \o q \in Path /\ <<e>> \o q # <<>> /\ IsPrefix(<<e>>, <<e>> \o q)
  BY <1>1, ConcatFacts, PrefixOfConcat
<1>3. Head(<<e>> \o q) = e
  BY <1>2, HeadFacts
<1>4. <<e>> \o q = <<e>> \o Tail(<<e>> \o q) /\ Tail(<<e>> \o q) \in Path
  BY <1>2, <1>3, HeadFacts
<1>5. Tail(<<e>> \o q) = q
  BY <1>1, <1>4, ConcatSimplifications DEF Path
<1> QED
  BY <1>1, <1>2, <1>3, <1>5

-----------------------------------------------------------------------------
(* Trees.                                                                   *)

\* Whatever is in a tree is below directories of it.
IsTree(t) ==
  /\ t = [p \in DOMAIN t |-> t[p]]
  /\ DOMAIN t \subseteq Path \ {<<>>}
  /\ \A p \in DOMAIN t : \A q \in Path \ {<<>>} :
       IsPrefix(q, p) /\ q # p => q \in DOMAIN t /\ t[q] = Dir

\* Files have nothing below them, and what is not there has nothing either.
LEMMA TreeFacts ==
  ASSUME NEW t, IsTree(t)
  PROVE  /\ \A p \in DOMAIN t : p \in Path /\ p # <<>> /\ IsDir(t, Parent(p))
         /\ \A p \in DOMAIN t : \A q \in Path \ {<<>>} : IsPrefix(q, p) => q \in DOMAIN t
         /\ \A f \in Files(t) : \A p \in DOMAIN t : IsPrefix(f, p) => p = f
<1>1. \A p \in DOMAIN t : p \in Path /\ p # <<>>
  BY DEF IsTree
<1>2. ASSUME NEW p \in DOMAIN t PROVE IsDir(t, Parent(p))
  <2>1. Parent(p) \in Path /\ IsPrefix(Parent(p), p) /\ Parent(p) # p
    BY <1>1, ParentFacts
  <2> QED
    BY <2>1 DEF IsTree, IsDir, Dirs
<1>3. \A p \in DOMAIN t : \A q \in Path \ {<<>>} : IsPrefix(q, p) => q \in DOMAIN t
  BY DEF IsTree
<1>4. \A f \in Files(t) : \A p \in DOMAIN t : IsPrefix(f, p) => p = f
  BY <1>1 DEF IsTree, Files
<1> QED
  BY <1>1, <1>2, <1>3, <1>4

\* Trees are equal if they have the same paths, with the same values.
LEMMA TreesEqual ==
  ASSUME NEW t, NEW u, IsTree(t), IsTree(u), DOMAIN t = DOMAIN u,
         \A p \in DOMAIN t : t[p] = u[p]
  PROVE  t = u
BY DEF IsTree

\* os.RemoveAll leaves a tree.
LEMMA WithoutFacts ==
  ASSUME NEW t, IsTree(t), NEW D \in SUBSET Path
  PROVE  /\ IsTree(Without(t, D))
         /\ \A q : q \in DOMAIN Without(t, D) <=> q \in DOMAIN t /\ \A d \in D : ~IsPrefix(d, q)
         /\ \A p \in DOMAIN Without(t, D) : Without(t, D)[p] = t[p]
<1> DEFINE w == Without(t, D)
           left == {q \in DOMAIN t : \A d \in D : ~IsPrefix(d, q)}
<1>1. w = [p \in left |-> t[p]]
  BY DEF Without
<1>2. DOMAIN w = left /\ \A p \in DOMAIN w : w[p] = t[p]
  BY <1>1
<1>3. w = [p \in DOMAIN w |-> w[p]]
  BY <1>1
<1>4. DOMAIN w \subseteq Path \ {<<>>}
  BY <1>2 DEF IsTree
<1>5. ASSUME NEW p \in DOMAIN w, NEW q \in Path \ {<<>>}, IsPrefix(q, p), q # p
      PROVE  q \in DOMAIN w /\ w[q] = Dir
  <2>1. p \in DOMAIN t /\ p \in Path /\ \A d \in D : ~IsPrefix(d, p)
    BY <1>2, <1>4
  <2>2. q \in DOMAIN t /\ t[q] = Dir
    BY <1>5, <2>1 DEF IsTree
  <2>3. \A d \in D : ~IsPrefix(d, q)
    BY <1>5, <2>1, PrefixOrder
  <2> QED
    BY <1>2, <2>2, <2>3
<1> HIDE DEF w
<1>6. IsTree(w)
  BY <1>3, <1>4, <1>5 DEF IsTree
<1>7. \A q : q \in left <=> q \in DOMAIN t /\ \A d \in D : ~IsPrefix(d, q)
  OBVIOUS
<1> QED
  BY <1>2, <1>6, <1>7 DEF w

\* os.MkdirAll adds directories.
LEMMA MkdirFacts ==
  ASSUME NEW t, IsTree(t), NEW d \in Path, CanMkdir(t, d)
  PROVE  LET m == MkdirAll(t, d) IN
           /\ IsTree(m)
           /\ \A q : q \in DOMAIN m <=> q \in DOMAIN t \/ (q \in Path \ {<<>>} /\ IsPrefix(q, d))
           /\ \A p \in DOMAIN t : m[p] = t[p]
           /\ \A p \in DOMAIN m \ DOMAIN t : m[p] = Dir
           /\ Files(m) = Files(t)
<1> DEFINE m == MkdirAll(t, d)
           P == {q \in Path \ {<<>>} : IsPrefix(q, d)}
<1>1. Prefixes(d) \ {<<>>} = P
  BY PrefixesFacts
<1>2. m = [p \in DOMAIN t \cup P |-> IF p \in DOMAIN t THEN t[p] ELSE Dir]
  BY <1>1 DEF MkdirAll
<1> HIDE DEF P
<1>3. /\ DOMAIN m = DOMAIN t \cup P /\ m = [p \in DOMAIN m |-> m[p]]
      /\ \A p \in DOMAIN t : m[p] = t[p]
      /\ \A p \in DOMAIN m \ DOMAIN t : m[p] = Dir
  BY <1>2
<1> HIDE DEF m
<1>4. DOMAIN m \subseteq Path \ {<<>>}
  BY <1>3 DEF IsTree, P
<1>5. \A q \in P : q \in DOMAIN m /\ m[q] = Dir
  <2>1. \A q \in P : q \notin Files(t)
    BY <1>1 DEF CanMkdir
  <2> QED
    BY <1>3, <2>1 DEF Files
<1>6. ASSUME NEW p \in DOMAIN m, NEW q \in Path \ {<<>>}, IsPrefix(q, p), q # p
      PROVE  q \in DOMAIN m /\ m[q] = Dir
  <2>1. CASE p \in DOMAIN t
    BY <1>3, <1>6, <2>1 DEF IsTree
  <2>2. CASE p \in P
    <3>1. IsPrefix(q, d)
      BY <1>6, <2>2, PrefixOrder DEF P
    <3> QED
      BY <1>5, <3>1 DEF P
  <2> QED
    BY <1>3, <2>1, <2>2
<1>7. IsTree(m)
  BY <1>3, <1>4, <1>6 DEF IsTree
<1>8. Files(m) = Files(t)
  BY <1>3 DEF Files
<1> QED
  BY <1>3, <1>7, <1>8 DEF m, P

\* A file is written where there is a directory to hold it and none in its way.
LEMMA WriteFacts ==
  ASSUME NEW t, IsTree(t), NEW f \in Path \ {<<>>}, IsDir(t, Parent(f)), f \notin Dirs(t)
  PROVE  LET w == Write(t, f) IN
           /\ IsTree(w) /\ DOMAIN w = DOMAIN t \cup {f} /\ w[f] = f
           /\ \A p \in DOMAIN t \ {f} : w[p] = t[p]
           /\ Files(w) = Files(t) \cup {f} /\ Dirs(w) = Dirs(t)
<1> DEFINE w == Write(t, f)
<1>1. /\ DOMAIN w = DOMAIN t \cup {f} /\ w = [p \in DOMAIN w |-> w[p]] /\ w[f] = f
      /\ \A p \in DOMAIN t \ {f} : w[p] = t[p]
  BY DEF Write
<1> HIDE DEF w
<1>2. DOMAIN w \subseteq Path \ {<<>>}
  BY <1>1 DEF IsTree
<1>3. ASSUME NEW p \in DOMAIN w, NEW q \in Path \ {<<>>}, IsPrefix(q, p), q # p
      PROVE  q \in DOMAIN w /\ w[q] = Dir
  <2>1. q \in DOMAIN t /\ t[q] = Dir
    <3>1. CASE p # f
      BY <1>1, <1>3, <3>1 DEF IsTree
    <3>2. CASE p = f
      <4>1. Parent(f) \in Path /\ IsPrefix(q, Parent(f)) /\ (IsPrefix(q, <<>>) => q = <<>>)
        BY <1>3, <3>2, ParentFacts, PrefixOrder
      <4>2. Parent(f) \in DOMAIN t /\ t[Parent(f)] = Dir
        BY <4>1 DEF IsDir, Dirs
      <4> QED
        BY <4>1, <4>2 DEF IsTree
    <3> QED
      BY <3>1, <3>2
  <2>2. q # f
    BY <2>1 DEF Dirs
  <2> QED
    BY <1>1, <2>1, <2>2
<1>4. IsTree(w)
  BY <1>1, <1>2, <1>3 DEF IsTree
<1>5. Files(w) = Files(t) \cup {f} /\ Dirs(w) = Dirs(t)
  <2>1. f # Dir
    BY DEF Dir
  <2> QED
    BY <1>1, <2>1 DEF Files, Dirs
<1> QED
  BY <1>1, <1>4, <1>5 DEF w

\* What a rename needs: nothing is where it goes.
LEMMA CanMoveFacts ==
  ASSUME NEW t, IsTree(t), NEW from \in Path, NEW to \in Path \ {<<>>}, CanMove(t, from, to)
  PROVE  /\ from # <<>> /\ \A p \in DOMAIN t : ~IsPrefix(to, p)
         /\ \A x \in Path : ~IsPrefix(from, to \o x) \/ IsPrefix(to, from)
         /\ ~IsPrefix(to, from)
<1>1. from \in DOMAIN t /\ to \notin DOMAIN t /\ ~IsPrefix(from, to)
  BY DEF CanMove
<1>2. from # <<>> /\ \A p \in DOMAIN t : ~IsPrefix(to, p)
  BY <1>1, TreeFacts
<1>3. ASSUME NEW x \in Path, IsPrefix(from, to \o x) PROVE IsPrefix(to, from)
  <2>1. to \o x \in Path /\ IsPrefix(to, to \o x)
    BY PrefixOfConcat
  <2> QED
    BY <1>1, <1>3, <2>1, PrefixOrder
<1> QED
  BY <1>1, <1>2, <1>3

\* A rename takes everything below one path to another one, and leaves the rest.
LEMMA MoveFacts ==
  ASSUME NEW t, IsTree(t), NEW from \in Path, NEW to \in Path \ {<<>>}, CanMove(t, from, to)
  PROVE  LET m == Move(t, from, to) IN
           /\ IsTree(m)
           /\ \A p \in DOMAIN t : ~IsPrefix(from, p) => p \in DOMAIN m /\ m[p] = t[p]
           /\ \A x \in Path : from \o x \in DOMAIN t =>
                to \o x \in DOMAIN m /\ m[to \o x] = t[from \o x]
           /\ \A p \in DOMAIN m : \/ p \in DOMAIN t /\ ~IsPrefix(from, p)
                                  \/ \E x \in Path : p = to \o x /\ from \o x \in DOMAIN t
<1> DEFINE m == Move(t, from, to)
           stay == {p \in DOMAIN t : ~IsPrefix(from, p)}
           come == {to \o x : x \in {y \in Path : from \o y \in DOMAIN t}}
<1>1. /\ from # <<>> /\ ~IsPrefix(to, from) /\ \A p \in DOMAIN t : ~IsPrefix(to, p)
      /\ \A x \in Path : ~IsPrefix(from, to \o x)
      /\ DOMAIN t \subseteq Path \ {<<>>}
  BY CanMoveFacts DEF IsTree
<1>2. DOMAIN t \ Below(t, from) = stay
  BY DEF Below
<1>3. {Rebase(q, from, to) : q \in Below(t, from)} = come
  <2>1. ASSUME NEW q \in Below(t, from) PROVE Rebase(q, from, to) \in come
    <3>1. q \in DOMAIN t /\ q \in Path /\ IsPrefix(from, q)
      BY <1>1 DEF Below
    <3>2. PICK x \in Path : q = from \o x
      BY <3>1, PrefixIsConcat
    <3>3. Rebase(from \o x, from, to) = to \o x
      BY RebaseFacts
    <3>4. from \o x \in DOMAIN t
      BY <3>1, <3>2
    <3> QED
      BY <3>2, <3>3, <3>4
  <2>2. ASSUME NEW x \in Path, from \o x \in DOMAIN t
        PROVE  to \o x \in {Rebase(q, from, to) : q \in Below(t, from)}
    <3>1. from \o x \in Below(t, from)
      BY <2>2, PrefixOfConcat DEF Below
    <3>2. Rebase(from \o x, from, to) = to \o x
      BY RebaseFacts
    <3> QED
      BY <3>1, <3>2
  <2> QED
    BY <2>1, <2>2
<1>4. m = [p \in stay \cup come |-> IF IsPrefix(to, p) THEN t[Rebase(p, to, from)] ELSE t[p]]
  BY <1>2, <1>3 DEF Move
<1>5. \A p \in stay : p \in DOMAIN t /\ ~IsPrefix(to, p) /\ ~IsPrefix(from, p)
  BY <1>1
<1>6. ASSUME NEW x \in Path
      PROVE  /\ to \o x \in Path \ {<<>>} /\ IsPrefix(to, to \o x)
             /\ Rebase(to \o x, to, from) = from \o x
  <2>1. to \o x \in Path /\ IsPrefix(to, to \o x)
    BY PrefixOfConcat
  <2>2. to \o x # <<>>
    BY <2>1, PrefixOrder
  <2>3. Rebase(to \o x, to, from) = from \o x
    BY RebaseFacts
  <2> QED
    BY <2>1, <2>2, <2>3
<1>7. /\ DOMAIN m = stay \cup come /\ m = [p \in DOMAIN m |-> m[p]]
      /\ \A p \in stay : m[p] = t[p]
      /\ \A x \in Path : from \o x \in DOMAIN t => m[to \o x] = t[from \o x]
  <2>1. \A x \in Path : from \o x \in DOMAIN t => to \o x \in come
    OBVIOUS
  <2> HIDE DEF stay, come
  <2> QED
    BY <1>4, <1>5, <1>6, <2>1
<1>8. \A p \in come : \E x \in Path : p = to \o x /\ from \o x \in DOMAIN t
  OBVIOUS
<1>9. \A p \in stay : p \in DOMAIN t
  OBVIOUS
<1>c. \A x \in Path : from \o x \in DOMAIN t => to \o x \in come
  OBVIOUS
<1>s. \A p \in DOMAIN t : ~IsPrefix(from, p) => p \in stay
  OBVIOUS
<1> HIDE DEF m, stay, come
<1>10. DOMAIN m \subseteq Path \ {<<>>}
  <2>1. \A p \in stay : p \in Path \ {<<>>}
    BY <1>1, <1>9
  <2>2. \A p \in come : p \in Path \ {<<>>}
    BY <1>6, <1>8
  <2> QED
    BY <1>7, <2>1, <2>2
<1>11. ASSUME NEW p \in DOMAIN m, NEW q \in Path \ {<<>>}, IsPrefix(q, p), q # p
       PROVE  q \in DOMAIN m /\ m[q] = Dir
  <2>1. CASE p \in stay
    <3>1. q \in DOMAIN t /\ t[q] = Dir
      BY <1>9, <1>11, <2>1 DEF IsTree
    <3>2. ~IsPrefix(from, q)
      BY <1>5, <1>10, <1>11, <2>1, PrefixOrder
    <3> QED
      BY <1>7, <1>s, <3>1, <3>2
  <2>2. CASE p \in come
    <3>1. PICK x \in Path : p = to \o x /\ from \o x \in DOMAIN t
      BY <1>8, <2>2
    <3>2. CASE IsPrefix(q, to) /\ q # to
      <4>1. Parent(to) \in Path /\ IsPrefix(q, Parent(to)) /\ (IsPrefix(q, <<>>) => q = <<>>)
        BY <3>2, ParentFacts, PrefixOrder
      <4>2. Parent(to) \in DOMAIN t /\ t[Parent(to)] = Dir
        BY <4>1 DEF CanMove, IsDir, Dirs
      <4>3. q \in DOMAIN t /\ t[q] = Dir
        BY <4>1, <4>2 DEF IsTree
      <4>4. ~IsPrefix(from, q)
        BY <3>2, PrefixOrder DEF CanMove
      <4> QED
        BY <1>7, <1>s, <4>3, <4>4
    <3>3. CASE \E y \in Path : q = to \o y /\ IsPrefix(y, x)
      <4>1. PICK y \in Path : q = to \o y /\ IsPrefix(y, x)
        BY <3>3
      <4>2. from \o y \in Path /\ from \o y # <<>> /\ IsPrefix(from \o y, from \o x)
        BY <1>1, <4>1, PrefixOfConcat, ConcatFacts
      <4>3. y # x
        BY <1>11, <3>1, <4>1
      <4>4. from \o y # from \o x
        BY <4>3, ConcatSimplifications DEF Path
      <4>5. from \o y \in DOMAIN t /\ t[from \o y] = Dir
        BY <3>1, <4>2, <4>4 DEF IsTree
      <4> QED
        BY <1>7, <1>c, <4>1, <4>5
    <3>4. to = to \o <<>> /\ <<>> \in Path /\ IsPrefix(<<>>, x)
      BY ConcatFacts, PrefixOrder, EmptySeq DEF Path
    <3>5. IsPrefix(q, to) \/ \E y \in Path : q = to \o y /\ IsPrefix(y, x)
      <4>1. IsPrefix(q, to \o x)
        BY <1>11, <3>1
      <4> QED
        BY <4>1, PrefixSplits
    <3> QED
      BY <3>2, <3>3, <3>4, <3>5
  <2> QED
    BY <1>7, <2>1, <2>2
<1>12. IsTree(m)
  BY <1>7, <1>10, <1>11 DEF IsTree
<1> QED
  BY <1>5, <1>7, <1>8, <1>12, <1>c, <1>s DEF m

\* The paths in S and the directories they are in.
Spanned(S) == {q \in Path \ {<<>>} : \E p \in S : IsPrefix(q, p)}

\* A tree made of its files and the directories they and others need.
LEMMA TreeOfFacts ==
  ASSUME NEW f, NEW D, DOMAIN f \cup D \subseteq Path \ {<<>>},
         \A p \in DOMAIN f : f[p] # Dir,
         \A p \in DOMAIN f : \A q \in DOMAIN f \cup D : IsPrefix(p, q) => q = p
  PROVE  LET t == TreeOf(f, D) IN
           /\ IsTree(t) /\ Files(t) = DOMAIN f
           /\ \A p \in DOMAIN f : t[p] = f[p]
           /\ DOMAIN t = Spanned(DOMAIN f \cup D)
<1> DEFINE t == TreeOf(f, D)
           all == {q \in Path \ {<<>>} : \E p \in DOMAIN f \cup D : IsPrefix(q, p)}
<1>1. (UNION {Prefixes(p) : p \in DOMAIN f \cup D}) \ {<<>>} = all
  <2>1. \A p \in DOMAIN f \cup D : Prefixes(p) = {q \in Path : IsPrefix(q, p)}
    BY PrefixesFacts
  <2> QED
    BY <2>1
<1>2. DOMAIN f \subseteq all
  BY PrefixOrder
<1>3. t = [p \in all |-> IF p \in DOMAIN f THEN f[p] ELSE Dir]
  BY <1>1, <1>2 DEF TreeOf
<1>4. /\ DOMAIN t = all /\ t = [p \in DOMAIN t |-> t[p]]
      /\ \A p \in all : t[p] = IF p \in DOMAIN f THEN f[p] ELSE Dir
  BY <1>3
<1>5. \A q \in all : q \in Path \ {<<>>} /\ \E p \in DOMAIN f \cup D : IsPrefix(q, p)
  OBVIOUS
<1>6. \A q \in Path \ {<<>>} : (\E p \in DOMAIN f \cup D : IsPrefix(q, p)) => q \in all
  OBVIOUS
<1> HIDE DEF t, all
<1>7. ASSUME NEW p \in DOMAIN t, NEW q \in Path \ {<<>>}, IsPrefix(q, p), q # p
      PROVE  q \in DOMAIN t /\ t[q] = Dir
  <2>1. PICK r \in DOMAIN f \cup D : IsPrefix(p, r) /\ p \in Path /\ r \in Path
    BY <1>4, <1>5
  <2>2. IsPrefix(q, r)
    BY <1>7, <2>1, PrefixOrder
  <2>3. q \notin DOMAIN f
    <3>1. SUFFICES ASSUME q \in DOMAIN f PROVE FALSE
      OBVIOUS
    <3>2. r = q
      BY <2>2, <3>1
    <3> QED
      BY <1>7, <2>1, <3>2, PrefixOrder
  <2> QED
    BY <1>4, <1>6, <2>2, <2>3
<1>8. IsTree(t)
  BY <1>4, <1>5, <1>7 DEF IsTree
<1>9. \A p \in DOMAIN f : t[p] = f[p]
  BY <1>2, <1>4
<1>10. Files(t) = DOMAIN f
  BY <1>2, <1>4 DEF Files
<1> QED
  BY <1>4, <1>8, <1>9, <1>10 DEF t, all, Spanned

\* A path below another begins with the same name.
LEMMA HeadOfPrefix ==
  ASSUME NEW q \in Path, NEW p \in Path, q # <<>>, IsPrefix(q, p)
  PROVE  p # <<>> /\ Head(q) = Head(p)
<1>1. p # <<>>
  BY PrefixOrder
<1>2. Head(q) \in FileName /\ <<Head(q)>> \in Path /\ IsPrefix(<<Head(q)>>, q)
  BY HeadFacts
<1>3. IsPrefix(<<Head(q)>>, p)
  BY <1>2, PrefixOrder
<1> QED
  BY <1>1, <1>2, <1>3, HeadFacts

\* The second name of a path.
LEMMA SecondName ==
  ASSUME NEW p \in Path, p # <<>>
  PROVE  /\ Len(p) > 1 <=> Tail(p) # <<>>
         /\ Tail(p) # <<>> => p[2] = Head(Tail(p))
         /\ p[1] = Head(p)
<1>1. /\ Tail(p) \in Path /\ Len(Tail(p)) = Len(p) - 1 /\ p[1] = Head(p)
      /\ \A i \in 1..Len(Tail(p)) : Tail(p)[i] = p[i + 1]
  BY HeadTailProperties DEF Path
<1>2. Len(p) \in Nat /\ Len(p) # 0
  BY PrefixByNames
<1>3. Len(p) > 1 <=> Len(Tail(p)) # 0
  BY <1>1, <1>2
<1>4. Len(Tail(p)) = 0 <=> Tail(p) = <<>>
  BY <1>1, PrefixByNames
<1>5. ASSUME Tail(p) # <<>> PROVE p[2] = Head(Tail(p))
  <2>1. 1 \in 1..Len(Tail(p)) /\ 1 + 1 = 2
    BY <1>1, <1>2, <1>4, <1>5
  <2>2. Tail(p)[1] = p[2]
    BY <1>1, <2>1
  <2>3. Tail(p)[1] = Head(Tail(p))
    BY <1>1, <1>5, HeadFacts
  <2> QED
    BY <2>2, <2>3
<1> QED
  BY <1>1, <1>3, <1>4, <1>5

\* Unbag moves what is below data/ one level up, entry by entry.
LEMMA MovedUpFacts ==
  ASSUME NEW t, IsTree(t), \A p \in DOMAIN t : Head(p) = "data",
         NEW E \in SUBSET FileName, "data" \notin E
  PROVE  LET r == MovedUp(t, E) IN
           /\ IsTree(r)
           /\ \A p \in DOMAIN t :
                ~(Tail(p) # <<>> /\ Head(Tail(p)) \in E) => p \in DOMAIN r /\ r[p] = t[p]
           /\ \A x \in Path \ {<<>>} : Head(x) \in E /\ <<"data">> \o x \in DOMAIN t =>
                x \in DOMAIN r /\ r[x] = t[<<"data">> \o x]
           /\ \A p \in DOMAIN r :
                \/ p \in DOMAIN t /\ ~(Tail(p) # <<>> /\ Head(Tail(p)) \in E)
                \/ p \in Path \ {<<>>} /\ Head(p) \in E /\ <<"data">> \o p \in DOMAIN t
<1> DEFINE r == MovedUp(t, E)
           moving == {p \in DOMAIN t : Tail(p) # <<>> /\ Head(Tail(p)) \in E}
           stay == {p \in DOMAIN t : ~(Tail(p) # <<>> /\ Head(Tail(p)) \in E)}
           come == {x \in Path \ {<<>>} : Head(x) \in E /\ <<"data">> \o x \in DOMAIN t}
<1>1. \A p \in DOMAIN t : p \in Path /\ p # <<>> /\ Head(p) = "data"
  BY DEF IsTree
<1>2. {p \in DOMAIN t : Len(p) > 1 /\ p[1] = "data" /\ p[2] \in E} = moving
  BY <1>1, SecondName
<1>3. {Tail(q) : q \in moving} = come
  <2>1. ASSUME NEW q \in moving PROVE Tail(q) \in come
    <3>1. q \in DOMAIN t /\ Tail(q) # <<>> /\ Head(Tail(q)) \in E
      OBVIOUS
    <3>2. q = <<"data">> \o Tail(q) /\ Tail(q) \in Path
      BY <1>1, <3>1, HeadFacts
    <3> QED
      BY <3>1, <3>2
  <2>2. ASSUME NEW x \in come PROVE x \in {Tail(q) : q \in moving}
    <3>1. x \in Path /\ x # <<>> /\ Head(x) \in E /\ <<"data">> \o x \in DOMAIN t
      OBVIOUS
    <3>2. Tail(<<"data">> \o x) = x
      BY <3>1, ConsFacts, Names
    <3> QED
      BY <3>1, <3>2
  <2> QED
    BY <2>1, <2>2
<1>4. r = [p \in stay \cup come |-> IF Head(p) \in E THEN t[<<"data">> \o p] ELSE t[p]]
  <2>1. DOMAIN t \ moving = stay
    OBVIOUS
  <2> QED
    BY <1>2, <1>3, <2>1 DEF MovedUp
<1>5. \A p \in stay : p \in DOMAIN t /\ Head(p) \notin E
  BY <1>1
<1>6. \A x \in come : x \in Path \ {<<>>} /\ Head(x) \in E /\ <<"data">> \o x \in DOMAIN t
  OBVIOUS
<1>s. \A p \in DOMAIN t : ~(Tail(p) # <<>> /\ Head(Tail(p)) \in E) <=> p \in stay
  OBVIOUS
<1>c. \A x \in Path \ {<<>>} : Head(x) \in E /\ <<"data">> \o x \in DOMAIN t => x \in come
  OBVIOUS
<1> HIDE DEF stay, come
<1>7. /\ DOMAIN r = stay \cup come /\ r = [p \in DOMAIN r |-> r[p]]
      /\ \A p \in stay : r[p] = t[p]
      /\ \A x \in come : r[x] = t[<<"data">> \o x]
  BY <1>4, <1>5, <1>6
<1> HIDE DEF r
<1>8. DOMAIN r \subseteq Path \ {<<>>}
  BY <1>1, <1>5, <1>6, <1>7
<1>9. ASSUME NEW p \in DOMAIN r, NEW q \in Path \ {<<>>}, IsPrefix(q, p), q # p
      PROVE  q \in DOMAIN r /\ r[q] = Dir
  <2>1. CASE p \in stay
    <3>1. q \in DOMAIN t /\ t[q] = Dir
      BY <1>5, <1>9, <2>1 DEF IsTree
    <3>2. q \in stay
      <4>1. SUFFICES ASSUME Tail(q) # <<>>, Head(Tail(q)) \in E PROVE FALSE
        BY <1>s, <3>1
      <4>2. /\ p \in Path /\ p # <<>> /\ p = <<"data">> \o Tail(p) /\ q = <<"data">> \o Tail(q)
            /\ Tail(p) \in Path /\ Tail(q) \in Path
        BY <1>1, <1>5, <2>1, <3>1, HeadFacts
      <4>3. <<"data">> \in Path
        BY Singleton, Names
      <4>4. IsPrefix(<<"data">> \o Tail(q), <<"data">> \o Tail(p))
        BY <1>9, <4>2
      <4>5. IsPrefix(Tail(q), Tail(p))
        BY <4>2, <4>3, <4>4, PrefixOfConcat
      <4>6. Tail(p) # <<>> /\ Head(Tail(p)) \in E
        BY <4>1, <4>2, <4>5, HeadOfPrefix
      <4> QED
        BY <1>5, <1>s, <2>1, <4>6
    <3> QED
      BY <1>7, <3>1, <3>2
  <2>2. CASE p \in come
    <3>1. p \in Path /\ p # <<>> /\ Head(p) \in E /\ <<"data">> \o p \in DOMAIN t
      BY <1>6, <2>2
    <3>2. Head(q) \in E
      BY <1>9, <3>1, HeadOfPrefix
    <3>3. <<"data">> \in Path /\ <<"data">> \o q \in Path /\ <<"data">> \o q # <<>>
      BY ConsFacts, Names
    <3>4. IsPrefix(<<"data">> \o q, <<"data">> \o p)
      BY <1>9, <3>1, <3>3, PrefixOfConcat
    <3>5. <<"data">> \o q # <<"data">> \o p
      BY <1>9, <3>1, <3>3, ConcatSimplifications DEF Path
    <3>6. <<"data">> \o q \in DOMAIN t /\ t[<<"data">> \o q] = Dir
      BY <3>1, <3>3, <3>4, <3>5 DEF IsTree
    <3> QED
      BY <1>7, <1>c, <3>2, <3>6
  <2> QED
    BY <1>7, <2>1, <2>2
<1>10. IsTree(r)
  BY <1>7, <1>8, <1>9 DEF IsTree
<1>11. \A p \in stay : p \in DOMAIN t /\ ~(Tail(p) # <<>> /\ Head(Tail(p)) \in E)
  BY DEF stay
<1> QED
  BY <1>6, <1>7, <1>10, <1>11, <1>c, <1>s DEF r

\* A path of two names.
LEMMA Pairs ==
  ASSUME NEW a \in FileName, NEW b \in FileName
  PROVE  <<a, b>> \in Path \ {<<>>} /\ Head(<<a, b>>) = a /\ Tail(<<a, b>>) = <<b>>
<1>1. <<a, b>> \in Path
  BY DEF Path
<1> QED
  BY <1>1

\* A path of three.
LEMMA Triples ==
  ASSUME NEW a \in FileName, NEW b \in FileName, NEW c \in FileName
  PROVE  <<a, b, c>> \in Path \ {<<>>} /\ Head(<<a, b, c>>) = a /\ Tail(<<a, b, c>>) = <<b, c>>
<1>1. <<a, b, c>> \in Path
  BY DEF Path
<1> QED
  BY <1>1

\* It is what the first name and the rest make.
LEMMA PairIsConcat ==
  ASSUME NEW a \in FileName, NEW b \in FileName
  PROVE  <<a, b>> = <<a>> \o <<b>>
<1>1. <<a, b>> \in Path /\ <<a, b>> # <<>>
  BY DEF Path
<1>2. Head(<<a, b>>) = a /\ Tail(<<a, b>>) = <<b>>
  OBVIOUS
<1> QED
  BY <1>1, <1>2, HeadFacts

\* So is it with three names.
LEMMA TripleIsConcat ==
  ASSUME NEW a \in FileName, NEW b \in FileName, NEW c \in FileName
  PROVE  <<a, b, c>> = <<a>> \o <<b, c>>
<1>1. <<a, b, c>> \in Path /\ <<a, b, c>> # <<>>
  BY DEF Path
<1>2. Head(<<a, b, c>>) = a /\ Tail(<<a, b, c>>) = <<b, c>>
  OBVIOUS
<1> QED
  BY <1>1, <1>2, HeadFacts

-----------------------------------------------------------------------------
(* A tree that is being restructured.                                       *)

\* Neither of two paths is below the other.
Apart(a, b) == ~IsPrefix(a, b) /\ ~IsPrefix(b, a)

\* Paths that are apart stay apart further below.
LEMMA ApartFacts ==
  ASSUME NEW a \in Path, NEW b \in Path, NEW x \in Path
  PROVE  /\ Apart(a, b) => Apart(b, a) /\ ~IsPrefix(a, b \o x) /\ ~IsPrefix(b, a \o x)
         /\ ~IsPrefix(a, b) => ~IsPrefix(a \o x, b)
<1>1. /\ a \o x \in Path /\ IsPrefix(a, a \o x)
      /\ b \o x \in Path /\ IsPrefix(b, b \o x)
  BY PrefixOfConcat
<1>2. IsPrefix(a, b \o x) => IsPrefix(a, b) \/ IsPrefix(b, a)
  BY <1>1, PrefixOrder
<1>3. IsPrefix(b, a \o x) => IsPrefix(a, b) \/ IsPrefix(b, a)
  BY <1>1, PrefixOrder
<1>4. IsPrefix(a \o x, b) => IsPrefix(a, b)
  BY <1>1, PrefixOrder
<1> QED
  BY <1>2, <1>3, <1>4 DEF Apart

\* The path q in the tree u is what the path p is in the tree t.
Same(u, q, t, p) == (q \in DOMAIN u <=> p \in DOMAIN t) /\ (p \in DOMAIN t => u[q] = t[p])

\* What a rename does, path by path.
LEMMA MoveSame ==
  ASSUME NEW t, IsTree(t), NEW from \in Path, NEW to \in Path \ {<<>>}, CanMove(t, from, to)
  PROVE  LET m == Move(t, from, to) IN
           /\ Apart(from, to)
           /\ \A p \in Path : ~IsPrefix(from, p) /\ ~IsPrefix(to, p) => Same(m, p, t, p)
           /\ \A x \in Path : Same(m, to \o x, t, from \o x)
           /\ \A x \in Path : from \o x \notin DOMAIN m
<1> DEFINE m == Move(t, from, to)
<1>1. /\ IsTree(m)
      /\ \A p \in DOMAIN t : ~IsPrefix(from, p) => p \in DOMAIN m /\ m[p] = t[p]
      /\ \A x \in Path : from \o x \in DOMAIN t =>
           to \o x \in DOMAIN m /\ m[to \o x] = t[from \o x]
      /\ \A p \in DOMAIN m : \/ p \in DOMAIN t /\ ~IsPrefix(from, p)
                             \/ \E x \in Path : p = to \o x /\ from \o x \in DOMAIN t
  BY MoveFacts
<1>2. /\ \A p \in DOMAIN t : ~IsPrefix(to, p)
      /\ ~IsPrefix(to, from) /\ ~IsPrefix(from, to)
  BY CanMoveFacts DEF CanMove
<1>3. Apart(from, to)
  BY <1>2 DEF Apart
<1>4. \A x \in Path : /\ to \o x \in Path /\ IsPrefix(to, to \o x)
                      /\ from \o x \in Path /\ IsPrefix(from, from \o x)
                      /\ ~IsPrefix(to, from \o x)
  BY <1>3, ApartFacts, PrefixOfConcat
<1> HIDE DEF m
<1>5. ASSUME NEW p \in Path, ~IsPrefix(from, p), ~IsPrefix(to, p) PROVE Same(m, p, t, p)
  BY <1>1, <1>4, <1>5 DEF Same
<1>6. ASSUME NEW x \in Path PROVE Same(m, to \o x, t, from \o x)
  <2>1. ASSUME to \o x \in DOMAIN m PROVE from \o x \in DOMAIN t
    <3>1. PICK y \in Path : to \o x = to \o y /\ from \o y \in DOMAIN t
      BY <1>1, <1>2, <1>4, <2>1
    <3>2. x = y
      BY <3>1, ConcatSimplifications DEF Path
    <3> QED
      BY <3>1, <3>2
  <2> QED
    BY <1>1, <2>1 DEF Same
<1>7. ASSUME NEW x \in Path, from \o x \in DOMAIN m PROVE FALSE
  <2>1. PICK y \in Path : from \o x = to \o y
    BY <1>1, <1>4, <1>7
  <2> QED
    BY <1>4, <2>1
<1> QED
  BY <1>3, <1>5, <1>6, <1>7 DEF m

\* The tree u is the tree t after the moves in M, from paths in M, and with the
\* directory h.  The places moved to are new; a move may take out of a directory
\* what is there before the directory itself is moved.
Moved(u, t, M, h) ==
  /\ IsTree(u)
  /\ \A p \in Path :
       (\A m \in M : ~IsPrefix(m.from, p) /\ ~IsPrefix(m.to, p)) /\ ~IsPrefix(p, h)
         => Same(u, p, t, p)
  /\ \A m \in M : \A x \in Path :
       (\A n \in M : IsPrefix(n.from, m.from \o x) => IsPrefix(n.from, m.from))
         => Same(u, m.to \o x, t, m.from \o x)
  /\ \A m \in M : \A n \in M : \A x \in Path :
       IsPrefix(n.from, m.from \o x) /\ ~IsPrefix(n.from, m.from) => m.to \o x \notin DOMAIN u
  /\ \A m \in M : \A x \in Path : m.from \o x \notin DOMAIN u
  /\ \A p \in Path \ {<<>>} : IsPrefix(p, h) => p \in Dirs(u)

\* A move from one path to another.
IsMove(m) == m.from \in Path /\ m.to \in Path \ {<<>>}

\* A directory on the way to a place is added.
LEMMA MovedMkdir ==
  ASSUME NEW u, NEW t, NEW M, NEW h \in Path, NEW d \in Path, IsTree(t), Moved(u, t, M, h),
         CanMkdir(u, d), IsPrefix(h, d),
         \A m \in M : IsMove(m) /\ ~IsPrefix(m.to, d) /\ ~IsPrefix(m.from, d)
  PROVE  Moved(MkdirAll(u, d), t, M, d)
<1> DEFINE w == MkdirAll(u, d)
<1>1. IsTree(u) /\ \A m \in M : m.from \in Path /\ m.to \in Path
  BY DEF Moved, IsMove
<1>2. /\ IsTree(w)
      /\ \A q : q \in DOMAIN w <=> q \in DOMAIN u \/ (q \in Path \ {<<>>} /\ IsPrefix(q, d))
      /\ \A p \in DOMAIN u : w[p] = u[p]
      /\ \A p \in DOMAIN w \ DOMAIN u : w[p] = Dir
  BY <1>1, MkdirFacts
<1>3. \A p \in Path : IsPrefix(p, h) => IsPrefix(p, d)
  BY PrefixOrder
<1>4. \A m \in M : \A x \in Path : /\ ~IsPrefix(m.to \o x, d) /\ ~IsPrefix(m.from \o x, d)
                                   /\ m.to \o x \in Path /\ m.from \o x \in Path
  BY <1>1, ApartFacts, ConcatFacts
<1> HIDE DEF w
<1>5. \A p \in Path : ~IsPrefix(p, d) => Same(w, p, u, p)
  BY <1>2 DEF Same
<1>6. ASSUME NEW p \in Path, ~IsPrefix(p, d),
             \A m \in M : ~IsPrefix(m.from, p) /\ ~IsPrefix(m.to, p)
      PROVE  Same(w, p, t, p)
  <2>1. Same(u, p, t, p)
    BY <1>3, <1>6 DEF Moved
  <2>2. Same(w, p, u, p)
    BY <1>5, <1>6
  <2> QED
    BY <2>1, <2>2 DEF Same
<1>7. ASSUME NEW m \in M, NEW x \in Path,
             \A n \in M : IsPrefix(n.from, m.from \o x) => IsPrefix(n.from, m.from)
      PROVE  Same(w, m.to \o x, t, m.from \o x)
  <2>1. Same(u, m.to \o x, t, m.from \o x)
    BY <1>7 DEF Moved
  <2>2. Same(w, m.to \o x, u, m.to \o x)
    BY <1>4, <1>5
  <2> QED
    BY <2>1, <2>2 DEF Same
<1>8. ASSUME NEW m \in M, NEW n \in M, NEW x \in Path,
             IsPrefix(n.from, m.from \o x), ~IsPrefix(n.from, m.from)
      PROVE  m.to \o x \notin DOMAIN w
  <2>1. m.to \o x \notin DOMAIN u
    BY <1>8 DEF Moved
  <2> QED
    BY <1>2, <1>4, <2>1
<1>9. ASSUME NEW m \in M, NEW x \in Path PROVE m.from \o x \notin DOMAIN w
  <2>1. m.from \o x \notin DOMAIN u
    BY DEF Moved
  <2> QED
    BY <1>2, <1>4, <2>1
<1>10. ASSUME NEW p \in Path \ {<<>>}, IsPrefix(p, d) PROVE p \in Dirs(w)
  <2>1. p \in Prefixes(d)
    BY <1>10, PrefixesFacts
  <2>2. p \in DOMAIN w /\ p \notin Files(u)
    BY <1>2, <1>10, <2>1 DEF CanMkdir
  <2> QED
    BY <1>2, <2>2 DEF Files, Dirs
<1> QED
  BY <1>2, <1>6, <1>7, <1>8, <1>9, <1>10 DEF Moved, w

\* Something is moved that has not been moved yet, to a place of its own.
LEMMA MovedMove ==
  ASSUME NEW u, NEW t, NEW M, NEW h \in Path, NEW n, IsTree(t), Moved(u, t, M, h),
         IsMove(n), CanMove(u, n.from, n.to),
         \A m \in M : /\ IsMove(m) /\ ~IsPrefix(m.from, n.from) /\ Apart(n.from, m.to)
                      /\ Apart(n.to, m.to) /\ Apart(n.to, m.from),
         ~IsPrefix(n.from, h), ~IsPrefix(n.to, h)
  PROVE  Moved(Move(u, n.from, n.to), t, M \cup {n}, h)
<1> DEFINE w == Move(u, n.from, n.to)
           N == M \cup {n}
<1>1. /\ IsTree(u) /\ n.from \in Path /\ n.to \in Path \ {<<>>}
      /\ \A m \in M : m.from \in Path /\ m.to \in Path
  BY DEF Moved, IsMove
<1>2. /\ Apart(n.from, n.to)
      /\ \A p \in Path : ~IsPrefix(n.from, p) /\ ~IsPrefix(n.to, p) => Same(w, p, u, p)
      /\ \A x \in Path : Same(w, n.to \o x, u, n.from \o x)
      /\ \A x \in Path : n.from \o x \notin DOMAIN w
  BY <1>1, MoveSame
<1>3. IsTree(w)
  BY <1>1, MoveFacts
<1> HIDE DEF w
<1>4. \A m \in M : \A x \in Path :
        /\ m.to \o x \in Path /\ m.from \o x \in Path
        /\ ~IsPrefix(n.from, m.to \o x) /\ ~IsPrefix(n.to, m.to \o x)
        /\ ~IsPrefix(n.to, m.from \o x) /\ ~IsPrefix(m.to, n.from \o x)
  <2> TAKE m \in M
  <2> TAKE x \in Path
  <2>1. m.from \in Path /\ m.to \in Path /\ Apart(n.from, m.to) /\ Apart(n.to, m.to)
        /\ Apart(n.to, m.from)
    BY <1>1
  <2> QED
    BY <1>1, <2>1, ApartFacts, ConcatFacts
<1>5. \A x \in Path : /\ n.from \o x \in Path /\ n.to \o x \in Path
                      /\ ~IsPrefix(n.from \o x, h) /\ ~IsPrefix(n.to \o x, h)
                      /\ IsPrefix(n.from, n.from \o x)
  BY <1>1, ApartFacts, PrefixOfConcat
<1>6. ASSUME NEW p \in Path, ~IsPrefix(p, h),
             \A m \in N : ~IsPrefix(m.from, p) /\ ~IsPrefix(m.to, p)
      PROVE  Same(w, p, t, p)
  <2>1. Same(u, p, t, p)
    BY <1>6 DEF Moved
  <2>2. Same(w, p, u, p)
    BY <1>2, <1>6
  <2> QED
    BY <2>1, <2>2 DEF Same
<1>7. ASSUME NEW m \in N, NEW x \in Path,
             \A k \in N : IsPrefix(k.from, m.from \o x) => IsPrefix(k.from, m.from)
      PROVE  Same(w, m.to \o x, t, m.from \o x)
  <2>1. CASE m \in M
    <3>1. Same(u, m.to \o x, t, m.from \o x)
      BY <1>7, <2>1 DEF Moved
    <3>2. Same(w, m.to \o x, u, m.to \o x)
      BY <1>2, <1>4, <2>1
    <3> QED
      BY <3>1, <3>2 DEF Same
  <2>2. CASE m = n
    <3>1. \A k \in M : ~IsPrefix(k.from, n.from \o x) /\ ~IsPrefix(k.to, n.from \o x)
      BY <1>4, <1>7, <2>2
    <3>2. Same(u, n.from \o x, t, n.from \o x)
      BY <1>5, <3>1 DEF Moved
    <3>3. Same(w, n.to \o x, u, n.from \o x)
      BY <1>2
    <3> QED
      BY <2>2, <3>2, <3>3 DEF Same
  <2> QED
    BY <2>1, <2>2
<1>8. ASSUME NEW m \in N, NEW k \in N, NEW x \in Path,
             IsPrefix(k.from, m.from \o x), ~IsPrefix(k.from, m.from)
      PROVE  m.to \o x \notin DOMAIN w
  <2>1. CASE m \in M /\ k \in M
    <3>1. m.to \o x \notin DOMAIN u
      BY <1>8, <2>1 DEF Moved
    <3>2. Same(w, m.to \o x, u, m.to \o x)
      BY <1>2, <1>4, <2>1
    <3> QED
      BY <3>1, <3>2 DEF Same
  <2>2. CASE m \in M /\ k = n
    <3>1. n.from \in Path /\ m.from \in Path /\ m.from \o x \in Path
          /\ IsPrefix(m.from, m.from \o x)
      BY <1>1, <2>2, PrefixOfConcat
    <3>2. IsPrefix(m.from, n.from)
      BY <1>8, <2>2, <3>1, PrefixOrder
    <3> QED
      BY <2>2, <3>2
  <2>3. CASE m = n /\ k \in M
    <3>1. k.from \in Path /\ n.from \o x \in Path
      BY <1>1, <1>5, <2>3
    <3>2. PICK y \in Path : n.from \o x = k.from \o y
      BY <1>8, <2>3, <3>1, PrefixIsConcat
    <3>3. n.from \o x \notin DOMAIN u
      BY <2>3, <3>2 DEF Moved
    <3>4. Same(w, n.to \o x, u, n.from \o x)
      BY <1>2
    <3> QED
      BY <2>3, <3>3, <3>4 DEF Same
  <2>4. CASE m = n /\ k = n
    BY <1>8, <2>4, PrefixOrder, <1>1
  <2> QED
    BY <2>1, <2>2, <2>3, <2>4
<1>9. ASSUME NEW m \in N, NEW x \in Path PROVE m.from \o x \notin DOMAIN w
  <2>1. CASE m = n
    BY <1>2, <2>1
  <2>2. CASE m \in M
    <3>1. m.from \o x \notin DOMAIN u
      BY <2>2 DEF Moved
    <3>2. CASE IsPrefix(n.from, m.from \o x)
      <4>1. PICK y \in Path : m.from \o x = n.from \o y
        <5>1. n.from \in Path /\ m.from \o x \in Path
          BY <1>1, <1>4, <2>2
        <5> QED
          BY <3>2, <5>1, PrefixIsConcat
      <4> QED
        BY <1>2, <4>1
    <3>3. CASE ~IsPrefix(n.from, m.from \o x)
      <4>1. Same(w, m.from \o x, u, m.from \o x)
        BY <1>2, <1>4, <2>2, <3>3
      <4> QED
        BY <3>1, <4>1 DEF Same
    <3> QED
      BY <3>2, <3>3
  <2> QED
    BY <2>1, <2>2
<1>10. ASSUME NEW p \in Path \ {<<>>}, IsPrefix(p, h) PROVE p \in Dirs(w)
  <2>1. p \in Dirs(u)
    BY <1>10 DEF Moved
  <2>2. ~IsPrefix(n.from, p) /\ ~IsPrefix(n.to, p)
    BY <1>1, <1>10, PrefixOrder
  <2>3. Same(w, p, u, p)
    BY <1>2, <2>2
  <2> QED
    BY <2>1, <2>3 DEF Same, Dirs
<1> QED
  BY <1>3, <1>6, <1>7, <1>8, <1>9, <1>10 DEF Moved, w

=============================================================================
