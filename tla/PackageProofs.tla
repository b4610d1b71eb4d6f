---------------------------- MODULE PackageProofs -----------------------------
(***************************************************************************)
(* Proofs about module Package.                                            *)
(*                                                                         *)
(* A tree that is being restructured is described by the moves made so far *)
(* (Moved, Stage): whatever lay below the source of one lies below its     *)
(* target, unless a move before took it away.  Together they put every     *)
(* file at its place (Placed), and the steps after them leave it there.    *)
(* PackageInv says, for each activity, which of these trees it is called   *)
(* with and what the checks before it have found.                          *)
(***************************************************************************)
EXTENDS PackageTrees, WellFoundedInduction

-----------------------------------------------------------------------------
(* The submitted package.                                                   *)

\* What a package is made of.
LEMMA PackageFacts ==
  ASSUME NEW k \in Packages
  PROVE  /\ k.files \subseteq Path \ {<<>>} /\ k.dirs \subseteq Path \ {<<>>}
         /\ k.bag \in BOOLEAN /\ [k EXCEPT !.bag = FALSE].files = k.files
         /\ [k EXCEPT !.bag = FALSE].dirs = k.dirs /\ [k EXCEPT !.bag = FALSE].bag = FALSE
         /\ k.bag = FALSE => [k EXCEPT !.bag = FALSE] = k
         /\ \A f \in k.files : \A p \in k.files \cup k.dirs : IsPrefix(f, p) => p = f
         /\ \A m \in {"metadata.xml", Updated} : k.listed[m] \subseteq Path \ {<<>>}
         /\ k.bag = FALSE => TagFile \notin DOMAIN Submitted(k)
<1>1. k \in [files : PathSets, dirs : PathSets, bag : BOOLEAN, corrupt : PathSets,
             supported : BOOLEAN, listed : [{"metadata.xml", Updated} -> PathSets]]
  BY PackagesAreTrees
<1>2. \A S \in PathSets : S \subseteq Path \ {<<>>}
  BY PathsArePaths DEF PathSets
<1>3. k.files \in PathSets /\ k.dirs \in PathSets
      /\ \A m \in {"metadata.xml", Updated} : k.listed[m] \in PathSets
  BY <1>1
<1>4. /\ k.bag \in BOOLEAN /\ [k EXCEPT !.bag = FALSE].files = k.files
      /\ [k EXCEPT !.bag = FALSE].dirs = k.dirs /\ [k EXCEPT !.bag = FALSE].bag = FALSE
      /\ k.bag = FALSE => [k EXCEPT !.bag = FALSE] = k
  BY <1>1
<1>5. /\ \A f \in k.files : \A p \in k.files \cup k.dirs : IsPrefix(f, p) => p = f
      /\ k.bag = FALSE => TagFile \notin DOMAIN Submitted(k)
  BY PackagesAreTrees
<1> QED
  BY <1>2, <1>3, <1>4, <1>5

\* The package as it is without its bag.
Payload(k) == Submitted([k EXCEPT !.bag = FALSE])

\* It is a tree of the submitted files, each of them itself.
LEMMA PayloadFacts ==
  ASSUME NEW k \in Packages
  PROVE  /\ IsTree(Payload(k)) /\ Files(Payload(k)) = k.files
         /\ \A f \in k.files : Payload(k)[f] = f
         /\ DOMAIN Payload(k) = Spanned(k.files \cup k.dirs)
         /\ k.bag = FALSE => Submitted(k) = Payload(k)
<1> DEFINE k0 == [k EXCEPT !.bag = FALSE]
           f0 == [p \in k.files |-> p]
<1>1. k0.files = k.files /\ k0.dirs = k.dirs /\ k0.bag = FALSE
  BY PackageFacts
<1>2. /\ k.files \subseteq Path \ {<<>>} /\ k.dirs \subseteq Path \ {<<>>}
      /\ \A f \in k.files : \A p \in k.files \cup k.dirs : IsPrefix(f, p) => p = f
  BY PackageFacts
<1>3. \A p \in Path : <<>> \o p = p
  BY ConcatFacts
<1>4. {<<>> \o p : p \in k.files} = k.files /\ {<<>> \o d : d \in k.dirs} = k.dirs
  BY <1>2, <1>3
<1>5. ASSUME NEW p \in k.files PROVE Rebase(p, <<>>, <<>>) = p
  <2>1. <<>> \in Path /\ p \in Path
    BY <1>2, EmptySeq DEF Path
  <2>2. Rebase(<<>> \o p, <<>>, <<>>) = <<>> \o p
    BY <2>1, RebaseFacts
  <2> QED
    BY <1>3, <2>1, <2>2
<1>6. Submitted(k0) = TreeOf(f0, k.dirs)
  <2>1. Submitted(k0) =
          TreeOf([p \in {<<>> \o p : p \in k.files} \cup {} |->
                    IF p \in {} THEN p ELSE Rebase(p, <<>>, <<>>)],
                 {<<>> \o d : d \in k.dirs})
    BY <1>1 DEF Submitted
  <2>2. [p \in k.files \cup {} |-> IF p \in {} THEN p ELSE Rebase(p, <<>>, <<>>)] = f0
    BY <1>5
  <2> QED
    BY <1>4, <2>1, <2>2
<1>7. DOMAIN f0 = k.files /\ \A p \in DOMAIN f0 : f0[p] = p /\ f0[p] # Dir
  BY <1>2 DEF Dir
<1> HIDE DEF f0
<1>8. LET t == TreeOf(f0, k.dirs) IN
        /\ IsTree(t) /\ Files(t) = k.files /\ \A p \in k.files : t[p] = p
        /\ DOMAIN t = Spanned(k.files \cup k.dirs)
  <2>1. DOMAIN f0 \cup k.dirs \subseteq Path \ {<<>>}
    BY <1>2, <1>7
  <2>2. \A p \in DOMAIN f0 : \A q \in DOMAIN f0 \cup k.dirs : IsPrefix(p, q) => q = p
    BY <1>2, <1>7
  <2>3. LET t == TreeOf(f0, k.dirs) IN
          /\ IsTree(t) /\ Files(t) = DOMAIN f0 /\ \A p \in DOMAIN f0 : t[p] = f0[p]
          /\ DOMAIN t = Spanned(DOMAIN f0 \cup k.dirs)
    BY <1>7, <2>1, <2>2, TreeOfFacts, ZenonT(60)
  <2> QED
    BY <1>7, <2>3
<1>9. k.bag = FALSE => k0 = k
  BY PackageFacts
<1> QED
  BY <1>6, <1>8, <1>9 DEF Payload

\* In a bag everything is below data/, except for the tag file.
LEMMA BagFacts ==
  ASSUME NEW k \in Packages, k.bag = TRUE
  PROVE  /\ IsTree(Submitted(k)) /\ TagFile \in DOMAIN Submitted(k)
         /\ \A p \in DOMAIN Submitted(k) : p = TagFile \/ Head(p) = "data"
         /\ \A x \in Path \ {<<>>} :
              /\ <<"data">> \o x \in DOMAIN Submitted(k) <=> x \in DOMAIN Payload(k)
              /\ x \in DOMAIN Payload(k) => Submitted(k)[<<"data">> \o x] = Payload(k)[x]
<1> DEFINE d == <<"data">>
           F == {d \o f : f \in k.files}
           D == {d \o f : f \in k.dirs}
           fb == [p \in F \cup {TagFile} |-> IF p \in {TagFile} THEN p ELSE Rebase(p, d, <<>>)]
           s == Submitted(k)
           b == Payload(k)
<1>1. /\ k.files \subseteq Path \ {<<>>} /\ k.dirs \subseteq Path \ {<<>>}
      /\ \A f \in k.files : \A p \in k.files \cup k.dirs : IsPrefix(f, p) => p = f
  BY PackageFacts
<1>2. s = TreeOf(fb, D)
  BY DEF Submitted
<1>3. /\ TagFile \in Path /\ TagFile # <<>> /\ Head(TagFile) = "bagit.txt"
      /\ d \in Path /\ d # <<>> /\ Head(d) = "data" /\ "data" # "bagit.txt"
      /\ \A p \in Path : p # <<>> => (IsPrefix(TagFile, p) <=> Head(p) = "bagit.txt")
  BY Singleton, HeadFacts, Names DEF TagFile
<1>4. \A x \in Path : d \o x \in Path /\ d \o x # <<>> /\ Head(d \o x) = "data"
                      /\ Tail(d \o x) = x
  BY ConsFacts, Names
<1>5. DOMAIN fb = F \cup {TagFile}
  OBVIOUS
<1>6. \A f \in k.files : d \o f \in DOMAIN fb /\ fb[d \o f] = f /\ f # <<>>
  <2> TAKE f \in k.files
  <2>1. f \in Path /\ f # <<>> /\ d \o f \in F /\ d \o f # TagFile
    BY <1>1, <1>3, <1>4
  <2>2. Rebase(d \o f, d, <<>>) = <<>> \o f
    BY <1>3, <2>1, RebaseFacts
  <2>3. <<>> \o f = f
    BY <2>1, ConcatFacts
  <2> QED
    BY <2>1, <2>2, <2>3
<1>7. fb[TagFile] = TagFile
  OBVIOUS
<1>8. \A p \in F : \E f \in k.files : p = d \o f
  OBVIOUS
<1>9. \A p \in D : \E f \in k.dirs : p = d \o f
  OBVIOUS
<1>10. \A f \in k.dirs : d \o f \in D
  OBVIOUS
<1> HIDE DEF fb, F, D, d
<1>11. DOMAIN fb \cup D \subseteq Path \ {<<>>}
  <2>1. F \subseteq Path \ {<<>>}
    BY <1>1, <1>4, <1>8
  <2>2. D \subseteq Path \ {<<>>}
    BY <1>1, <1>4, <1>9
  <2> QED
    BY <1>3, <1>5, <2>1, <2>2
<1>12. \A p \in DOMAIN fb : fb[p] # Dir
  BY <1>3, <1>5, <1>6, <1>7, <1>8, ZenonT(60) DEF Dir
<1>13. ASSUME NEW p \in DOMAIN fb, NEW q \in DOMAIN fb \cup D, IsPrefix(p, q)
       PROVE  q = p
  <2>1. p \in Path /\ p # <<>> /\ q \in Path /\ q # <<>> /\ Head(p) = Head(q)
    BY <1>11, <1>13, HeadOfPrefix
  <2>2. CASE p = TagFile
    BY <1>3, <1>4, <1>5, <1>1, <1>8, <1>9, <2>1, <2>2
  <2>3. CASE p \in F
    <3>1. PICK f \in k.files : p = d \o f
      BY <1>8, <2>3
    <3>2. PICK g \in k.files \cup k.dirs : q = d \o g
      BY <1>1, <1>3, <1>4, <1>5, <1>8, <1>9, <2>1, <3>1
    <3>3. IsPrefix(d \o f, d \o g)
      BY <1>13, <3>1, <3>2
    <3>4. IsPrefix(f, g)
      BY <1>1, <1>3, <3>3, PrefixOfConcat
    <3> QED
      BY <1>1, <3>1, <3>2, <3>4
  <2> QED
    BY <1>5, <2>2, <2>3
<1>14. /\ IsTree(s) /\ Files(s) = DOMAIN fb /\ \A p \in DOMAIN fb : s[p] = fb[p]
       /\ DOMAIN s = Spanned(DOMAIN fb \cup D)
  <2>1. \A p \in DOMAIN fb : \A q \in DOMAIN fb \cup D : IsPrefix(p, q) => q = p
    BY <1>13
  <2> QED
    BY <1>2, <1>11, <1>12, <2>1, TreeOfFacts
<1>15. TagFile \in DOMAIN s
  BY <1>3, <1>5, <1>14, PrefixOrder DEF Spanned
<1>16. ASSUME NEW p \in DOMAIN s PROVE p = TagFile \/ Head(p) = "data"
  <2>1. PICK q \in DOMAIN fb \cup D : IsPrefix(p, q) /\ p \in Path /\ p # <<>> /\ q \in Path
    BY <1>11, <1>14 DEF Spanned
  <2>2. Head(p) = Head(q)
    BY <2>1, HeadOfPrefix
  <2>3. CASE q = TagFile
    <3>1. IsPrefix(TagFile, p)
      BY <1>3, <2>1, <2>2, <2>3
    <3> QED
      BY <1>3, <2>1, <2>3, <3>1, PrefixOrder
  <2>4. CASE q \in F \cup D
    BY <1>1, <1>4, <1>8, <1>9, <2>2, <2>4
  <2> QED
    BY <1>5, <2>3, <2>4
<1>17. /\ IsTree(b) /\ Files(b) = k.files /\ \A f \in k.files : b[f] = f
       /\ DOMAIN b = Spanned(k.files \cup k.dirs)
  BY PayloadFacts
<1>18. ASSUME NEW x \in Path \ {<<>>}
       PROVE  /\ d \o x \in DOMAIN s <=> x \in DOMAIN b
              /\ x \in DOMAIN b => s[d \o x] = b[x]
  <2>1. ASSUME d \o x \in DOMAIN s PROVE x \in DOMAIN b
    <3>1. PICK q \in DOMAIN fb \cup D : IsPrefix(d \o x, q) /\ q \in Path
      BY <1>11, <1>14, <2>1 DEF Spanned
    <3>2. Head(q) = "data"
      BY <1>4, <3>1, HeadOfPrefix
    <3>3. PICK f \in k.files \cup k.dirs : q = d \o f
      BY <1>3, <1>5, <1>8, <1>9, <3>2
    <3>4. IsPrefix(d \o x, d \o f)
      BY <3>1, <3>3
    <3>5. IsPrefix(x, f)
      BY <1>1, <1>3, <3>4, PrefixOfConcat
    <3> QED
      BY <1>17, <3>5 DEF Spanned
  <2>2. ASSUME x \in DOMAIN b PROVE d \o x \in DOMAIN s
    <3>1. PICK f \in k.files \cup k.dirs : IsPrefix(x, f) /\ f \in Path
      BY <1>1, <1>17, <2>2 DEF Spanned
    <3>2. IsPrefix(d \o x, d \o f) /\ d \o f \in DOMAIN fb \cup D
      BY <1>3, <1>6, <1>10, <3>1, PrefixOfConcat
    <3>3. d \o x \in Path \ {<<>>}
      BY <1>4
    <3> QED
      BY <1>14, <3>2, <3>3 DEF Spanned
  <2>3. ASSUME x \in DOMAIN b PROVE s[d \o x] = b[x]
    <3>1. CASE x \in k.files
      <4>1. d \o x \in DOMAIN fb /\ fb[d \o x] = x
        BY <1>6, <3>1
      <4>2. s[d \o x] = fb[d \o x] /\ b[x] = x
        BY <1>14, <1>17, <3>1, <4>1
      <4> QED
        BY <4>1, <4>2
    <3>2. CASE x \notin k.files
      <4>1. b[x] = Dir
        BY <1>17, <2>3, <3>2 DEF Files
      <4>2. d \o x \notin DOMAIN fb
        <5>1. SUFFICES ASSUME d \o x \in DOMAIN fb PROVE FALSE
          OBVIOUS
        <5>2. d \o x # TagFile
          BY <1>3, <1>4
        <5>3. PICK f \in k.files : d \o x = d \o f
          BY <1>5, <1>8, <5>1, <5>2
        <5>4. f \in Path
          BY <1>1
        <5>5. x = f
          BY <1>3, <5>3, <5>4, ConcatSimplifications DEF Path
        <5> QED
          BY <3>2, <5>5
      <4>3. s[d \o x] = Dir
        BY <1>14, <2>2, <2>3, <4>2 DEF Files
      <4> QED
        BY <4>1, <4>3
    <3> QED
      BY <3>1, <3>2
  <2> QED
    BY <2>1, <2>2, <2>3
<1> QED
  BY <1>14, <1>15, <1>16, <1>18 DEF d

-----------------------------------------------------------------------------
(* Unbag.                                                                   *)

\* The entries of a directory are names, and an entry at the top is a path of
\* one name.
LEMMA EntryFacts ==
  ASSUME NEW t, IsTree(t)
  PROVE  /\ \A d \in Path : Entries(t, d) \subseteq FileName
         /\ \A e \in FileName : \A d \in Path :
              d \o <<e>> \in DOMAIN t => e \in Entries(t, d) /\ d \o <<e>> \in Children(t, d)
         /\ \A p \in Children(t, <<>>) : p \in Path /\ p = <<Last(p)>> /\ Last(p) \in FileName
<1>1. \A p \in DOMAIN t : p \in Path /\ p # <<>>
  BY DEF IsTree
<1>2. \A d \in Path : Entries(t, d) \subseteq FileName
  BY <1>1, ParentFacts DEF Entries, Children
<1>3. ASSUME NEW e \in FileName, NEW d \in Path, d \o <<e>> \in DOMAIN t
      PROVE  e \in Entries(t, d) /\ d \o <<e>> \in Children(t, d)
  <2>1. Parent(d \o <<e>>) = d /\ Last(d \o <<e>>) = e
    <3>1. <<e>> \in Path /\ <<e>> # <<>>
      BY Singleton
    <3> QED
      BY <3>1, ParentOfConcat
  <2> QED
    BY <1>3, <2>1 DEF Entries, Children
<1>4. ASSUME NEW p \in Children(t, <<>>)
      PROVE  p \in Path /\ p = <<Last(p)>> /\ Last(p) \in FileName
  <2>1. p \in Path /\ p # <<>> /\ Parent(p) = <<>>
    BY <1>1 DEF Children
  <2>2. p = Parent(p) \o <<Last(p)>> /\ <<Last(p)>> \in Path /\ Last(p) \in FileName
    BY <2>1, ParentFacts
  <2>3. <<>> \o <<Last(p)>> = <<Last(p)>>
    BY <2>2, ConcatFacts
  <2> QED
    BY <2>1, <2>2, <2>3
<1> QED
  BY <1>2, <1>3, <1>4

\* Deleting entries beside data/ leaves what is below it.
LEMMA ClearedFacts ==
  ASSUME NEW t, IsTree(t), NEW D \in SUBSET (Children(t, <<>>) \ {<<"data">>})
  PROVE  LET u == Without(t, D) IN
           /\ IsTree(u)
           /\ \A p \in DOMAIN u : p \in DOMAIN t /\ u[p] = t[p]
           /\ \A p \in DOMAIN t : Head(p) = "data" => p \in DOMAIN u
           /\ D = Children(t, <<>>) \ {<<"data">>} => \A p \in DOMAIN u : Head(p) = "data"
<1> DEFINE u == Without(t, D)
<1>1. \A p \in Children(t, <<>>) : p \in Path /\ p = <<Last(p)>> /\ Last(p) \in FileName
  BY EntryFacts
<1>2. /\ IsTree(u)
      /\ \A q : q \in DOMAIN u <=> q \in DOMAIN t /\ \A d \in D : ~IsPrefix(d, q)
      /\ \A p \in DOMAIN u : u[p] = t[p]
  BY <1>1, WithoutFacts
<1>3. \A p \in DOMAIN t : p \in Path /\ p # <<>>
  BY DEF IsTree
<1>4. ASSUME NEW p \in DOMAIN t, Head(p) = "data", NEW d \in D PROVE ~IsPrefix(d, p)
  <2>1. d = <<Last(d)>> /\ Last(d) \in FileName /\ d # <<"data">>
    BY <1>1
  <2>2. Last(d) # "data"
    BY <2>1
  <2> QED
    BY <1>3, <1>4, <2>1, <2>2, HeadFacts
<1>5. ASSUME D = Children(t, <<>>) \ {<<"data">>}, NEW p \in DOMAIN u, Head(p) # "data"
      PROVE  FALSE
  <2>1. p \in DOMAIN t /\ p \in Path /\ p # <<>> /\ \A d \in D : ~IsPrefix(d, p)
    BY <1>2, <1>3
  <2>2. Head(p) \in FileName /\ <<Head(p)>> \in Path /\ IsPrefix(<<Head(p)>>, p)
        /\ <<Head(p)>> # <<>> /\ <<Head(p)>>[1] = Head(p)
    BY <2>1, HeadFacts, Singleton
  <2>3. <<Head(p)>> \in DOMAIN t
    BY <2>1, <2>2, TreeFacts
  <2>4. <<>> \o <<Head(p)>> = <<Head(p)>> /\ <<>> \in Path
    BY <2>2, ConcatFacts, EmptySeq DEF Path
  <2>5. <<Head(p)>> \in Children(t, <<>>)
    BY <2>2, <2>3, <2>4, EntryFacts, ZenonT(60)
  <2>6. <<Head(p)>> # <<"data">>
    BY <1>5, <2>2
  <2> QED
    BY <1>5, <2>1, <2>2, <2>5, <2>6
<1> QED
  BY <1>2, <1>4, <1>5

\* The unbagged package is the one that was put into the bag.
LEMMA UnbaggedFacts ==
  ASSUME NEW k \in Packages, k.bag = TRUE, <<"data">> \in DOMAIN Submitted(k),
         "data" \notin Entries(Submitted(k), <<"data">>)
  PROVE  LET t == Submitted(k)
             others  == Children(t, <<>>) \ {<<"data">>}
             payload == Entries(t, <<"data">>) IN
           Without(MovedUp(Without(t, others), payload), {<<"data">>}) = Payload(k)
<1> DEFINE t == Submitted(k)
           others == Children(t, <<>>) \ {<<"data">>}
           E == Entries(t, <<"data">>)
           u == Without(t, others)
           r == MovedUp(u, E)
           w == Without(r, {<<"data">>})
           b == Payload(k)
<1>1. /\ IsTree(t)
      /\ \A x \in Path \ {<<>>} :
           /\ <<"data">> \o x \in DOMAIN t <=> x \in DOMAIN b
           /\ x \in DOMAIN b => t[<<"data">> \o x] = b[x]
  BY BagFacts
<1>2. /\ IsTree(u) /\ \A p \in DOMAIN u : p \in DOMAIN t /\ u[p] = t[p] /\ Head(p) = "data"
      /\ \A p \in DOMAIN t : Head(p) = "data" => p \in DOMAIN u
  BY <1>1, ClearedFacts
<1>3. <<"data">> \in Path /\ <<"data">> # <<>>
  BY Singleton, Names
<1>4. E \subseteq FileName /\ "data" \notin E
  BY <1>1, <1>3, EntryFacts
<1>5. \A x \in Path : <<"data">> \o x \in Path /\ Head(<<"data">> \o x) = "data"
  BY ConsFacts, Names
<1>6. IsTree(b)
  BY PayloadFacts
<1>e. ASSUME NEW x \in DOMAIN b PROVE Head(x) \in E
  <2>1. x \in Path /\ x # <<>>
    BY <1>6 DEF IsTree
  <2>2. Head(x) \in FileName /\ <<Head(x)>> \in Path /\ IsPrefix(<<Head(x)>>, x)
        /\ <<Head(x)>> # <<>>
    BY <2>1, HeadFacts, Singleton
  <2>3. <<Head(x)>> \in DOMAIN b
    BY <1>6, <2>1, <2>2, TreeFacts
  <2>4. <<"data">> \o <<Head(x)>> \in DOMAIN t
    BY <1>1, <2>2, <2>3
  <2> QED
    BY <1>1, <1>3, <2>2, <2>4, EntryFacts
<1> HIDE DEF t, E, u, b
<1>7. /\ IsTree(r)
      /\ \A x \in Path \ {<<>>} : Head(x) \in E /\ <<"data">> \o x \in DOMAIN u =>
           x \in DOMAIN r /\ r[x] = u[<<"data">> \o x]
      /\ \A p \in DOMAIN r :
           \/ p \in DOMAIN u /\ ~(Tail(p) # <<>> /\ Head(Tail(p)) \in E)
           \/ p \in Path \ {<<>>} /\ Head(p) \in E /\ <<"data">> \o p \in DOMAIN u
  BY <1>2, <1>4, MovedUpFacts
<1>8. \A x \in DOMAIN r : \/ Head(x) = "data"
                          \/ x \in Path \ {<<>>} /\ Head(x) \in E /\ <<"data">> \o x \in DOMAIN u
  BY <1>2, <1>7
<1>9. \A x \in Path \ {<<>>} : Head(x) \in E /\ <<"data">> \o x \in DOMAIN u => x \in DOMAIN r
  BY <1>7
<1> HIDE DEF r
<1>10. /\ IsTree(w)
       /\ \A q : q \in DOMAIN w <=> q \in DOMAIN r /\ \A d \in {<<"data">>} : ~IsPrefix(d, q)
       /\ \A p \in DOMAIN w : w[p] = r[p]
  BY <1>3, <1>7, WithoutFacts
<1>11. \A p \in DOMAIN r : p \in Path /\ p # <<>> /\ (IsPrefix(<<"data">>, p) <=> Head(p) = "data")
  BY <1>7, HeadFacts, Names DEF IsTree
<1>12. \A x \in DOMAIN w : x \in DOMAIN r /\ Head(x) # "data"
  BY <1>10, <1>11
<1>13. \A x \in DOMAIN r : Head(x) # "data" => x \in DOMAIN w
  BY <1>10, <1>11
<1> HIDE DEF w
<1>14. ASSUME NEW x \in DOMAIN w PROVE x \in DOMAIN b /\ w[x] = b[x]
  <2>1. x \in Path \ {<<>>} /\ Head(x) \in E /\ <<"data">> \o x \in DOMAIN u /\ x \in DOMAIN r
    BY <1>8, <1>12
  <2>2. w[x] = u[<<"data">> \o x]
    BY <1>7, <1>10, <2>1
  <2>3. <<"data">> \o x \in DOMAIN t /\ w[x] = t[<<"data">> \o x]
    BY <1>2, <2>1, <2>2
  <2> QED
    BY <1>1, <2>1, <2>3
<1>15. ASSUME NEW x \in DOMAIN b PROVE x \in DOMAIN w
  <2>1. x \in Path \ {<<>>}
    BY <1>6 DEF IsTree
  <2>2. <<"data">> \o x \in DOMAIN u
    BY <1>1, <1>2, <1>5, <2>1
  <2>3. x \in DOMAIN r /\ Head(x) # "data"
    BY <1>4, <1>9, <1>e, <2>1, <2>2
  <2> QED
    BY <1>13, <2>3
<1>16. w = b
  <2>1. DOMAIN w = DOMAIN b
    BY <1>14, <1>15
  <2> QED
    BY <1>6, <1>10, <1>14, <2>1, TreesEqual
<1> QED
  BY <1>16 DEF w, r, u, E, t, b

\* An Unbag that stops while it moves entries up has only moved them.
LEMMA MovedUpKeeps ==
  ASSUME NEW k \in Packages, k.bag = TRUE,
         NEW E \in SUBSET (Entries(Submitted(k), <<"data">>) \ {"data"})
  PROVE  LET t == Submitted(k)
             others == Children(t, <<>>) \ {<<"data">>}
             r == MovedUp(Without(t, others), E) IN
           IsTree(r) /\ \A x \in DOMAIN Payload(k) : \E p \in DOMAIN r : r[p] = Payload(k)[x]
<1> DEFINE t == Submitted(k)
           others == Children(t, <<>>) \ {<<"data">>}
           u == Without(t, others)
           r == MovedUp(u, E)
           b == Payload(k)
<1>1. /\ IsTree(t)
      /\ \A x \in Path \ {<<>>} :
           /\ <<"data">> \o x \in DOMAIN t <=> x \in DOMAIN b
           /\ x \in DOMAIN b => t[<<"data">> \o x] = b[x]
  BY BagFacts
<1>2. /\ IsTree(u) /\ \A p \in DOMAIN u : p \in DOMAIN t /\ u[p] = t[p] /\ Head(p) = "data"
      /\ \A p \in DOMAIN t : Head(p) = "data" => p \in DOMAIN u
  BY <1>1, ClearedFacts
<1>3. E \subseteq FileName /\ "data" \notin E
  BY <1>1, EntryFacts, Singleton, Names
<1>4. \A x \in Path : /\ <<"data">> \o x \in Path /\ Head(<<"data">> \o x) = "data"
                      /\ Tail(<<"data">> \o x) = x
  BY ConsFacts, Names
<1>5. IsTree(b)
  BY PayloadFacts
<1> HIDE DEF t, u, b
<1>6. /\ IsTree(r)
      /\ \A p \in DOMAIN u :
           ~(Tail(p) # <<>> /\ Head(Tail(p)) \in E) => p \in DOMAIN r /\ r[p] = u[p]
      /\ \A x \in Path \ {<<>>} : Head(x) \in E /\ <<"data">> \o x \in DOMAIN u =>
           x \in DOMAIN r /\ r[x] = u[<<"data">> \o x]
  BY <1>2, <1>3, MovedUpFacts
<1> HIDE DEF r
<1>7. ASSUME NEW x \in DOMAIN b PROVE \E p \in DOMAIN r : r[p] = b[x]
  <2>1. x \in Path \ {<<>>}
    BY <1>5 DEF IsTree
  <2>2. <<"data">> \o x \in DOMAIN u /\ u[<<"data">> \o x] = b[x]
    BY <1>1, <1>2, <1>4, <2>1
  <2>3. CASE Head(x) \in E
    <3>1. x \in DOMAIN r /\ r[x] = b[x]
      BY <1>6, <2>1, <2>2, <2>3
    <3> QED
      BY <3>1
  <2>4. CASE Head(x) \notin E
    <3>1. <<"data">> \o x \in DOMAIN r /\ r[<<"data">> \o x] = b[x]
      BY <1>4, <1>6, <2>1, <2>2, <2>4
    <3> QED
      BY <3>1
  <2> QED
    BY <2>3, <2>4
<1> QED
  BY <1>6, <1>7 DEF r, u, t, b

-----------------------------------------------------------------------------
(* The operations of TransformSIP, one after the other.                     *)

\* Induction over the natural numbers, for a set.
LEMMA Induction ==
  ASSUME NEW T \in SUBSET Nat, 0 \in T, \A n \in T : n + 1 \in T
  PROVE  T = Nat
<1> DEFINE C == Nat \ T
<1>1. SUFFICES ASSUME C # {} PROVE FALSE
  OBVIOUS
<1>2. PICK x \in C : \A y \in C : ~(<<y, x>> \in OpToRel(<, Nat))
  BY <1>1, NatLessThanWellFounded, WFMin
<1>3. x \in Nat /\ x # 0
  OBVIOUS
<1>4. x - 1 \in Nat /\ x - 1 < x /\ x - 1 + 1 = x
  BY <1>3
<1>5. <<x - 1, x>> \in OpToRel(<, Nat)
  BY <1>3, <1>4 DEF OpToRel
<1>6. x - 1 \in T
  BY <1>2, <1>4, <1>5
<1> QED
  BY <1>4, <1>6

\* The trees after each of a sequence of operations.
IsRun(f, t, s) == f = [i \in Nat |-> IF i = 0 THEN t ELSE Apply(f[i - 1], s[i])]

\* There is such a sequence of trees, whatever the operations.
LEMMA RunExists ==
  ASSUME NEW t, NEW s
  PROVE  \E f : IsRun(f, t, s)
<1> DEFINE Upto(h, n) == h = [i \in 0..n |-> IF i = 0 THEN t ELSE Apply(h[i - 1], s[i])]
           T == {n \in Nat : \E h : Upto(h, n)}
<1>1. 0 \in T
  <2> DEFINE h == [i \in 0..0 |-> t]
  <2>1. \A i \in 0..0 : i = 0
    OBVIOUS
  <2>2. h = [i \in 0..0 |-> IF i = 0 THEN t ELSE Apply(h[i - 1], s[i])]
    BY <2>1
  <2>3. Upto(h, 0)
    BY <2>2
  <2> QED
    BY <2>3
<1>2. ASSUME NEW n \in T PROVE n + 1 \in T
  <2>1. PICK h : h = [i \in 0..n |-> IF i = 0 THEN t ELSE Apply(h[i - 1], s[i])]
    OBVIOUS
  <2>2. n \in Nat /\ n + 1 \in Nat /\ n + 1 # 0 /\ n + 1 - 1 = n
    OBVIOUS
  <2>3. \A i \in 0..(n + 1) : i # n + 1 => /\ i \in 0..n /\ (i # 0 => i - 1 \in 0..(n + 1))
                                           /\ i - 1 # n + 1 /\ i \in Nat
    BY <2>2
  <2>4. n \in 0..(n + 1) /\ n # n + 1
    BY <2>2
  <2>5. /\ \A i \in 0..n : h[i] = IF i = 0 THEN t ELSE Apply(h[i - 1], s[i])
    BY <2>1
  <2> DEFINE g == [i \in 0..(n + 1) |-> IF i = n + 1 THEN Apply(h[n], s[n + 1]) ELSE h[i]]
  <2>6. /\ g[n + 1] = Apply(h[n], s[n + 1])
        /\ \A i \in 0..(n + 1) : i # n + 1 => g[i] = h[i]
    BY <2>2
  <2>7. g = [i \in 0..(n + 1) |-> g[i]]
    OBVIOUS
  <2> HIDE DEF g
  <2>8. ASSUME NEW i \in 0..(n + 1) PROVE g[i] = IF i = 0 THEN t ELSE Apply(g[i - 1], s[i])
    <3>1. CASE i = n + 1
      BY <2>2, <2>4, <2>6, <3>1
    <3>2. CASE i # n + 1
      BY <2>3, <2>5, <2>6, <3>2
    <3> QED
      BY <3>1, <3>2
  <2>9. g = [i \in 0..(n + 1) |-> IF i = 0 THEN t ELSE Apply(g[i - 1], s[i])]
    BY <2>7, <2>8
  <2>10. Upto(g, n + 1)
    BY <2>9
  <2> QED
    BY <2>2, <2>10
<1>3. \A n \in Nat : \E h : Upto(h, n)
  <2> HIDE DEF Upto
  <2>1. T = Nat
    BY <1>1, <1>2, Induction
  <2> QED
    BY <2>1
<1>4. ASSUME NEW n \in Nat, NEW m \in Nat, n <= m, NEW h, NEW g, Upto(h, n), Upto(g, m)
      PROVE  \A i \in 0..n : h[i] = g[i]
  <2> DEFINE S == {i \in Nat : i <= n => h[i] = g[i]}
  <2>1. /\ \A i \in 0..n : h[i] = IF i = 0 THEN t ELSE Apply(h[i - 1], s[i])
        /\ \A i \in 0..m : g[i] = IF i = 0 THEN t ELSE Apply(g[i - 1], s[i])
    BY <1>4
  <2>2. 0 \in S
    BY <1>4, <2>1
  <2>3. ASSUME NEW i \in S PROVE i + 1 \in S
    <3>1. SUFFICES ASSUME i + 1 <= n PROVE h[i + 1] = g[i + 1]
      OBVIOUS
    <3>2. i \in Nat /\ i <= n /\ i + 1 \in 0..n /\ i + 1 \in 0..m /\ i + 1 # 0
          /\ i + 1 - 1 = i
      BY <1>4, <3>1
    <3>3. h[i] = g[i]
      BY <3>2
    <3> QED
      BY <2>1, <3>2, <3>3
  <2>4. S = Nat
    <3> HIDE DEF S
    <3>1. S \in SUBSET Nat
      BY DEF S
    <3> QED
      BY <2>2, <2>3, <3>1, Induction
  <2> QED
    BY <2>4
<1> DEFINE hh == [n \in Nat |-> CHOOSE h : Upto(h, n)]
           f == [i \in Nat |-> hh[i][i]]
<1>5. \A n \in Nat : Upto(hh[n], n)
  <2> HIDE DEF Upto
  <2>1. \A n \in Nat : hh[n] = CHOOSE h : Upto(h, n)
    OBVIOUS
  <2> HIDE DEF hh
  <2> QED
    BY <1>3, <2>1
<1>6. \A i \in Nat : f[i] = hh[i][i]
  OBVIOUS
<1>7. f = [i \in Nat |-> f[i]]
  OBVIOUS
<1> HIDE DEF f, hh
<1>8. ASSUME NEW i \in Nat PROVE f[i] = IF i = 0 THEN t ELSE Apply(f[i - 1], s[i])
  <2>1. i \in 0..i
    OBVIOUS
  <2>2. \A j \in 0..i : hh[i][j] = IF j = 0 THEN t ELSE Apply(hh[i][j - 1], s[j])
    BY <1>5
  <2>3. hh[i][i] = IF i = 0 THEN t ELSE Apply(hh[i][i - 1], s[i])
    BY <2>1, <2>2
  <2>4. CASE i = 0
    BY <1>6, <2>3, <2>4
  <2>5. CASE i # 0
    <3>1. i - 1 \in Nat /\ i - 1 <= i /\ i - 1 \in 0..(i - 1)
      BY <2>5
    <3>2. Upto(hh[i - 1], i - 1) /\ Upto(hh[i], i)
      BY <1>5, <3>1
    <3>3. hh[i - 1][i - 1] = hh[i][i - 1]
      <4> HIDE DEF Upto
      <4> QED
        BY <1>4, <3>1, <3>2
    <3>4. f[i - 1] = hh[i][i - 1]
      BY <1>6, <3>1, <3>3
    <3> QED
      BY <1>6, <2>3, <2>5, <3>4
  <2> QED
    BY <2>4, <2>5
<1>9. f = [i \in Nat |-> IF i = 0 THEN t ELSE Apply(f[i - 1], s[i])]
  BY <1>7, <1>8
<1> QED
  BY <1>9 DEF IsRun

\* The trees that After holds are the ones its definition says.
LEMMA AfterFacts ==
  After[0] = tree /\ \A i \in Nat \ {0} : After[i] = Apply(After[i - 1], Transform[i])
<1>1. \E f : IsRun(f, tree, Transform)
  BY RunExists
<1>2. After = CHOOSE f : IsRun(f, tree, Transform)
  BY DEF After, IsRun
<1>3. After = [i \in Nat |-> IF i = 0 THEN tree ELSE Apply(After[i - 1], Transform[i])]
  <2>1. IsRun(After, tree, Transform)
    BY <1>1, <1>2
  <2> QED
    BY <2>1 DEF IsRun
<1> QED
  BY <1>3

-----------------------------------------------------------------------------
(* The places in a package and in a PIP.                                    *)

\* Paths that begin with different names are apart.
LEMMA ApartByHead ==
  ASSUME NEW a \in Path, NEW b \in Path, a # <<>>, b # <<>>, Head(a) # Head(b)
  PROVE  Apart(a, b)
BY HeadOfPrefix DEF Apart

\* A path of two names.
LEMMA PairFacts ==
  ASSUME NEW a \in FileName, NEW n \in FileName
  PROVE  /\ <<a>> \in Path \ {<<>>} /\ Head(<<a>>) = a
         /\ Parent(<<a, n>>) = <<a>> /\ Last(<<a, n>>) = n
         /\ IsPrefix(<<a>>, <<a, n>>) /\ ~IsPrefix(<<a, n>>, <<a>>)
         /\ \A m \in FileName : m # n => Apart(<<a, n>>, <<a, m>>)
<1>1. \A m \in FileName : <<m>> \in Path /\ <<m>> # <<>> /\ Head(<<m>>) = m
  <2>1. \A m \in FileName : <<m>> \in Path /\ <<m>> # <<>>
    BY Singleton
  <2>2. \A m \in FileName : Head(<<m>>) = m
    OBVIOUS
  <2> QED
    BY <2>1, <2>2, Zenon
<1>2. \A m \in FileName : <<a, m>> = <<a>> \o <<m>>
  BY PairIsConcat
<1> DEFINE A == <<a>>
           P == <<a, n>>
<1>3. A \in Path /\ A # <<>> /\ Head(A) = a
  BY <1>1
<1>4. P = A \o <<n>>
  BY <1>2
<1> HIDE DEF A, P
<1>5. P \in Path /\ Parent(P) = A /\ Last(P) = n /\ P # A
  BY <1>3, <1>4, ParentOfConcat
<1>6. IsPrefix(A, P)
  BY <1>1, <1>3, <1>4, PrefixOfConcat
<1>7. ~IsPrefix(P, A)
  BY <1>3, <1>5, <1>6, PrefixOrder
<1>8. ASSUME NEW m \in FileName, m # n PROVE Apart(P, <<a, m>>)
  <2>1. Apart(<<n>>, <<m>>)
    BY <1>1, <1>8, ApartByHead
  <2> DEFINE N == <<n>>
             M == <<m>>
             Q == <<a, m>>
  <2>2. P = A \o N /\ Q = A \o M /\ Apart(N, M) /\ N \in Path /\ M \in Path
    BY <1>1, <1>2, <1>4, <2>1 DEF A
  <2> HIDE DEF N, M, Q
  <2>3. Apart(P, Q)
    BY <1>3, <2>2, PrefixOfConcat DEF Apart
  <2> QED
    BY <2>3 DEF Q
<1> QED
  BY <1>3, <1>5, <1>6, <1>7, <1>8 DEF A, P

\* Two paths of three names with the first two in common, and a file below one.
Fork(a, n, c, h, x) ==
  /\ Parent(<<a, n, c>>) = <<a, n>>
  /\ Append(<<a, n, h>>, x) \in Path \ {<<>>} /\ Head(Append(<<a, n, h>>, x)) = a
  /\ Parent(Append(<<a, n, h>>, x)) = <<a, n, h>>
  /\ IsPrefix(<<a, n>>, <<a, n, h>>)
  /\ Apart(<<a, n, c>>, Append(<<a, n, h>>, x)) /\ Apart(<<a, n, c>>, <<a, n, h>>)
  /\ ~IsPrefix(Append(<<a, n, h>>, x), <<a, n, h>>)
  /\ ~IsPrefix(<<a, n, c>>, <<a, n>>)
  /\ ~IsPrefix(Append(<<a, n, h>>, x), <<a, n>>)

\* Such paths are apart, and in the directories their names give.
LEMMA TripleFacts ==
  ASSUME NEW a \in FileName, NEW n \in FileName, NEW c \in FileName, NEW h \in FileName,
         NEW x \in FileName, c # h
  PROVE  Fork(a, n, c, h, x)
<1> DEFINE o == <<a, n>>
           C == <<a, n, c>>
           H == <<a, n, h>>
           X == Append(H, x)
<1>1. /\ o \in Path /\ <<c>> \in Path /\ <<h>> \in Path /\ <<x>> \in Path
      /\ <<c>> # <<>> /\ <<h>> # <<>> /\ <<x>> # <<>>
      /\ Head(<<c>>) = c /\ Head(<<h>>) = h
  <2>1. o \in Path
    BY Pairs
  <2> QED
    BY <2>1, Singleton
<1>2. C = o \o <<c>> /\ H = o \o <<h>>
  <2>1. o = <<a>> \o <<n>>
    BY PairIsConcat
  <2>2. <<n, c>> = <<n>> \o <<c>> /\ <<n, h>> = <<n>> \o <<h>>
    BY PairIsConcat
  <2>3. C = <<a>> \o <<n, c>> /\ H = <<a>> \o <<n, h>>
    BY TripleIsConcat, ZenonT(60)
  <2>4. <<a>> \in Path /\ <<n>> \in Path
    BY Singleton
  <2> QED
    BY <1>1, <2>1, <2>2, <2>3, <2>4, ConcatFacts
<1>3. C \in Path /\ C # <<>> /\ H \in Path /\ H # <<>> /\ Head(H) = a
  BY Triples
<1>4. Parent(C) = o
  BY <1>1, <1>2, ParentOfConcat
<1> HIDE DEF o, C, H, X
<1>5. X = H \o <<x>> /\ X \in Path /\ X # <<>> /\ Parent(X) = H /\ Last(X) = x /\ X # H
  <2>1. X = H \o <<x>>
    BY <1>3, ParentOfConcat DEF X
  <2>2. H \o <<x>> \in Path /\ H \o <<x>> # <<>> /\ Parent(H \o <<x>>) = H
        /\ Last(H \o <<x>>) = x /\ H \o <<x>> # H
    BY <1>3, ParentOfConcat, SMTT(60)
  <2> QED
    BY <2>1, <2>2
<1>6. IsPrefix(H, X) /\ IsPrefix(o, H) /\ IsPrefix(o, C) /\ IsPrefix(o, X)
  <2>1. IsPrefix(H, X)
    BY <1>1, <1>3, <1>5, PrefixOfConcat
  <2>2. IsPrefix(o, H) /\ IsPrefix(o, C)
    BY <1>1, <1>2, PrefixOfConcat
  <2> QED
    BY <1>1, <1>3, <1>5, <2>1, <2>2, PrefixOrder
<1>7. Head(X) = a
  BY <1>3, <1>5, <1>6, HeadOfPrefix
<1>8. ~IsPrefix(X, H)
  BY <1>3, <1>5, <1>6, PrefixOrder
<1>9. Apart(C, H)
  <2>1. Apart(<<c>>, <<h>>)
    BY <1>1, ApartByHead
  <2> QED
    BY <1>1, <1>2, <2>1, PrefixOfConcat DEF Apart
<1>10. Apart(C, X)
  <2>1. ~IsPrefix(C, X)
    BY <1>1, <1>3, <1>5, <1>9, ApartFacts
  <2>2. ~IsPrefix(X, C)
    BY <1>3, <1>5, <1>6, <1>9, PrefixOrder DEF Apart
  <2> QED
    BY <2>1, <2>2 DEF Apart
<1>11. ~IsPrefix(C, o)
  BY <1>1, <1>3, <1>6, <1>9, PrefixOrder DEF Apart
<1>12. ~IsPrefix(X, o)
  BY <1>1, <1>3, <1>5, <1>6, <1>8, PrefixOrder
<1> QED
  BY <1>4, <1>5, <1>6, <1>7, <1>8, <1>9, <1>10, <1>11, <1>12 DEF o, C, H, X, Fork

\* The place of metadata.xml in the PIP.
PIPMetadata == Append(PIPHeader, "metadata.xml")

\* The places TransformSIP makes.
LEMMA PlaceFacts ==
  /\ <<"metadata">> \in Path \ {<<>>} /\ <<"objects", Name>> \in Path \ {<<>>}
  /\ PIPContent \in Path \ {<<>>} /\ PIPHeader \in Path \ {<<>>}
  /\ PIPMetadata \in Path \ {<<>>} /\ Head(<<"metadata">>) = "metadata"
  /\ Head(<<"objects", Name>>) = "objects" /\ Head(PIPContent) = "objects"
  /\ Head(PIPHeader) = "objects" /\ Head(PIPMetadata) = "objects"
  /\ Parent(PIPContent) = <<"objects", Name>> /\ Parent(PIPMetadata) = PIPHeader
  /\ IsPrefix(<<"objects", Name>>, PIPHeader)
  /\ Apart(PIPContent, PIPMetadata) /\ Apart(PIPContent, PIPHeader)
  /\ ~IsPrefix(PIPMetadata, PIPHeader)
  /\ ~IsPrefix(PIPContent, <<"objects", Name>>) /\ ~IsPrefix(PIPMetadata, <<"objects", Name>>)
<1>1. /\ "objects" \in FileName /\ Name \in FileName /\ "content" \in FileName
      /\ "header" \in FileName /\ "metadata.xml" \in FileName /\ "content" # "header"
  BY Names
<1>2. <<"metadata">> \in Path \ {<<>>} /\ Head(<<"metadata">>) = "metadata"
  BY Names, Singleton
<1>3. PICK a \in FileName, c \in FileName, h \in FileName, x \in FileName :
        a = "objects" /\ c = "content" /\ h = "header" /\ x = "metadata.xml"
  BY <1>1
<1>4. /\ <<"objects", Name>> = <<a, Name>> /\ PIPContent = <<a, Name, c>>
      /\ PIPHeader = <<a, Name, h>> /\ PIPMetadata = Append(<<a, Name, h>>, x)
  BY <1>3 DEF PIPContent, PIPHeader, PIPMetadata
<1>5. <<a, Name>> \in Path \ {<<>>} /\ Head(<<a, Name>>) = a
  BY <1>1, Pairs
<1>6. /\ <<a, Name, c>> \in Path \ {<<>>} /\ Head(<<a, Name, c>>) = a
      /\ <<a, Name, h>> \in Path \ {<<>>} /\ Head(<<a, Name, h>>) = a
  BY <1>1, Triples, ZenonT(60)
<1>7. Fork(a, Name, c, h, x)
  <2>1. c # h
    BY <1>3
  <2> QED
    BY <1>1, <2>1, TripleFacts
<1> QED
  BY <1>2, <1>3, <1>4, <1>5, <1>6, <1>7, Zenon DEF Fork

\* The files of the metadata directory.
LEMMA MetadataFacts ==
  ASSUME NEW n \in FileName
  PROVE  /\ Metadata(n) \in Path \ {<<>>} /\ Head(Metadata(n)) = "metadata"
         /\ Parent(Metadata(n)) = <<"metadata">> /\ Last(Metadata(n)) = n
         /\ IsPrefix(<<"metadata">>, Metadata(n)) /\ ~IsPrefix(Metadata(n), <<"metadata">>)
         /\ \A m \in FileName : m # n => Apart(Metadata(n), Metadata(m))
<1>1. "metadata" \in FileName
  BY Names
<1>2. Metadata(n) \in Path \ {<<>>} /\ Head(Metadata(n)) = "metadata"
  BY <1>1, Pairs, Zenon DEF Metadata
<1>3. /\ Parent(Metadata(n)) = <<"metadata">> /\ Last(Metadata(n)) = n
      /\ IsPrefix(<<"metadata">>, Metadata(n)) /\ ~IsPrefix(Metadata(n), <<"metadata">>)
      /\ \A m \in FileName : m # n => Apart(Metadata(n), Metadata(m))
  BY <1>1, PairFacts, Zenon DEF Metadata
<1> QED
  BY <1>2, <1>3

\* The places of the files an AIP adds to its SIP.
AddedPath(n) == <<"additional", n>>

\* They are apart from each other.
LEMMA AddedFacts ==
  ASSUME NEW n \in FileName
  PROVE  /\ AddedPath(n) \in Path \ {<<>>} /\ Head(AddedPath(n)) = "additional"
         /\ Last(AddedPath(n)) = n
         /\ \A m \in FileName : m # n => Apart(AddedPath(n), AddedPath(m))
<1>1. "additional" \in FileName
  BY Names
<1>2. AddedPath(n) \in Path \ {<<>>} /\ Head(AddedPath(n)) = "additional"
  BY <1>1, Pairs, Zenon DEF AddedPath
<1>3. /\ Last(AddedPath(n)) = n
      /\ \A m \in FileName : m # n => Apart(AddedPath(n), AddedPath(m))
  BY <1>1, PairFacts, Zenon DEF AddedPath
<1> QED
  BY <1>2, <1>3

\* The places in a package, whatever its type.
LEMMA LayoutFacts ==
  /\ \A p \in Required \cup {Layout.manifest} \cup Layout.top :
       p \in Path \ {<<>>} /\ Head(p) \in {"content", "header", "additional"}
  /\ Layout.metadata \in Required /\ Layout.content \in Required
  /\ Layout.added \subseteq Required
  /\ Apart(Layout.content, Layout.metadata)
  /\ IsAIP => /\ Layout.added = {AddedPath(Updated), AddedPath(LogicalMD)}
              /\ Layout.manifest = AddedPath(Updated)
              /\ \A p \in Layout.added : Apart(p, Layout.content) /\ Apart(p, Layout.metadata)
              /\ Apart(AddedPath(Updated), AddedPath(LogicalMD))
  /\ ~IsAIP => Layout.added = {} /\ Layout.manifest = Layout.metadata
<1>n. /\ "content" \in FileName /\ "header" \in FileName /\ "additional" \in FileName
      /\ "metadata.xml" \in FileName
  BY Names
<1>m. /\ "old" \in FileName /\ "SIP" \in FileName /\ "xsd" \in FileName
      /\ "arelda.xsd" \in FileName
  BY Names
<1>o. Updated \in FileName /\ LogicalMD \in FileName /\ Updated # LogicalMD
  BY Names, NamesAreNames
<1>1. /\ Layout.metadata \in Required /\ Layout.content \in Required
      /\ Layout.added \subseteq Required
      /\ Required = {Layout.content, Layout.xsd, Layout.metadata} \cup Layout.added
  BY DEF Required
<1>2. ~IsAIP => /\ Layout.added = {} /\ Layout.manifest = Layout.metadata
                /\ Layout.content = <<"content">>
                /\ Layout.metadata = <<"header", "metadata.xml">>
                /\ Layout.xsd = <<"header", "xsd", "arelda.xsd">>
                /\ Layout.top = {<<"content">>, <<"header">>}
  BY DEF Layout
<1>3. IsAIP => /\ Layout.added = {AddedPath(Updated), AddedPath(LogicalMD)}
               /\ Layout.manifest = AddedPath(Updated)
               /\ Layout.content = <<"content", "content">>
               /\ Layout.metadata = <<"content", "header", "old", "SIP", "metadata.xml">>
               /\ Layout.xsd = <<"content", "header", "xsd", "arelda.xsd">>
               /\ Layout.top = {<<"content">>, <<"additional">>}
  BY DEF Layout, AddedPath
<1> DEFINE Fine(p, e) == p \in Path \ {<<>>} /\ Head(p) = e
<1>4. /\ Fine(<<"content">>, "content") /\ Fine(<<"header">>, "header")
      /\ Fine(<<"additional">>, "additional")
  BY <1>n, Singleton
<1>5. Fine(<<"content", "content">>, "content") /\ Fine(<<"header", "metadata.xml">>, "header")
  BY <1>n DEF Path
<1>6. Fine(<<"header", "xsd", "arelda.xsd">>, "header")
  BY <1>n, <1>m DEF Path
<1>7. /\ Fine(<<"content", "header", "xsd", "arelda.xsd">>, "content")
      /\ Fine(<<"header", "old", "SIP", "metadata.xml">>, "header")
  BY <1>n, <1>m DEF Path
<1>8. Fine(<<"content", "header", "old", "SIP", "metadata.xml">>, "content")
  BY <1>n, <1>m DEF Path
<1>9. Fine(AddedPath(Updated), "additional") /\ Fine(AddedPath(LogicalMD), "additional")
  BY <1>o, AddedFacts
<1>10. /\ ~IsAIP => /\ Fine(Layout.content, "content") /\ Fine(Layout.metadata, "header")
                    /\ Fine(Layout.xsd, "header")
                    /\ \A p \in Layout.top : Fine(p, "content") \/ Fine(p, "header")
       /\ IsAIP => /\ Fine(Layout.content, "content") /\ Fine(Layout.metadata, "content")
                   /\ Fine(Layout.xsd, "content") /\ Fine(Layout.manifest, "additional")
                   /\ \A p \in Layout.top : Fine(p, "content") \/ Fine(p, "additional")
                   /\ \A p \in Layout.added : Fine(p, "additional")
  <2> HIDE DEF Fine
  <2> QED
    BY <1>2, <1>3, <1>4, <1>5, <1>6, <1>7, <1>8, <1>9
<1>11. \A p \in Required \cup {Layout.manifest} \cup Layout.top :
         p \in Path \ {<<>>} /\ Head(p) \in {"content", "header", "additional"}
  BY <1>1, <1>2, <1>10
<1>12. Apart(Layout.content, Layout.metadata)
  <2>1. CASE IsAIP
    <3>1. <<"content", "content">> = <<"content">> \o <<"content">>
      BY <1>n, PairIsConcat, Zenon
    <3>2. <<"content", "header", "old", "SIP", "metadata.xml">>
            = <<"content">> \o <<"header", "old", "SIP", "metadata.xml">>
      <4> DEFINE q == <<"content", "header", "old", "SIP", "metadata.xml">>
      <4>1. q \in Path /\ q # <<>> /\ Head(q) = "content"
            /\ Tail(q) = <<"header", "old", "SIP", "metadata.xml">>
        BY <1>8
      <4> HIDE DEF q
      <4>2. q = <<Head(q)>> \o Tail(q)
        BY <4>1, HeadFacts
      <4> QED
        BY <4>1, <4>2, Zenon DEF q
    <3>3. Apart(<<"content">>, <<"header", "old", "SIP", "metadata.xml">>)
      BY <1>4, <1>7, ApartByHead
    <3> DEFINE c == <<"content">>
               h == <<"header", "old", "SIP", "metadata.xml">>
    <3>4. c \in Path /\ h \in Path /\ Apart(c, h)
          /\ Layout.content = c \o c /\ Layout.metadata = c \o h
      BY <1>3, <1>4, <1>7, <2>1, <3>1, <3>2, <3>3
    <3> HIDE DEF c, h
    <3> QED
      BY <3>4, PrefixOfConcat DEF Apart
  <2>2. CASE ~IsAIP
    BY <1>10, <2>2, ApartByHead
  <2> QED
    BY <2>1, <2>2
<1>13. ASSUME IsAIP, NEW p \in Layout.added
       PROVE  Apart(p, Layout.content) /\ Apart(p, Layout.metadata)
  BY <1>10, <1>13, ApartByHead
<1>14. Apart(AddedPath(Updated), AddedPath(LogicalMD))
  BY <1>o, AddedFacts
<1> QED
  BY <1>1, <1>2, <1>3, <1>11, <1>12, <1>13, <1>14

\* The elements of a sequence put together from parts.
LEMMA Parts ==
  ASSUME NEW S, NEW s \in Seq(S), NEW t \in Seq(S)
  PROVE  /\ s \o t \in Seq(S) /\ Len(s) \in Nat /\ Len(t) \in Nat
         /\ Len(s \o t) = Len(s) + Len(t)
         /\ \A i \in 1..Len(s) : (s \o t)[i] = s[i]
         /\ \A i \in 1..Len(t) : (s \o t)[Len(s) + i] = t[i]
<1>1. Len(s) \in Nat /\ Len(t) \in Nat
  BY LenProperties
<1>2. /\ s \o t \in Seq(S) /\ Len(s \o t) = Len(s) + Len(t)
      /\ \A i \in 1..(Len(s) + Len(t)) :
           (s \o t)[i] = IF i <= Len(s) THEN s[i] ELSE t[i - Len(s)]
  BY ConcatProperties
<1>3. ASSUME NEW i \in 1..Len(s) PROVE (s \o t)[i] = s[i]
  BY <1>1, <1>2
<1>4. ASSUME NEW i \in 1..Len(t) PROVE (s \o t)[Len(s) + i] = t[i]
  <2>1. Len(s) + i \in 1..(Len(s) + Len(t)) /\ ~(Len(s) + i <= Len(s)) /\ Len(s) + i - Len(s) = i
    BY <1>1
  <2> QED
    BY <1>2, <2>1
<1> QED
  BY <1>1, <1>2, <1>3, <1>4

\* The operations of TransformSIP, by their numbers: a move for a digitized
\* package, and two for an AIP, come between the others.
LEMMA TransformFacts ==
  LET k == IF Digitized THEN 1 ELSE 0
      n == IF IsAIP THEN k + 2 ELSE k IN
    /\ Len(Transform) = n + 5
    /\ Transform[1] = Mkdir(<<"metadata">>)
    /\ Digitized => Transform[2] = Rename(Append(Dossier, Prozess), Metadata(Prozess))
    /\ IsAIP => /\ Transform[k + 2] = Rename(AddedPath(Updated), Metadata(Updated))
                /\ Transform[k + 3] = Rename(AddedPath(LogicalMD), Metadata(LogicalMD))
    /\ Transform[n + 2] = Mkdir(<<"objects", Name>>)
    /\ Transform[n + 3] = Rename(Layout.content, PIPContent)
    /\ Transform[n + 4] = Mkdir(PIPHeader)
    /\ Transform[n + 5] = Rename(Layout.metadata, PIPMetadata)
<1> DEFINE m == Mkdir(<<"metadata">>)
           p == Rename(Append(Dossier, Prozess), Metadata(Prozess))
           u == Rename(AddedPath(Updated), Metadata(Updated))
           l == Rename(AddedPath(LogicalMD), Metadata(LogicalMD))
           o == Mkdir(<<"objects", Name>>)
           c == Rename(Layout.content, PIPContent)
           h == Mkdir(PIPHeader)
           x == Rename(Layout.metadata, PIPMetadata)
           a == IF Digitized THEN <<p>> ELSE <<>>
           b == IF IsAIP THEN <<u, l>> ELSE <<>>
           S == {m, p, u, l, o, c, h, x}
<1>1. Transform = <<m>> \o (a \o b) \o <<o>> \o <<c, h, x>>
  BY DEF Transform, MetadataMoves, ObjectMoves, AddedPath, PIPMetadata
<1> HIDE DEF m, p, u, l, o, c, h, x
<1>d. (Digitized /\ a = <<p>>) \/ (~Digitized /\ a = <<>>)
  OBVIOUS
<1>i. (IsAIP /\ b = <<u, l>>) \/ (~IsAIP /\ b = <<>>)
  OBVIOUS
<1>s. /\ m \in S /\ p \in S /\ u \in S /\ l \in S /\ o \in S /\ c \in S /\ h \in S /\ x \in S
  OBVIOUS
<1> DEFINE M == <<m>>
           O == <<o>>
           T == <<c, h, x>>
<1> HIDE DEF S, a, b
<1>2. a \in Seq(S) /\ b \in Seq(S) /\ M \in Seq(S) /\ O \in Seq(S) /\ T \in Seq(S)
  <2>1. /\ <<p>> \in Seq(S) /\ <<>> \in Seq(S) /\ <<u, l>> \in Seq(S)
        /\ M \in Seq(S) /\ O \in Seq(S) /\ T \in Seq(S)
    BY <1>s
  <2> QED
    BY <1>d, <1>i, <2>1, Zenon
<1>3. /\ Len(M) = 1 /\ M[1] = m /\ Len(O) = 1 /\ O[1] = o
      /\ Len(T) = 3 /\ T[1] = c /\ T[2] = h /\ T[3] = x
  OBVIOUS
<1>a. /\ Digitized => Len(a) = 1 /\ a[1] = p
      /\ ~Digitized => Len(a) = 0
  <2>1. Len(<<p>>) = 1 /\ <<p>>[1] = p /\ Len(<<>>) = 0
    OBVIOUS
  <2> QED
    BY <1>d, <2>1, Zenon
<1>b. /\ IsAIP => Len(b) = 2 /\ b[1] = u /\ b[2] = l
      /\ ~IsAIP => Len(b) = 0
  <2>1. Len(<<u, l>>) = 2 /\ <<u, l>>[1] = u /\ <<u, l>>[2] = l /\ Len(<<>>) = 0
    OBVIOUS
  <2> QED
    BY <1>i, <2>1, Zenon
<1> DEFINE s1 == a \o b
           s2 == M \o s1
           s3 == s2 \o O
           s4 == s3 \o T
<1>t. Transform = s4
  BY <1>1
<1> HIDE DEF M, O, T
<1>4. /\ s1 \in Seq(S) /\ Len(s1) = Len(a) + Len(b)
      /\ \A i \in 1..Len(a) : s1[i] = a[i]
      /\ \A i \in 1..Len(b) : s1[Len(a) + i] = b[i]
  BY <1>2, Parts
<1> HIDE DEF s1
<1>5. /\ s2 \in Seq(S) /\ Len(s2) = 1 + Len(s1) /\ s2[1] = m
      /\ \A i \in 1..Len(s1) : s2[1 + i] = s1[i]
  <2>1. /\ s2 \in Seq(S) /\ Len(s2) = Len(M) + Len(s1)
        /\ \A i \in 1..Len(M) : s2[i] = M[i]
        /\ \A i \in 1..Len(s1) : s2[Len(M) + i] = s1[i]
    <3>1. M \in Seq(S) /\ s1 \in Seq(S)
      BY <1>2, <1>4
    <3> QED
      BY <3>1, Parts
  <2> HIDE DEF s2
  <2> QED
    BY <1>3, <2>1
<1> HIDE DEF s2
<1>6. /\ s3 \in Seq(S) /\ Len(s3) = Len(s2) + 1 /\ s3[Len(s2) + 1] = o
      /\ \A i \in 1..Len(s2) : s3[i] = s2[i]
  <2>1. /\ s3 \in Seq(S) /\ Len(s3) = Len(s2) + Len(O)
        /\ \A i \in 1..Len(s2) : s3[i] = s2[i]
        /\ \A i \in 1..Len(O) : s3[Len(s2) + i] = O[i]
    <3>1. O \in Seq(S) /\ s2 \in Seq(S)
      BY <1>2, <1>5
    <3> QED
      BY <3>1, Parts
  <2> HIDE DEF s3
  <2> QED
    BY <1>3, <2>1
<1> HIDE DEF s3
<1>7. /\ s4 \in Seq(S) /\ Len(s4) = Len(s3) + 3 /\ s4[Len(s3) + 1] = c
      /\ s4[Len(s3) + 2] = h /\ s4[Len(s3) + 3] = x
      /\ \A i \in 1..Len(s3) : s4[i] = s3[i]
  <2>1. /\ s4 \in Seq(S) /\ Len(s4) = Len(s3) + Len(T)
        /\ \A i \in 1..Len(s3) : s4[i] = s3[i]
        /\ \A i \in 1..Len(T) : s4[Len(s3) + i] = T[i]
    <3>1. T \in Seq(S) /\ s3 \in Seq(S)
      BY <1>2, <1>6
    <3> QED
      BY <3>1, Parts
  <2> HIDE DEF s4
  <2> QED
    BY <1>3, <2>1
<1> HIDE DEF s4
<1>9. /\ Len(a) \in Nat /\ Len(b) \in Nat /\ Len(s1) \in Nat /\ Len(s2) \in Nat
      /\ Len(s3) \in Nat
  BY <1>2, <1>4, <1>5, <1>6, LenProperties
<1>10. /\ Len(s4) = Len(a) + Len(b) + 5 /\ s4[1] = m
       /\ Digitized => s4[2] = p
       /\ IsAIP => s4[Len(a) + 2] = u /\ s4[Len(a) + 3] = l
       /\ s4[Len(a) + Len(b) + 2] = o /\ s4[Len(a) + Len(b) + 3] = c
       /\ s4[Len(a) + Len(b) + 4] = h /\ s4[Len(a) + Len(b) + 5] = x
  <2>1. Len(s1) = Len(a) + Len(b) /\ Len(s2) = Len(a) + Len(b) + 1
        /\ Len(s3) = Len(a) + Len(b) + 2
    BY <1>4, <1>5, <1>6, <1>9
  <2>2. s4[1] = m
    BY <1>5, <1>6, <1>7, <1>9, <2>1
  <2>3. \A i \in 1..Len(s1) : s4[1 + i] = s1[i]
    <3> TAKE i \in 1..Len(s1)
    <3>1. 1 + i \in 1..Len(s2) /\ 1 + i \in 1..Len(s3)
      BY <1>9, <2>1
    <3> QED
      BY <1>5, <1>6, <1>7, <3>1
  <2>4. Digitized => s4[2] = p
    <3> SUFFICES ASSUME Digitized PROVE s4[2] = p
      OBVIOUS
    <3>1. 1 \in 1..Len(a) /\ 1 \in 1..Len(s1) /\ a[1] = p
      BY <1>a, <1>9, <2>1
    <3>2. s1[1] = p /\ s4[1 + 1] = p
      BY <1>4, <2>3, <3>1
    <3> QED
      BY <3>2
  <2>5. ASSUME IsAIP PROVE s4[Len(a) + 2] = u /\ s4[Len(a) + 3] = l
    <3>1. /\ Len(a) + 1 \in 1..Len(s1) /\ Len(a) + 2 \in 1..Len(s1)
          /\ s1[Len(a) + 1] = u /\ s1[Len(a) + 2] = l
      <4>1. Len(b) = 2 /\ b[1] = u /\ b[2] = l /\ 1 \in 1..Len(b) /\ 2 \in 1..Len(b)
        BY <1>b, <2>5
      <4>2. s1[Len(a) + 1] = u /\ s1[Len(a) + 2] = l
        BY <1>4, <4>1
      <4> QED
        BY <1>9, <2>1, <4>1, <4>2
    <3>2. s4[1 + (Len(a) + 1)] = u /\ s4[1 + (Len(a) + 2)] = l
      BY <2>3, <3>1
    <3> QED
      BY <1>9, <3>2
  <2>6. s4[Len(a) + Len(b) + 2] = o
    <3>1. Len(s2) + 1 \in 1..Len(s3) /\ Len(s2) + 1 = Len(a) + Len(b) + 2
      BY <1>6, <1>9, <2>1
    <3> QED
      BY <1>6, <1>7, <3>1
  <2>7. /\ s4[Len(a) + Len(b) + 3] = c /\ s4[Len(a) + Len(b) + 4] = h
        /\ s4[Len(a) + Len(b) + 5] = x /\ Len(s4) = Len(a) + Len(b) + 5
    <3>1. /\ Len(s3) + 1 = Len(a) + Len(b) + 3 /\ Len(s3) + 2 = Len(a) + Len(b) + 4
          /\ Len(s3) + 3 = Len(a) + Len(b) + 5
      BY <1>9, <2>1
    <3> QED
      BY <1>7, <3>1
  <2> QED
    BY <2>2, <2>4, <2>5, <2>6, <2>7
<1>11. /\ Len(a) = IF Digitized THEN 1 ELSE 0
       /\ Len(a) + Len(b) = IF IsAIP THEN Len(a) + 2 ELSE Len(a)
  <2>1. Len(a) = IF Digitized THEN 1 ELSE 0
    BY <1>a DEF Digitized
  <2>2. CASE IsAIP
    <3>1. Len(a) + Len(b) = Len(a) + 2
      BY <1>b, <2>2
    <3> QED
      BY <2>1, <2>2, <3>1
  <2>3. CASE ~IsAIP
    <3>1. Len(a) + Len(b) = Len(a)
      BY <1>b, <1>9, <2>3
    <3> QED
      BY <2>1, <2>3, <3>1
  <2> QED
    BY <2>2, <2>3
<1> QED
  BY <1>t, <1>10, <1>11 DEF m, p, u, l, o, c, h, x

\* Where TransformSIP takes Prozess_Digitalisierung_PREMIS.xml from: somewhere
\* below the content directory, and from an entry of it if it is there.
ProzessPath == Append(Dossier, Prozess)

\* It is below the content directory, and the dossier is an entry of that.
LEMMA DossierFacts ==
  ASSUME IsTree(tree)
  PROVE  /\ ProzessPath \in Path \ {<<>>} /\ Last(ProzessPath) = Prozess
         /\ IsPrefix(Layout.content, ProzessPath) /\ ProzessPath # Layout.content
         /\ ProzessPath \in DOMAIN tree =>
              \E e \in FileName : Dossier = Layout.content \o <<e>>
         /\ \A d \in Children(tree, Layout.content) : Dossier \in Children(tree, Layout.content)
<1> DEFINE E == Children(tree, Layout.content)
           c == Layout.content
<1>1. c \in Path /\ c # <<>>
  BY LayoutFacts
<1>2. \A d \in E : d \in DOMAIN tree /\ d \in Path /\ d # <<>> /\ Parent(d) = c
  BY DEF Children, IsTree
<1>3. \A d \in E : d = c \o <<Last(d)>> /\ Last(d) \in FileName
  BY <1>2, ParentFacts
<1>4. (E = {} /\ Dossier = c) \/ (E # {} /\ Dossier \in E)
  BY DEF Dossier
<1>5. Prozess \in FileName /\ <<Prozess>> \in Path /\ <<Prozess>> # <<>>
  BY Names, Singleton
<1> HIDE DEF c, E
<1>6. Dossier \in Path /\ IsPrefix(c, Dossier)
  <2>1. CASE E = {}
    BY <1>1, <1>4, <2>1, PrefixOrder
  <2>2. CASE E # {}
    <3>1. Dossier \in E
      BY <1>4, <2>2
    <3> QED
      BY <1>2, <3>1, ParentFacts
  <2> QED
    BY <2>1, <2>2
<1>7. /\ ProzessPath = Dossier \o <<Prozess>> /\ ProzessPath \in Path /\ ProzessPath # <<>>
      /\ Parent(ProzessPath) = Dossier /\ Last(ProzessPath) = Prozess
      /\ ProzessPath # Dossier
  <2>1. ProzessPath = Dossier \o <<Prozess>>
    BY <1>5, <1>6, ParentOfConcat DEF ProzessPath
  <2>2. /\ Dossier \o <<Prozess>> \in Path /\ Dossier \o <<Prozess>> # <<>>
        /\ Parent(Dossier \o <<Prozess>>) = Dossier /\ Last(Dossier \o <<Prozess>>) = Prozess
        /\ Dossier \o <<Prozess>> # Dossier
    BY <1>5, <1>6, ParentOfConcat
  <2> QED
    BY <2>1, <2>2
<1>8. IsPrefix(Dossier, ProzessPath)
  BY <1>7, ParentFacts
<1>9. IsPrefix(c, ProzessPath)
  BY <1>1, <1>6, <1>7, <1>8, PrefixOrder
<1>10. ProzessPath # c
  <2>1. SUFFICES ASSUME ProzessPath = c PROVE FALSE
    OBVIOUS
  <2>2. Dossier = c
    BY <1>1, <1>6, <1>8, <2>1, PrefixOrder
  <2> QED
    BY <1>7, <2>1, <2>2
<1>11. ASSUME ProzessPath \in DOMAIN tree PROVE \E e \in FileName : Dossier = c \o <<e>>
  <2>1. E # {}
    <3>1. SUFFICES ASSUME E = {} PROVE FALSE
      OBVIOUS
    <3>2. ProzessPath \in E
      BY <1>4, <1>7, <1>11, <3>1 DEF E, Children, c
    <3> QED
      BY <3>1, <3>2
  <2> QED
    BY <1>3, <1>4, <2>1
<1> QED
  BY <1>4, <1>7, <1>9, <1>10, <1>11 DEF c, E

\* A directory that can be made, or a move from one path to another.
IsOperation(s) == (s.op = "mkdir" /\ s.to \in Path) \/ (s.op = "move" /\ IsMove(s))

\* Everything TransformSIP does is one or the other.
LEMMA OperationFacts ==
  ASSUME IsTree(tree)
  PROVE  \A i \in 1..Len(Transform) : IsOperation(Transform[i])
<1>1. \A d \in Path : IsOperation(Mkdir(d))
  BY DEF IsOperation, Mkdir
<1>2. \A p \in Path : \A q \in Path \ {<<>>} : IsOperation(Rename(p, q))
  BY DEF IsOperation, Rename, IsMove
<1>3. /\ IsOperation(Mkdir(<<"metadata">>)) /\ IsOperation(Mkdir(<<"objects", Name>>))
      /\ IsOperation(Mkdir(PIPHeader))
  <2>1. <<"metadata">> \in Path /\ <<"objects", Name>> \in Path /\ PIPHeader \in Path
    BY PlaceFacts
  <2> QED
    BY <1>1, <2>1, Zenon
<1>4. /\ Prozess \in FileName /\ Updated \in FileName /\ LogicalMD \in FileName
  BY Names
<1>5. IsOperation(Rename(Append(Dossier, Prozess), Metadata(Prozess)))
  BY <1>2, <1>4, MetadataFacts, DossierFacts DEF ProzessPath
<1>6. /\ IsOperation(Rename(AddedPath(Updated), Metadata(Updated)))
      /\ IsOperation(Rename(AddedPath(LogicalMD), Metadata(LogicalMD)))
  BY <1>2, <1>4, MetadataFacts, AddedFacts
<1>7. /\ IsOperation(Rename(Layout.content, PIPContent))
      /\ IsOperation(Rename(Layout.metadata, PIPMetadata))
  BY <1>2, LayoutFacts, PlaceFacts
<1> DEFINE k == IF Digitized THEN 1 ELSE 0
           n == IF IsAIP THEN k + 2 ELSE k
<1>8. /\ (Digitized /\ k = 1) \/ (~Digitized /\ k = 0)
      /\ (IsAIP /\ n = k + 2) \/ (~IsAIP /\ n = k)
  OBVIOUS
<1>9. /\ Len(Transform) = n + 5
      /\ Transform[1] = Mkdir(<<"metadata">>)
      /\ Digitized => Transform[2] = Rename(Append(Dossier, Prozess), Metadata(Prozess))
      /\ IsAIP => /\ Transform[k + 2] = Rename(AddedPath(Updated), Metadata(Updated))
                  /\ Transform[k + 3] = Rename(AddedPath(LogicalMD), Metadata(LogicalMD))
      /\ Transform[n + 2] = Mkdir(<<"objects", Name>>)
      /\ Transform[n + 3] = Rename(Layout.content, PIPContent)
      /\ Transform[n + 4] = Mkdir(PIPHeader)
      /\ Transform[n + 5] = Rename(Layout.metadata, PIPMetadata)
  BY TransformFacts, Zenon
<1> HIDE DEF k, n
<1> TAKE i \in 1..Len(Transform)
<1>10. /\ i \in 1..(n + 5) /\ n \in Nat /\ k \in Nat
  BY <1>8, <1>9
<1>11. CASE i > n + 1
  <2>1. i = n + 2 \/ i = n + 3 \/ i = n + 4 \/ i = n + 5
    BY <1>10, <1>11
  <2> QED
    BY <1>3, <1>7, <1>9, <2>1
<1>12. CASE i = 1
  BY <1>3, <1>9, <1>12
<1>13. CASE i > 1 /\ i <= n + 1
  <2>1. \/ Digitized /\ i = 2
        \/ IsAIP /\ (i = k + 2 \/ i = k + 3)
    BY <1>8, <1>10, <1>13
  <2> QED
    BY <1>5, <1>6, <1>9, <2>1
<1> QED
  BY <1>10, <1>11, <1>12, <1>13

\* An operation keeps every entry somewhere.
LEMMA OperationKeeps ==
  ASSUME NEW t, IsTree(t), NEW s, IsOperation(s), Possible(t, s)
  PROVE  IsTree(Apply(t, s)) /\ \A p \in DOMAIN t : \E q \in DOMAIN Apply(t, s) : Apply(t, s)[q] = t[p]
<1>1. CASE s.op = "mkdir" /\ s.to \in Path
  <2>1. CanMkdir(t, s.to) /\ Apply(t, s) = MkdirAll(t, s.to)
    BY <1>1 DEF Possible, Apply
  <2>2. IsTree(MkdirAll(t, s.to))
        /\ \A q \in DOMAIN t : q \in DOMAIN MkdirAll(t, s.to) /\ MkdirAll(t, s.to)[q] = t[q]
    BY <1>1, <2>1, MkdirFacts
  <2> QED
    BY <2>1, <2>2
<1>2. CASE s.op = "move" /\ IsMove(s)
  <2> DEFINE m == Move(t, s.from, s.to)
  <2>1. CanMove(t, s.from, s.to) /\ Apply(t, s) = m
    BY <1>2 DEF Possible, Apply
  <2>2. s.from \in Path /\ s.to \in Path \ {<<>>}
    BY <1>2 DEF IsMove
  <2>3. /\ IsTree(m)
        /\ \A p \in DOMAIN t : ~IsPrefix(s.from, p) => p \in DOMAIN m /\ m[p] = t[p]
        /\ \A x \in Path : s.from \o x \in DOMAIN t =>
             s.to \o x \in DOMAIN m /\ m[s.to \o x] = t[s.from \o x]
    BY <2>1, <2>2, MoveFacts
  <2>4. ASSUME NEW p \in DOMAIN t PROVE \E q \in DOMAIN m : m[q] = t[p]
    <3>1. CASE ~IsPrefix(s.from, p)
      BY <2>3, <3>1
    <3>2. CASE IsPrefix(s.from, p)
      <4>1. p \in Path
        BY DEF IsTree
      <4>2. PICK x \in Path : p = s.from \o x
        BY <2>2, <3>2, <4>1, PrefixIsConcat
      <4> QED
        BY <2>3, <4>2
    <3> QED
      BY <3>1, <3>2
  <2> QED
    BY <2>1, <2>3, <2>4
<1> QED
  BY <1>1, <1>2 DEF IsOperation

\* So does a TransformSIP that stops between its operations.
LEMMA ReachedKeeps ==
  ASSUME IsTree(tree), NEW i \in 0..Len(Transform), Reached(i)
  PROVE  IsTree(After[i]) /\ \A p \in DOMAIN tree : \E q \in DOMAIN After[i] : After[i][q] = tree[p]
<1> DEFINE Keeps(u) == IsTree(u) /\ \A p \in DOMAIN tree : \E q \in DOMAIN u : u[q] = tree[p]
           T == {j \in Nat : j <= i => Keeps(After[j])}
<1>1. /\ After[0] = tree /\ \A j \in Nat \ {0} : After[j] = Apply(After[j - 1], Transform[j])
  BY AfterFacts
<1>2. \A j \in 1..i : Possible(After[j - 1], Transform[j])
  BY DEF Reached
<1>3. \A j \in 1..Len(Transform) : IsOperation(Transform[j])
  BY OperationFacts
<1>4. 0 \in T
  BY <1>1
<1>5. i \in Nat /\ i <= Len(Transform)
  <2>1. Len(Transform) \in Nat \/ Len(Transform) \notin Nat
    OBVIOUS
  <2> QED
    BY <2>1
<1>6. ASSUME NEW j \in T PROVE j + 1 \in T
  <2>1. SUFFICES ASSUME j + 1 <= i PROVE Keeps(After[j + 1])
    OBVIOUS
  <2>2. /\ j \in Nat /\ j <= i /\ j + 1 \in 1..i /\ j + 1 \in 1..Len(Transform)
        /\ j + 1 \in Nat \ {0} /\ j + 1 - 1 = j
    BY <1>5, <2>1
  <2>3. Keeps(After[j])
    BY <2>2
  <2>4. PICK u : u = After[j]
    OBVIOUS
  <2>5. PICK s : s = Transform[j + 1]
    OBVIOUS
  <2>6. IsTree(u) /\ IsOperation(s) /\ Possible(u, s) /\ After[j + 1] = Apply(u, s)
    BY <1>1, <1>2, <1>3, <2>2, <2>3, <2>4, <2>5
  <2>7. IsTree(Apply(u, s)) /\ \A p \in DOMAIN u : \E q \in DOMAIN Apply(u, s) : Apply(u, s)[q] = u[p]
    BY <2>6, OperationKeeps
  <2> QED
    BY <2>3, <2>4, <2>6, <2>7
<1>7. T = Nat
  <2> HIDE DEF T
  <2>1. T \in SUBSET Nat
    BY DEF T
  <2> QED
    BY <1>4, <1>6, <2>1, Induction
<1> QED
  BY <1>5, <1>7

-----------------------------------------------------------------------------
(* What TransformSIP makes of the package.                                  *)

ProzessMove  == Rename(ProzessPath, Metadata(Prozess))
UpdatedMove  == Rename(AddedPath(Updated), Metadata(Updated))
LogicalMove  == Rename(AddedPath(LogicalMD), Metadata(LogicalMD))
ContentMove  == Rename(Layout.content, PIPContent)
MetadataMove == Rename(Layout.metadata, PIPMetadata)

\* The moves into the metadata directory of a digitized package and of an AIP,
\* and all of them.
OfDigitized == IF Digitized THEN {ProzessMove} ELSE {}
OfAIP  == IF IsAIP THEN {UpdatedMove, LogicalMove} ELSE {}
Moves  == OfDigitized \cup OfAIP \cup {ContentMove, MetadataMove}

\* They go from the directories of the package to those of the PIP.
IsStep(m) ==
  /\ IsMove(m) /\ m.from # <<>>
  /\ Head(m.from) \in {"content", "header", "additional"}
  /\ Head(m.to) \in {"metadata", "objects"}
  /\ ~IsPrefix(m.to, PIPHeader) /\ ~IsPrefix(m.to, <<"objects", Name>>)
  /\ ~IsPrefix(m.to, <<"metadata">>)

\* Each of TransformSIP's moves does.
LEMMA StepFacts ==
  ASSUME IsTree(tree)
  PROVE  /\ IsStep(ProzessMove) /\ IsStep(UpdatedMove) /\ IsStep(LogicalMove)
         /\ IsStep(ContentMove) /\ IsStep(MetadataMove)
<1>1. \A p \in Path : \A q \in Path : p # <<>> /\ q # <<>> /\ Head(p) # Head(q) => ~IsPrefix(p, q)
  BY HeadOfPrefix
<1>2. /\ PIPHeader \in Path /\ PIPHeader # <<>> /\ Head(PIPHeader) = "objects"
      /\ <<"objects", Name>> \in Path /\ <<"objects", Name>> # <<>>
      /\ Head(<<"objects", Name>>) = "objects"
  BY PlaceFacts
<1>3. /\ Prozess \in FileName /\ Updated \in FileName /\ LogicalMD \in FileName
  BY Names
<1>4. ASSUME NEW p \in Path, p # <<>>, Head(p) \in {"content", "header", "additional"},
             NEW n \in FileName
      PROVE  IsStep(Rename(p, Metadata(n)))
  <2>1. Metadata(n) \in Path /\ Metadata(n) # <<>> /\ Head(Metadata(n)) = "metadata"
        /\ ~IsPrefix(Metadata(n), <<"metadata">>)
    BY MetadataFacts
  <2>2. ~IsPrefix(Metadata(n), PIPHeader) /\ ~IsPrefix(Metadata(n), <<"objects", Name>>)
    BY <1>1, <1>2, <2>1
  <2>3. Rename(p, Metadata(n)).from = p /\ Rename(p, Metadata(n)).to = Metadata(n)
    BY DEF Rename
  <2> QED
    BY <1>4, <2>1, <2>2, <2>3, Zenon DEF IsStep, IsMove
<1>5. IsStep(ProzessMove)
  <2>1. /\ ProzessPath \in Path /\ ProzessPath # <<>> /\ IsPrefix(Layout.content, ProzessPath)
    BY DossierFacts
  <2>2. /\ Layout.content \in Path /\ Layout.content # <<>>
        /\ Head(Layout.content) \in {"content", "header", "additional"}
    BY LayoutFacts
  <2>3. Head(ProzessPath) \in {"content", "header", "additional"}
    BY <2>1, <2>2, HeadOfPrefix
  <2> QED
    BY <1>3, <1>4, <2>1, <2>3 DEF ProzessMove
<1>6. IsStep(UpdatedMove) /\ IsStep(LogicalMove)
  <2>1. \A n \in FileName : /\ AddedPath(n) \in Path /\ AddedPath(n) # <<>>
                            /\ Head(AddedPath(n)) = "additional"
    BY AddedFacts
  <2> QED
    BY <1>3, <1>4, <2>1 DEF UpdatedMove, LogicalMove
<1>7. IsStep(ContentMove) /\ IsStep(MetadataMove)
  <2>1. /\ Layout.content \in Path /\ Layout.content # <<>>
        /\ Head(Layout.content) \in {"content", "header", "additional"}
        /\ Layout.metadata \in Path /\ Layout.metadata # <<>>
        /\ Head(Layout.metadata) \in {"content", "header", "additional"}
    BY LayoutFacts
  <2>2. /\ PIPContent \in Path \ {<<>>} /\ Head(PIPContent) = "objects"
        /\ PIPMetadata \in Path \ {<<>>} /\ Head(PIPMetadata) = "objects"
        /\ ~IsPrefix(PIPContent, PIPHeader) /\ ~IsPrefix(PIPContent, <<"objects", Name>>)
        /\ ~IsPrefix(PIPMetadata, PIPHeader) /\ ~IsPrefix(PIPMetadata, <<"objects", Name>>)
    BY PlaceFacts DEF Apart
  <2>m. ~IsPrefix(PIPContent, <<"metadata">>) /\ ~IsPrefix(PIPMetadata, <<"metadata">>)
    BY <1>1, <2>2, PlaceFacts
  <2>3. /\ ContentMove.from = Layout.content /\ ContentMove.to = PIPContent
        /\ MetadataMove.from = Layout.metadata /\ MetadataMove.to = PIPMetadata
    BY DEF ContentMove, MetadataMove, Rename
  <2> QED
    BY <2>1, <2>2, <2>3, <2>m, Zenon DEF IsStep, IsMove
<1> QED
  BY <1>5, <1>6, <1>7

\* One may come after another: it takes nothing that has been taken, and goes to
\* a place of its own.
MayFollow(n, m) == ~IsPrefix(m.from, n.from) /\ Apart(n.to, m.to)

\* In the order TransformSIP makes them, each may come after those before.
LEMMA OrderFacts ==
  ASSUME IsTree(tree)
  PROVE  /\ MayFollow(UpdatedMove, ProzessMove) /\ MayFollow(LogicalMove, ProzessMove)
         /\ MayFollow(LogicalMove, UpdatedMove)
         /\ \A m \in OfDigitized \cup OfAIP : MayFollow(ContentMove, m) /\ MayFollow(MetadataMove, m)
         /\ MayFollow(MetadataMove, ContentMove)
<1>1. \A p \in Path : \A q \in Path : p # <<>> /\ q # <<>> /\ Head(p) # Head(q) => Apart(p, q)
  BY ApartByHead
<1>2. /\ Prozess \in FileName /\ Updated \in FileName /\ LogicalMD \in FileName
      /\ Prozess # Updated /\ LogicalMD # Prozess /\ LogicalMD # Updated
  BY Names, NamesAreNames DEF Prozess, Updated
<1>3. \A p, q : Rename(p, q).from = p /\ Rename(p, q).to = q
  BY DEF Rename
<1>4. /\ Apart(Metadata(Updated), Metadata(Prozess)) /\ Apart(Metadata(LogicalMD), Metadata(Prozess))
      /\ Apart(Metadata(LogicalMD), Metadata(Updated))
  BY <1>2, MetadataFacts
<1>5. \A n \in FileName : Apart(PIPContent, Metadata(n)) /\ Apart(PIPMetadata, Metadata(n))
  <2>1. /\ PIPContent \in Path /\ PIPContent # <<>> /\ Head(PIPContent) = "objects"
        /\ PIPMetadata \in Path /\ PIPMetadata # <<>> /\ Head(PIPMetadata) = "objects"
    BY PlaceFacts
  <2>2. \A n \in FileName : /\ Metadata(n) \in Path /\ Metadata(n) # <<>>
                            /\ Head(Metadata(n)) = "metadata"
    BY MetadataFacts
  <2> QED
    BY <1>1, <2>1, <2>2
<1>6. Apart(PIPMetadata, PIPContent)
  BY PlaceFacts DEF Apart
<1>7. /\ ProzessPath \in Path /\ ProzessPath # <<>> /\ ProzessPath # Layout.content
      /\ IsPrefix(Layout.content, ProzessPath)
  BY DossierFacts
<1>8. /\ Layout.content \in Path /\ Layout.content # <<>> /\ Layout.metadata \in Path
      /\ Layout.metadata # <<>> /\ Apart(Layout.content, Layout.metadata)
  BY LayoutFacts
<1>9. Head(ProzessPath) = Head(Layout.content) /\ Head(Layout.content) = "content"
  <2>1. Head(Layout.content) = "content"
    BY DEF Layout
  <2> QED
    BY <1>7, <1>8, <2>1, HeadOfPrefix
<1>10. \A n \in FileName : /\ AddedPath(n) \in Path /\ AddedPath(n) # <<>>
                           /\ Head(AddedPath(n)) = "additional"
  BY AddedFacts
<1>11. /\ ~IsPrefix(ProzessPath, AddedPath(Updated)) /\ ~IsPrefix(ProzessPath, AddedPath(LogicalMD))
  BY <1>1, <1>2, <1>7, <1>9, <1>10 DEF Apart
<1>12. ~IsPrefix(AddedPath(Updated), AddedPath(LogicalMD))
  BY <1>2, AddedFacts DEF Apart
<1>13. ~IsPrefix(ProzessPath, Layout.content) /\ ~IsPrefix(ProzessPath, Layout.metadata)
  BY <1>7, <1>8, PrefixOrder DEF Apart
<1>14. IsAIP => /\ \A n \in {Updated, LogicalMD} : /\ ~IsPrefix(AddedPath(n), Layout.content)
                                                   /\ ~IsPrefix(AddedPath(n), Layout.metadata)
  BY LayoutFacts DEF Apart
<1>15. /\ MayFollow(UpdatedMove, ProzessMove) /\ MayFollow(LogicalMove, ProzessMove)
       /\ MayFollow(LogicalMove, UpdatedMove)
  BY <1>3, <1>4, <1>11, <1>12 DEF MayFollow, UpdatedMove, LogicalMove, ProzessMove
<1>16. MayFollow(MetadataMove, ContentMove)
  BY <1>3, <1>6, <1>8 DEF MayFollow, MetadataMove, ContentMove, Apart
<1>17. MayFollow(ContentMove, ProzessMove) /\ MayFollow(MetadataMove, ProzessMove)
  BY <1>2, <1>3, <1>5, <1>13 DEF MayFollow, MetadataMove, ContentMove, ProzessMove
<1>18. IsAIP => \A m \in {UpdatedMove, LogicalMove} : MayFollow(ContentMove, m) /\ MayFollow(MetadataMove, m)
  BY <1>2, <1>3, <1>5, <1>14
     DEF MayFollow, MetadataMove, ContentMove, UpdatedMove, LogicalMove
<1> QED
  BY <1>15, <1>16, <1>17, <1>18 DEF OfDigitized, OfAIP

\* The next move: what it does, and when it is possible.
LEMMA NextMove ==
  ASSUME NEW u, NEW t, IsTree(t), NEW M, NEW h \in Path, Moved(u, t, M, h), NEW n, IsStep(n),
         \A m \in M : IsStep(m) /\ MayFollow(n, m),
         h # <<>> => Head(h) = "objects", ~IsPrefix(n.to, h)
  PROVE  /\ CanMove(u, n.from, n.to) => Moved(Move(u, n.from, n.to), t, M \cup {n}, h)
         /\ n.from \in DOMAIN t /\ n.to \notin DOMAIN t /\ IsDir(u, Parent(n.to)) =>
              CanMove(u, n.from, n.to)
<1>1. \A m : IsStep(m) => m.from \in Path /\ m.from # <<>> /\ m.to \in Path /\ m.to # <<>>
  BY DEF IsStep, IsMove
<1>2. \A m, k : IsStep(m) /\ IsStep(k) => Apart(m.from, k.to) /\ Apart(k.to, m.from)
  <2> SUFFICES ASSUME NEW m, NEW k, IsStep(m), IsStep(k)
               PROVE  Apart(m.from, k.to) /\ Apart(k.to, m.from)
    OBVIOUS
  <2>1. Head(m.from) # Head(k.to)
    BY DEF IsStep
  <2> QED
    BY <1>1, <2>1, ApartByHead
<1>3. ~IsPrefix(n.from, h)
  <2>1. CASE h = <<>>
    BY <1>1, <2>1, PrefixOrder
  <2>2. CASE h # <<>>
    BY <1>1, <2>2, HeadOfPrefix DEF IsStep
  <2> QED
    BY <2>1, <2>2
<1>4. CanMove(u, n.from, n.to) => Moved(Move(u, n.from, n.to), t, M \cup {n}, h)
  <2> SUFFICES ASSUME CanMove(u, n.from, n.to)
               PROVE  Moved(Move(u, n.from, n.to), t, M \cup {n}, h)
    OBVIOUS
  <2>1. \A m \in M : /\ IsMove(m) /\ ~IsPrefix(m.from, n.from) /\ Apart(n.from, m.to)
                     /\ Apart(n.to, m.to) /\ Apart(n.to, m.from)
    BY <1>2 DEF MayFollow, IsStep
  <2>2. IsMove(n)
    BY DEF IsStep
  <2> QED
    BY <1>3, <2>1, <2>2, MovedMove
<1>5. ASSUME n.from \in DOMAIN t, n.to \notin DOMAIN t, IsDir(u, Parent(n.to))
      PROVE  CanMove(u, n.from, n.to)
  <2>1. \A m \in M : ~IsPrefix(m.from, n.from) /\ ~IsPrefix(m.to, n.from)
    BY <1>2 DEF MayFollow, Apart
  <2>2. \A m \in M : ~IsPrefix(m.from, n.to) /\ ~IsPrefix(m.to, n.to)
    BY <1>2 DEF MayFollow, Apart
  <2>3. Same(u, n.from, t, n.from) /\ Same(u, n.to, t, n.to)
    BY <1>1, <1>3, <2>1, <2>2 DEF Moved
  <2>4. ~IsPrefix(n.from, n.to)
    BY <1>2 DEF Apart
  <2> QED
    BY <1>5, <2>3, <2>4 DEF CanMove, Same
<1> QED
  BY <1>4, <1>5

\* The next directory.
LEMMA NextMkdir ==
  ASSUME NEW u, NEW t, IsTree(t), NEW M, NEW h \in Path, Moved(u, t, M, h),
         \A m \in M : IsStep(m),
         NEW d \in Path, d # <<>>, Head(d) = "objects", IsPrefix(h, d),
         \A m \in M : ~IsPrefix(m.to, d)
  PROVE  /\ CanMkdir(u, d) => Moved(MkdirAll(u, d), t, M, d)
         /\ <<"objects">> \notin DOMAIN t => CanMkdir(u, d)
<1>1. \A m \in M : /\ m.from \in Path /\ m.from # <<>> /\ m.to \in Path /\ m.to # <<>>
                   /\ Head(m.from) # "objects" /\ IsMove(m)
  BY DEF IsStep, IsMove
<1>2. \A m \in M : ~IsPrefix(m.from, d)
  BY <1>1, HeadOfPrefix
<1>3. CanMkdir(u, d) => Moved(MkdirAll(u, d), t, M, d)
  BY <1>1, <1>2, MovedMkdir
<1>4. ASSUME <<"objects">> \notin DOMAIN t, NEW p \in Prefixes(d), p \in Files(u) PROVE FALSE
  <2>1. p \in Path /\ IsPrefix(p, d)
    BY PrefixesFacts
  <2>2. p \in DOMAIN u /\ p # <<>> /\ u[p] # Dir
    BY <1>4 DEF Files, Moved, IsTree
  <2>3. ~IsPrefix(p, h)
    BY <2>1, <2>2 DEF Moved, Dirs
  <2>4. \A m \in M : ~IsPrefix(m.from, p) /\ ~IsPrefix(m.to, p)
    BY <1>1, <1>2, <2>1, PrefixOrder
  <2>5. p \in DOMAIN t
    BY <2>1, <2>2, <2>3, <2>4 DEF Moved, Same
  <2>6. Head(p) = "objects"
    BY <2>1, <2>2, HeadOfPrefix
  <2>7. IsPrefix(<<"objects">>, p) /\ <<"objects">> \in Path /\ <<"objects">> # <<>>
    BY <2>1, <2>2, <2>6, HeadFacts, Names, Singleton
  <2>8. <<"objects">> \in DOMAIN t
    BY <2>5, <2>7, TreeFacts
  <2> QED
    BY <1>4, <2>8
<1> QED
  BY <1>3, <1>4 DEF CanMkdir

\* Nothing has been moved yet.
LEMMA NothingMoved ==
  ASSUME NEW t, IsTree(t), <<"metadata">> \in Dirs(t)
  PROVE  /\ CanMkdir(t, <<"metadata">>)
         /\ Moved(MkdirAll(t, <<"metadata">>), t, {}, <<>>)
<1> DEFINE d == <<"metadata">>
           w == MkdirAll(t, d)
<1>1. d \in Path /\ d # <<>>
  BY PlaceFacts
<1>2. \A p \in Path : IsPrefix(p, d) => p = <<>> \/ p \in Dirs(t)
  BY <1>1 DEF IsTree, Dirs
<1>3. \A p \in Path : IsPrefix(p, d) => p \notin Files(t)
  BY <1>2 DEF Files, Dirs, IsTree
<1>4. CanMkdir(t, d)
  BY <1>1, <1>3, PrefixesFacts DEF CanMkdir
<1>5. /\ IsTree(w)
      /\ \A q : q \in DOMAIN w <=> q \in DOMAIN t \/ (q \in Path \ {<<>>} /\ IsPrefix(q, d))
      /\ \A p \in DOMAIN t : w[p] = t[p]
  BY <1>1, <1>4, MkdirFacts
<1> HIDE DEF w
<1>6. \A p \in Path : Same(w, p, t, p)
  BY <1>2, <1>5 DEF Same, Dirs
<1>7. \A p \in Path : IsPrefix(p, <<>>) => p = <<>>
  BY <1>1, PrefixOrder
<1>8. Moved(w, t, {}, <<>>)
  BY <1>5, <1>6, <1>7 DEF Moved
<1> QED
  BY <1>4, <1>8 DEF w

\* One operation after another.
LEMMA ReachedFacts ==
  ASSUME NEW i \in Nat \ {0}
  PROVE  Reached(i) <=> Reached(i - 1) /\ Possible(After[i - 1], Transform[i])
<1>1. \A j : j \in 1..i <=> j \in 1..(i - 1) \/ j = i
  OBVIOUS
<1> QED
  BY <1>1 DEF Reached

\* A package that can be restructured: what is to be moved is there, and nothing
\* is where it goes.
Fit ==
  /\ <<"objects">> \notin DOMAIN tree
  /\ \A m \in Moves : m.from \in DOMAIN tree /\ m.to \notin DOMAIN tree

\* After i operations the moves in M have been made, and if the package is fit
\* they have been possible.
Stage(i, M, h) ==
  /\ Reached(i) => Moved(After[i], tree, M, h)
  /\ Fit => Reached(i)

\* A move that may come next takes the restructuring on.
LEMMA StageMove ==
  ASSUME IsTree(tree), <<"metadata">> \in Dirs(tree), NEW i \in Nat \ {0}, NEW M, NEW h \in Path,
         Stage(i - 1, M, h), NEW n \in Moves, Transform[i] = n, n.op = "move", IsStep(n),
         \A m \in M : IsStep(m) /\ MayFollow(n, m),
         h # <<>> => Head(h) = "objects", ~IsPrefix(n.to, h),
         Parent(n.to) = <<"metadata">>
           \/ (Parent(n.to) \in Path \ {<<>>} /\ IsPrefix(Parent(n.to), h))
  PROVE  Stage(i, M \cup {n}, h)
<1>1. PICK u : u = After[i - 1]
  OBVIOUS
<1>2. /\ After[i] = Apply(u, n) /\ Apply(u, n) = Move(u, n.from, n.to)
      /\ Possible(u, n) <=> CanMove(u, n.from, n.to)
  BY <1>1, AfterFacts DEF Apply, Possible
<1>3. Reached(i) <=> Reached(i - 1) /\ CanMove(u, n.from, n.to)
  BY <1>1, <1>2, ReachedFacts
<1>4. Reached(i - 1) => Moved(u, tree, M, h)
  BY <1>1 DEF Stage
<1>5. ASSUME Reached(i) PROVE Moved(After[i], tree, M \cup {n}, h)
  <2>1. Moved(u, tree, M, h) /\ CanMove(u, n.from, n.to)
    BY <1>3, <1>4, <1>5
  <2>2. Moved(Move(u, n.from, n.to), tree, M \cup {n}, h)
    BY <2>1, NextMove
  <2> QED
    BY <1>2, <2>2
<1>6. ASSUME Fit PROVE Reached(i)
  <2>1. Reached(i - 1) /\ Moved(u, tree, M, h)
    BY <1>4, <1>6 DEF Stage
  <2>2. n.from \in DOMAIN tree /\ n.to \notin DOMAIN tree
    BY <1>6 DEF Fit
  <2>3. IsDir(u, Parent(n.to))
    <3>1. CASE Parent(n.to) = <<"metadata">>
      <4> DEFINE d == <<"metadata">>
      <4>1. d \in Path /\ d # <<>> /\ Head(d) = "metadata"
        BY PlaceFacts
      <4>2. \A m \in M : ~IsPrefix(m.from, d) /\ ~IsPrefix(m.to, d)
        <5> TAKE m \in M
        <5>1. /\ IsStep(m) /\ m.from \in Path /\ m.from # <<>> /\ Head(m.from) # "metadata"
          BY DEF IsStep, IsMove
        <5> QED
          BY <4>1, <5>1, HeadOfPrefix DEF IsStep
      <4>3. ~IsPrefix(d, h)
        <5>1. CASE h = <<>>
          BY <4>1, <5>1, PrefixOrder
        <5>2. CASE h # <<>>
          BY <4>1, <5>2, HeadOfPrefix
        <5> QED
          BY <5>1, <5>2
      <4> HIDE DEF d
      <4>4. Same(u, d, tree, d)
        BY <2>1, <4>1, <4>2, <4>3 DEF Moved
      <4> QED
        BY <3>1, <4>4 DEF d, Same, IsDir, Dirs
    <3>2. CASE Parent(n.to) \in Path \ {<<>>} /\ IsPrefix(Parent(n.to), h)
      BY <2>1, <3>2 DEF Moved, IsDir
    <3> QED
      BY <3>1, <3>2
  <2>4. CanMove(u, n.from, n.to)
    BY <2>1, <2>2, <2>3, NextMove
  <2> QED
    BY <1>3, <2>1, <2>4
<1> QED
  BY <1>5, <1>6 DEF Stage

\* So does a directory that is made for the moves to come.
LEMMA StageMkdir ==
  ASSUME IsTree(tree), NEW i \in Nat \ {0}, NEW M, NEW h \in Path,
         Stage(i - 1, M, h), NEW d \in Path, Transform[i] = Mkdir(d),
         \A m \in M : IsStep(m) /\ ~IsPrefix(m.to, d),
         d # <<>>, Head(d) = "objects", IsPrefix(h, d)
  PROVE  Stage(i, M, d)
<1>1. PICK u : u = After[i - 1]
  OBVIOUS
<1>2. After[i] = MkdirAll(u, d) /\ (Possible(u, Transform[i]) <=> CanMkdir(u, d))
  BY <1>1, AfterFacts DEF Apply, Possible, Mkdir
<1>3. Reached(i) <=> Reached(i - 1) /\ CanMkdir(u, d)
  BY <1>1, <1>2, ReachedFacts
<1>4. Reached(i - 1) => Moved(u, tree, M, h)
  BY <1>1 DEF Stage
<1>5. Moved(u, tree, M, h) => /\ CanMkdir(u, d) => Moved(MkdirAll(u, d), tree, M, d)
                              /\ <<"objects">> \notin DOMAIN tree => CanMkdir(u, d)
  BY NextMkdir
<1>6. ASSUME Reached(i) PROVE Moved(After[i], tree, M, d)
  BY <1>2, <1>3, <1>4, <1>5, <1>6
<1>7. ASSUME Fit PROVE Reached(i)
  <2>1. Reached(i - 1) /\ <<"objects">> \notin DOMAIN tree
    BY <1>7 DEF Fit, Stage
  <2> QED
    BY <1>3, <1>4, <1>5, <2>1
<1> QED
  BY <1>6, <1>7 DEF Stage

\* A TransformSIP that completes has made all the moves; it completes if the
\* package is fit.
LEMMA Transformed ==
  ASSUME IsTree(tree), <<"metadata">> \in Dirs(tree)
  PROVE  Stage(Len(Transform), Moves, PIPHeader)
<1> DEFINE k == IF Digitized THEN 1 ELSE 0
           n == IF IsAIP THEN k + 2 ELSE k
           o == <<"objects", Name>>
<1>1. /\ (Digitized /\ k = 1) \/ (~Digitized /\ k = 0)
      /\ (IsAIP /\ n = k + 2) \/ (~IsAIP /\ n = k)
  OBVIOUS
<1>2. /\ Len(Transform) = n + 5
      /\ Transform[1] = Mkdir(<<"metadata">>)
      /\ Digitized => Transform[2] = ProzessMove
      /\ IsAIP => Transform[k + 2] = UpdatedMove /\ Transform[k + 3] = LogicalMove
      /\ Transform[n + 2] = Mkdir(o)
      /\ Transform[n + 3] = ContentMove
      /\ Transform[n + 4] = Mkdir(PIPHeader)
      /\ Transform[n + 5] = MetadataMove
  BY TransformFacts, Zenon
     DEF ProzessMove, ProzessPath, UpdatedMove, LogicalMove, ContentMove, MetadataMove
<1>k. k \in Nat
  BY <1>1
<1> HIDE DEF k, n
<1>n. n \in Nat
  BY <1>1, <1>k
<1>3. /\ IsStep(ProzessMove) /\ IsStep(UpdatedMove) /\ IsStep(LogicalMove)
      /\ IsStep(ContentMove) /\ IsStep(MetadataMove)
  BY StepFacts
<1>4. /\ MayFollow(UpdatedMove, ProzessMove) /\ MayFollow(LogicalMove, ProzessMove)
      /\ MayFollow(LogicalMove, UpdatedMove)
      /\ \A m \in OfDigitized \cup OfAIP : MayFollow(ContentMove, m) /\ MayFollow(MetadataMove, m)
      /\ MayFollow(MetadataMove, ContentMove)
  BY OrderFacts
<1>5. /\ ProzessMove.op = "move" /\ UpdatedMove.op = "move" /\ LogicalMove.op = "move"
      /\ ContentMove.op = "move" /\ MetadataMove.op = "move"
  BY DEF ProzessMove, UpdatedMove, LogicalMove, ContentMove, MetadataMove, Rename
<1>6. /\ Parent(ProzessMove.to) = <<"metadata">> /\ Parent(UpdatedMove.to) = <<"metadata">>
      /\ Parent(LogicalMove.to) = <<"metadata">>
  BY MetadataFacts, Names DEF ProzessMove, UpdatedMove, LogicalMove, Rename
<1>7. /\ Parent(ContentMove.to) = o /\ Parent(MetadataMove.to) = PIPHeader
      /\ o \in Path \ {<<>>} /\ PIPHeader \in Path \ {<<>>} /\ Head(o) = "objects"
      /\ Head(PIPHeader) = "objects" /\ IsPrefix(o, PIPHeader)
      /\ IsPrefix(o, o) /\ IsPrefix(PIPHeader, PIPHeader)
      /\ <<>> \in Path /\ IsPrefix(<<>>, o)
  BY PlaceFacts, PrefixOrder, EmptySeq DEF ContentMove, MetadataMove, Rename, Path
<1>8. \A m : IsStep(m) => ~IsPrefix(m.to, <<>>) /\ ~IsPrefix(m.to, o) /\ ~IsPrefix(m.to, PIPHeader)
  BY PrefixOrder DEF IsStep, IsMove
<1>9. Stage(1, {}, <<>>)
  <2>1. CanMkdir(tree, <<"metadata">>) /\ Moved(MkdirAll(tree, <<"metadata">>), tree, {}, <<>>)
    BY NothingMoved
  <2>2. After[1] = MkdirAll(tree, <<"metadata">>) /\ Possible(After[0], Transform[1])
    BY <1>2, <2>1, AfterFacts DEF Apply, Possible, Mkdir
  <2>3. Reached(0)
    BY DEF Reached
  <2>4. Reached(1)
    BY <2>2, <2>3, ReachedFacts
  <2> QED
    BY <2>1, <2>2, <2>4 DEF Stage
<1>10. Stage(k + 1, OfDigitized, <<>>)
  <2>1. CASE ~Digitized
    BY <1>1, <1>9, <2>1 DEF OfDigitized
  <2>2. CASE Digitized
    <3>1. ProzessMove \in Moves /\ OfDigitized = {ProzessMove}
      BY <2>2 DEF Moves, OfDigitized
    <3>2. Stage(2, {} \cup {ProzessMove}, <<>>)
      BY <1>2, <1>3, <1>5, <1>6, <1>7, <1>8, <1>9, <2>2, <3>1, StageMove
    <3> QED
      BY <1>1, <2>2, <3>1, <3>2
  <2> QED
    BY <2>1, <2>2
<1>11. Stage(n + 1, OfDigitized \cup OfAIP, <<>>)
  <2>1. CASE ~IsAIP
    BY <1>1, <1>10, <2>1 DEF OfAIP
  <2>2. CASE IsAIP
    <3>1. UpdatedMove \in Moves /\ LogicalMove \in Moves /\ OfAIP = {UpdatedMove, LogicalMove}
      BY <2>2 DEF Moves, OfAIP
    <3>2. \A m \in OfDigitized : m = ProzessMove
      BY DEF OfDigitized
    <3>3. k + 2 \in Nat \ {0} /\ k + 2 - 1 = k + 1 /\ k + 3 \in Nat \ {0} /\ k + 3 - 1 = k + 2
          /\ n + 1 = k + 3
      BY <1>1, <1>k, <2>2
    <3>4. Stage(k + 2, OfDigitized \cup {UpdatedMove}, <<>>)
      <4>1. PICK i : i = k + 2 /\ i \in Nat \ {0} /\ i - 1 = k + 1
        BY <1>k
      <4>2. PICK M : M = OfDigitized
        OBVIOUS
      <4>3. /\ i \in Nat \ {0} /\ Stage(i - 1, M, <<>>) /\ UpdatedMove \in Moves
            /\ Transform[i] = UpdatedMove
        BY <1>2, <1>10, <2>2, <3>1, <4>1, <4>2
      <4>4. /\ \A m \in M : IsStep(m) /\ MayFollow(UpdatedMove, m)
            /\ ~IsPrefix(UpdatedMove.to, <<>>) /\ IsStep(UpdatedMove)
        BY <1>3, <1>4, <1>8, <3>2, <4>2
      <4>5. Stage(i, M \cup {UpdatedMove}, <<>>)
        BY <1>5, <1>6, <1>7, <4>3, <4>4, StageMove
      <4> QED
        BY <4>1, <4>2, <4>5
    <3>5. Stage(k + 3, OfDigitized \cup {UpdatedMove} \cup {LogicalMove}, <<>>)
      <4>1. PICK i : i = k + 3 /\ i \in Nat \ {0} /\ i - 1 = k + 2
        BY <1>k
      <4>2. PICK M : M = OfDigitized \cup {UpdatedMove}
        OBVIOUS
      <4>3. /\ i \in Nat \ {0} /\ Stage(i - 1, M, <<>>) /\ LogicalMove \in Moves
            /\ Transform[i] = LogicalMove
        BY <1>2, <2>2, <3>1, <3>4, <4>1, <4>2
      <4>4. /\ \A m \in M : IsStep(m) /\ MayFollow(LogicalMove, m)
            /\ ~IsPrefix(LogicalMove.to, <<>>) /\ IsStep(LogicalMove)
        BY <1>3, <1>4, <1>8, <3>2, <4>2
      <4>5. Stage(i, M \cup {LogicalMove}, <<>>)
        BY <1>5, <1>6, <1>7, <4>3, <4>4, StageMove
      <4> QED
        BY <4>1, <4>2, <4>5
    <3>6. OfDigitized \cup {UpdatedMove} \cup {LogicalMove} = OfDigitized \cup OfAIP
      BY <3>1
    <3> QED
      BY <3>3, <3>5, <3>6
  <2> QED
    BY <2>1, <2>2
<1>12. \A m \in OfDigitized \cup OfAIP : IsStep(m)
  BY <1>3 DEF OfDigitized, OfAIP
<1>13. /\ n + 2 \in Nat \ {0} /\ n + 2 - 1 = n + 1 /\ n + 3 \in Nat \ {0} /\ n + 3 - 1 = n + 2
       /\ n + 4 \in Nat \ {0} /\ n + 4 - 1 = n + 3 /\ n + 5 \in Nat \ {0} /\ n + 5 - 1 = n + 4
  BY <1>n
<1> DEFINE M == OfDigitized \cup OfAIP
<1>14. ContentMove \in Moves /\ MetadataMove \in Moves /\ Moves = M \cup {ContentMove} \cup {MetadataMove}
  BY DEF Moves
<1>15. /\ Stage(n + 1, M, <<>>)
       /\ \A m \in M : IsStep(m) /\ MayFollow(ContentMove, m) /\ MayFollow(MetadataMove, m)
  BY <1>4, <1>11, <1>12
<1> HIDE DEF o, M
<1>16. Stage(n + 2, M, o)
  <2>1. PICK i : i = n + 2 /\ i \in Nat \ {0} /\ i - 1 = n + 1
    BY <1>n
  <2>2. /\ i \in Nat \ {0} /\ Stage(i - 1, M, <<>>) /\ Transform[i] = Mkdir(o)
    BY <1>2, <1>15, <2>1
  <2>3. /\ \A m \in M : IsStep(m) /\ ~IsPrefix(m.to, o)
        /\ <<>> \in Path /\ o \in Path /\ o # <<>> /\ Head(o) = "objects" /\ IsPrefix(<<>>, o)
    BY <1>7, <1>8, <1>15
  <2>4. Stage(i, M, o)
    BY <2>2, <2>3, StageMkdir
  <2> QED
    BY <2>1, <2>4
<1>17. Stage(n + 3, M \cup {ContentMove}, o)
  <2>1. PICK i : i = n + 3 /\ i \in Nat \ {0} /\ i - 1 = n + 2
    BY <1>n
  <2>2. /\ i \in Nat \ {0} /\ Stage(i - 1, M, o) /\ ContentMove \in Moves
        /\ Transform[i] = ContentMove
    BY <1>2, <1>14, <1>16, <2>1
  <2>3. /\ \A m \in M : IsStep(m) /\ MayFollow(ContentMove, m)
        /\ IsStep(ContentMove) /\ ~IsPrefix(ContentMove.to, o)
    BY <1>3, <1>8, <1>15
  <2>4. /\ o \in Path /\ Head(o) = "objects" /\ Parent(ContentMove.to) \in Path \ {<<>>}
        /\ IsPrefix(Parent(ContentMove.to), o)
    BY <1>7
  <2>5. Stage(i, M \cup {ContentMove}, o)
    BY <1>5, <2>2, <2>3, <2>4, StageMove
  <2> QED
    BY <2>1, <2>5
<1>18. PICK C : C = M \cup {ContentMove}
  OBVIOUS
<1>19. \A m \in C : IsStep(m) /\ MayFollow(MetadataMove, m) /\ ~IsPrefix(m.to, PIPHeader)
  BY <1>3, <1>4, <1>8, <1>15, <1>18
<1>20. Stage(n + 4, C, PIPHeader)
  <2>1. PICK i : i = n + 4 /\ i \in Nat \ {0} /\ i - 1 = n + 3
    BY <1>n
  <2>2. /\ i \in Nat \ {0} /\ Stage(i - 1, C, o) /\ Transform[i] = Mkdir(PIPHeader)
    BY <1>2, <1>17, <1>18, <2>1
  <2>3. /\ o \in Path /\ PIPHeader \in Path /\ PIPHeader # <<>> /\ Head(PIPHeader) = "objects"
        /\ IsPrefix(o, PIPHeader)
    BY <1>7
  <2>4. Stage(i, C, PIPHeader)
    BY <1>19, <2>2, <2>3, StageMkdir
  <2> QED
    BY <2>1, <2>4
<1>21. Stage(n + 5, C \cup {MetadataMove}, PIPHeader)
  <2>1. PICK i : i = n + 5 /\ i \in Nat \ {0} /\ i - 1 = n + 4
    BY <1>n
  <2>2. /\ i \in Nat \ {0} /\ Stage(i - 1, C, PIPHeader) /\ MetadataMove \in Moves
        /\ Transform[i] = MetadataMove
    BY <1>2, <1>14, <1>20, <2>1
  <2>3. IsStep(MetadataMove) /\ ~IsPrefix(MetadataMove.to, PIPHeader)
    BY <1>3, <1>8
  <2>4. /\ PIPHeader \in Path /\ Head(PIPHeader) = "objects"
        /\ Parent(MetadataMove.to) \in Path \ {<<>>} /\ IsPrefix(Parent(MetadataMove.to), PIPHeader)
    BY <1>7
  <2>5. Stage(i, C \cup {MetadataMove}, PIPHeader)
    BY <1>5, <1>19, <2>2, <2>3, <2>4, StageMove
  <2> QED
    BY <2>1, <2>5
<1> QED
  BY <1>2, <1>14, <1>18, <1>21

-----------------------------------------------------------------------------
(* What premis.xml adds.                                                    *)

WithPremis(t) == Write(MkdirAll(t, <<"metadata">>), Metadata("premis.xml"))

\* AddPREMISObjects adds a directory and a file to a package without them.
LEMMA PremisFacts ==
  ASSUME NEW b, IsTree(b), <<"metadata">> \notin DOMAIN b
  PROVE  LET made == MkdirAll(b, <<"metadata">>)
             w == WithPremis(b) IN
           /\ CanMkdir(b, <<"metadata">>)
           /\ IsTree(made) /\ \A p \in DOMAIN b : p \in DOMAIN made /\ made[p] = b[p]
           /\ IsTree(w) /\ <<"metadata">> \in Dirs(w)
           /\ \A p \in DOMAIN b : p \in DOMAIN w /\ w[p] = b[p]
           /\ \A p \in DOMAIN w : p \in DOMAIN b \/ p = <<"metadata">> \/ p = Metadata("premis.xml")
<1> DEFINE d == <<"metadata">>
           f == Metadata("premis.xml")
           made == MkdirAll(b, d)
           w == Write(made, f)
<1>1. d \in Path /\ d # <<>> /\ Head(d) = "metadata"
  BY PlaceFacts
<1>2. "premis.xml" \in FileName
  BY Names
<1>3. f \in Path \ {<<>>} /\ Parent(f) = d /\ IsPrefix(d, f) /\ ~IsPrefix(f, d)
  BY <1>2, MetadataFacts
<1>p. \A p \in Path : IsPrefix(p, d) => p = <<>> \/ p = d
  <2>1. "metadata" \in FileName
    BY Names
  <2>2. ASSUME NEW p \in Path, p # <<>>, IsPrefix(p, d) PROVE IsPrefix(d, p)
    BY <1>1, <2>1, <2>2, HeadOfPrefix, HeadFacts
  <2> QED
    BY <1>1, <2>2, PrefixOrder
<1> HIDE DEF d, f
<1>4. CanMkdir(b, d)
  <2>1. <<>> \notin Files(b) /\ d \notin Files(b)
    BY DEF Files, IsTree, d
  <2>2. Prefixes(d) = {q \in Path : IsPrefix(q, d)}
    BY <1>1, PrefixesFacts
  <2> QED
    BY <1>p, <2>1, <2>2 DEF CanMkdir
<1>5. /\ IsTree(made) /\ \A p \in DOMAIN b : made[p] = b[p]
      /\ \A q : q \in DOMAIN made <=> q \in DOMAIN b \/ (q \in Path \ {<<>>} /\ IsPrefix(q, d))
      /\ \A p \in DOMAIN made \ DOMAIN b : made[p] = Dir
  BY <1>1, <1>4, MkdirFacts
<1> HIDE DEF made
<1>6. d \in DOMAIN made /\ made[d] = Dir
  <2>1. IsPrefix(d, d)
    BY <1>1, PrefixOrder
  <2> QED
    BY <1>1, <1>5, <2>1 DEF d
<1>7. f \notin DOMAIN made
  <2>1. f \notin DOMAIN b
    BY <1>1, <1>3, TreeFacts DEF d
  <2> QED
    BY <1>3, <1>5, <2>1
<1>8. /\ IsTree(w) /\ DOMAIN w = DOMAIN made \cup {f} /\ w[f] = f
      /\ \A p \in DOMAIN made \ {f} : w[p] = made[p]
  <2>1. IsDir(made, Parent(f)) /\ f \notin Dirs(made)
    BY <1>3, <1>6, <1>7 DEF IsDir, Dirs
  <2> QED
    BY <1>3, <1>5, <2>1, WriteFacts
<1> HIDE DEF w
<1>9. d \in Dirs(w) /\ \A p \in DOMAIN b : p \in DOMAIN w /\ w[p] = b[p]
  BY <1>1, <1>5, <1>6, <1>7, <1>8 DEF Dirs
<1>10. \A p \in DOMAIN w : p \in DOMAIN b \/ p = d \/ p = f
  BY <1>5, <1>8, <1>p
<1>11. w = WithPremis(b)
  BY DEF w, made, d, f, WithPremis
<1> QED
  BY <1>4, <1>5, <1>8, <1>9, <1>10, <1>11 DEF made, d, f

-----------------------------------------------------------------------------
(* What the checks establish.                                               *)

\* The paths of the files the manifest lists.
Listing ==
  LET root == IF IsAIP THEN <<"content">> ELSE <<>> IN
    {root \o p : p \in pkg.listed[Last(Layout.manifest)]}

\* What sip.New says of the package b.
Typed(b) ==
  /\ type \in Types
  /\ Digitized <=> \E p \in DOMAIN b : Last(p) = Prozess

\* What ValidateStructure lets through, as far as it matters later.
Structured(b) ==
  /\ Required \subseteq DOMAIN b
  /\ \A d \in Dirs(b) : Len(d) = 1 => d \in Layout.top

\* What VerifyManifest lets through.
Verified(b) ==
  /\ Layout.manifest \in Files(b)
  /\ Listing = IF IsAIP THEN Files(b) \cap Below(b, <<"content">>)
               ELSE Files(b) \ {<<"header", "metadata.xml">>}
  /\ pkg.corrupt \cap Listing = {}

\* The directories of the PIP are not in a valid package, unless a file stands
\* in their place.
LEMMA NotInTheWay ==
  ASSUME NEW b, IsTree(b), Structured(b)
  PROVE  /\ CanMkdir(b, <<"metadata">>) => <<"metadata">> \notin DOMAIN b
         /\ <<"objects">> \notin Files(b) => <<"objects">> \notin DOMAIN b
<1>1. "metadata" \in FileName /\ "objects" \in FileName
  BY Names
<1>2. ASSUME NEW e \in {"metadata", "objects"}, <<e>> \in Dirs(b) PROVE FALSE
  <2>1. e \in FileName
    BY <1>1
  <2>2. Len(<<e>>) = 1 /\ Head(<<e>>) = e
    BY <2>1, PairFacts, Singleton
  <2>3. <<e>> \in Layout.top
    BY <1>2, <2>2 DEF Structured
  <2>4. Head(<<e>>) \in {"content", "header", "additional"}
    BY <2>3, LayoutFacts
  <2> QED
    BY <2>2, <2>4
<1>3. CanMkdir(b, <<"metadata">>) => <<"metadata">> \notin Files(b)
  <2>1. <<"metadata">> \in Path
    BY PlaceFacts
  <2>2. <<"metadata">> \in Prefixes(<<"metadata">>)
    BY <2>1, PrefixesFacts, PrefixOrder
  <2> QED
    BY <2>2 DEF CanMkdir
<1>4. \A e \in {"metadata", "objects"} : <<e>> \in DOMAIN b => <<e>> \in Dirs(b) \/ <<e>> \in Files(b)
  BY DEF Dirs, Files
<1> QED
  BY <1>2, <1>3, <1>4, Zenon

\* Nothing but premis.xml is in the metadata directory yet.
LEMMA OnlyPremis ==
  ASSUME NEW b, IsTree(b), <<"metadata">> \notin DOMAIN b,
         NEW n \in FileName \ {"premis.xml"}, NEW x \in Path
  PROVE  Metadata(n) \o x \notin DOMAIN WithPremis(b)
<1> DEFINE d == <<"metadata">>
           f == Metadata("premis.xml")
           q == Metadata(n) \o x
<1>1. /\ Metadata(n) \in Path /\ Metadata(n) # <<>> /\ Parent(Metadata(n)) = d
      /\ IsPrefix(d, Metadata(n)) /\ ~IsPrefix(Metadata(n), d) /\ Apart(Metadata(n), f)
  BY MetadataFacts, Names
<1>2. d \in Path /\ d # <<>>
  BY PlaceFacts
<1>3. q \in Path /\ q # <<>> /\ IsPrefix(Metadata(n), q)
  BY <1>1, PrefixOfConcat, ConcatFacts
<1>4. IsPrefix(d, q)
  BY <1>1, <1>2, <1>3, PrefixOrder
<1>5. q \notin DOMAIN b
  BY <1>2, <1>3, <1>4, TreeFacts
<1>6. q # d /\ q # f
  BY <1>1, <1>3 DEF Apart
<1>7. \A p \in DOMAIN WithPremis(b) : p \in DOMAIN b \/ p = d \/ p = f
  BY PremisFacts
<1> QED
  BY <1>5, <1>6, <1>7

\* A package that passed the checks can be restructured, unless a file of it is
\* misplaced.
LEMMA ValidIsFit ==
  ASSUME NEW b, IsTree(b), Structured(b), <<"metadata">> \notin DOMAIN b,
         tree = WithPremis(b), ~Misplaced
  PROVE  Fit
<1>1. /\ IsTree(tree) /\ \A p \in DOMAIN b : p \in DOMAIN tree /\ tree[p] = b[p]
      /\ \A p \in DOMAIN tree : p \in DOMAIN b \/ p = <<"metadata">> \/ p = Metadata("premis.xml")
  BY PremisFacts
<1>2. /\ Head(<<"metadata">>) = "metadata" /\ Head(Metadata("premis.xml")) = "metadata"
      /\ <<"objects">> \in Path \ {<<>>} /\ Head(<<"objects">>) = "objects"
      /\ "objects" \in FileName
  BY PlaceFacts, MetadataFacts, Singleton, Names
<1>3. <<"objects">> \notin DOMAIN tree
  <2>1. SUFFICES ASSUME <<"objects">> \in DOMAIN tree PROVE FALSE
    OBVIOUS
  <2>2. <<"objects">> \in DOMAIN b
    BY <1>1, <1>2, <2>1
  <2>3. <<"objects">> \in Files(b)
    BY <2>2, NotInTheWay
  <2>4. <<"objects">> \in Files(tree)
    BY <1>1, <2>3 DEF Files
  <2> QED
    BY <2>4 DEF Misplaced
<1>4. \A p \in DOMAIN tree : Head(p) # "objects"
  <2> SUFFICES ASSUME NEW p \in DOMAIN tree, Head(p) = "objects" PROVE FALSE
    OBVIOUS
  <2>1. p \in Path /\ p # <<>>
    BY <1>1 DEF IsTree
  <2>2. IsPrefix(<<"objects">>, p)
    BY <1>2, <2>1, HeadFacts
  <2> QED
    BY <1>1, <1>2, <1>3, <2>2, TreeFacts
<1>5. ASSUME NEW n \in FileName, n # "premis.xml" PROVE Metadata(n) \notin DOMAIN tree
  <2>1. Metadata(n) \in Path /\ <<>> \in Path /\ Metadata(n) \o <<>> = Metadata(n)
    BY <1>5, MetadataFacts, ConcatFacts, EmptySeq DEF Path
  <2> QED
    BY <1>5, <2>1, OnlyPremis
<1>6. /\ Prozess \in FileName /\ Prozess # "premis.xml" /\ Updated \in FileName
      /\ Updated # "premis.xml" /\ LogicalMD \in FileName /\ LogicalMD # "premis.xml"
  BY Names, NamesAreNames DEF Prozess, Updated
<1>7. Required \subseteq DOMAIN tree
  BY <1>1 DEF Structured
<1>8. ASSUME NEW m \in OfDigitized PROVE m.from \in DOMAIN tree /\ m.to \notin DOMAIN tree
  <2>1. Digitized /\ m.from = ProzessPath /\ m.to = Metadata(Prozess)
    BY <1>8 DEF OfDigitized, ProzessMove, Rename
  <2> QED
    BY <1>5, <1>6, <2>1 DEF Misplaced, ProzessPath, Files
<1>9. ASSUME NEW m \in OfAIP PROVE m.from \in DOMAIN tree /\ m.to \notin DOMAIN tree
  <2>1. IsAIP /\ \E n \in {Updated, LogicalMD} : m.from = AddedPath(n) /\ m.to = Metadata(n)
    BY <1>9 DEF OfAIP, UpdatedMove, LogicalMove, Rename
  <2>2. \A n \in {Updated, LogicalMD} : AddedPath(n) \in Required
    BY <2>1, LayoutFacts
  <2> QED
    BY <1>5, <1>6, <1>7, <2>1, <2>2
<1>10. ASSUME NEW m \in {ContentMove, MetadataMove}
       PROVE  m.from \in DOMAIN tree /\ m.to \notin DOMAIN tree
  <2>1. m.from \in {Layout.content, Layout.metadata} /\ m.to \in {PIPContent, PIPMetadata}
    BY <1>10 DEF ContentMove, MetadataMove, Rename
  <2>2. Layout.content \in Required /\ Layout.metadata \in Required
    BY LayoutFacts
  <2>3. Head(PIPContent) = "objects" /\ Head(PIPMetadata) = "objects"
    BY PlaceFacts
  <2> QED
    BY <1>4, <1>7, <2>1, <2>2, <2>3
<1> QED
  BY <1>3, <1>8, <1>9, <1>10 DEF Fit, Moves

-----------------------------------------------------------------------------
(* The restructured package.                                                *)

\* Below a place that is apart from another, everything is.
LEMMA ApartBelow ==
  ASSUME NEW a \in Path, NEW b \in Path, NEW c \in Path, Apart(a, b), IsPrefix(a, c)
  PROVE  Apart(c, b)
<1>1. PICK x \in Path : c = a \o x
  BY PrefixIsConcat
<1>2. ~IsPrefix(b, a \o x) /\ ~IsPrefix(a \o x, b)
  BY <1>1, ApartFacts DEF Apart
<1> QED
  BY <1>1, <1>2 DEF Apart

\* The files TransformSIP moves are apart, except for the one that is below the
\* content directory.
LEMMA SourcesApart ==
  ASSUME IsTree(tree)
  PROVE  \A m \in Moves : \A n \in Moves :
           Apart(m.from, n.from) \/ m = n \/ (m = ContentMove /\ n = ProzessMove)
             \/ (m = ProzessMove /\ n = ContentMove)
<1>1. /\ Layout.content \in Path /\ Layout.metadata \in Path
      /\ Apart(Layout.content, Layout.metadata)
  BY LayoutFacts
<1>2. ProzessPath \in Path /\ IsPrefix(Layout.content, ProzessPath)
  BY DossierFacts
<1>3. Apart(ProzessPath, Layout.metadata)
  BY <1>1, <1>2, ApartBelow
<1>4. ASSUME IsAIP, NEW n \in {Updated, LogicalMD}
      PROVE  Apart(Layout.content, AddedPath(n)) /\ Apart(Layout.metadata, AddedPath(n))
             /\ Apart(ProzessPath, AddedPath(n))
  <2>1. AddedPath(n) \in Layout.added /\ AddedPath(n) \in Path
    BY <1>4, LayoutFacts
  <2>2. Apart(Layout.content, AddedPath(n)) /\ Apart(Layout.metadata, AddedPath(n))
    BY <1>4, <2>1, LayoutFacts DEF Apart
  <2>3. Apart(ProzessPath, AddedPath(n))
    BY <1>1, <1>2, <2>1, <2>2, ApartBelow
  <2> QED
    BY <2>2, <2>3
<1>5. IsAIP => Apart(AddedPath(Updated), AddedPath(LogicalMD))
  BY LayoutFacts
<1>6. \A a, b : Apart(a, b) => Apart(b, a)
  BY DEF Apart
<1>7. \A m \in Moves : \/ m = ProzessMove \/ m = ContentMove \/ m = MetadataMove
                       \/ IsAIP /\ (m = UpdatedMove \/ m = LogicalMove)
  BY DEF Moves, OfDigitized, OfAIP
<1>8. /\ ProzessMove.from = ProzessPath /\ ContentMove.from = Layout.content
      /\ MetadataMove.from = Layout.metadata /\ UpdatedMove.from = AddedPath(Updated)
      /\ LogicalMove.from = AddedPath(LogicalMD)
  BY DEF ProzessMove, ContentMove, MetadataMove, UpdatedMove, LogicalMove, Rename
<1> TAKE m \in Moves
<1> TAKE n \in Moves
<1>9. CASE m = ProzessMove
  BY <1>3, <1>4, <1>7, <1>8, <1>9
<1>10. CASE m = ContentMove
  BY <1>1, <1>4, <1>7, <1>8, <1>10
<1>11. CASE m = MetadataMove
  BY <1>1, <1>3, <1>4, <1>6, <1>7, <1>8, <1>11
<1>12. CASE IsAIP /\ m = UpdatedMove
  BY <1>4, <1>5, <1>6, <1>7, <1>8, <1>12
<1>13. CASE IsAIP /\ m = LogicalMove
  BY <1>4, <1>5, <1>6, <1>7, <1>8, <1>13
<1> QED
  BY <1>7, <1>9, <1>10, <1>11, <1>12, <1>13

\* Where everything of the package b is in the restructured one t; z is the path
\* Prozess_Digitalisierung_PREMIS.xml had.
Placed(t, b, z) ==
  /\ IsTree(t) /\ <<"metadata">> \in Dirs(t)
  /\ z \in Path \ {<<>>} /\ Last(z) = Prozess /\ IsPrefix(Layout.content, z)
  /\ Digitized => z \in DOMAIN b
  /\ \A x \in Path :
       IF Digitized /\ IsPrefix(z, Layout.content \o x) THEN PIPContent \o x \notin DOMAIN t
       ELSE Same(t, PIPContent \o x, b, Layout.content \o x)
  /\ \A x \in Path :
       IF Digitized THEN Same(t, Metadata(Prozess) \o x, b, z \o x)
       ELSE Metadata(Prozess) \o x \notin DOMAIN t
  /\ \A x \in Path : Same(t, PIPMetadata \o x, b, Layout.metadata \o x)
  /\ IsAIP => \A n \in {Updated, LogicalMD} : \A x \in Path :
       Same(t, Metadata(n) \o x, b, AddedPath(n) \o x)

\* What a move brings to its place.
LEMMA MovedFrom ==
  ASSUME NEW u, IsTree(tree), Moved(u, tree, Moves, PIPHeader), NEW m \in Moves, NEW x \in Path,
         m = ContentMove => ~(Digitized /\ IsPrefix(ProzessPath, Layout.content \o x))
  PROVE  Same(u, m.to \o x, tree, m.from \o x)
<1>1. m.from \in Path /\ IsPrefix(m.from, m.from)
  <2>1. IsStep(m)
    BY StepFacts DEF Moves, OfDigitized, OfAIP
  <2> QED
    BY <2>1, PrefixOrder DEF IsStep, IsMove
<1>2. ASSUME NEW n \in Moves, IsPrefix(n.from, m.from \o x) PROVE IsPrefix(n.from, m.from)
  <2>1. n.from \in Path
    BY StepFacts DEF Moves, OfDigitized, OfAIP, IsStep, IsMove
  <2>2. ~Apart(n.from, m.from)
    BY <1>1, <1>2, <2>1, ApartFacts
  <2>3. CASE n = ContentMove /\ m = ProzessMove
    BY <2>3, DossierFacts DEF ContentMove, ProzessMove, Rename
  <2>4. CASE n = ProzessMove /\ m = ContentMove
    <3>1. n.from = ProzessPath /\ m.from = Layout.content
      BY <2>4 DEF ContentMove, ProzessMove, Rename
    <3>2. ~Digitized
      BY <1>2, <2>4, <3>1
    <3>3. \A k \in Moves : k # ContentMove => k \in OfAIP \/ k = MetadataMove
      BY <3>2 DEF Moves, OfDigitized
    <3>4. ProzessMove # ContentMove
      <4>1. ProzessPath # Layout.content
        BY DossierFacts
      <4> QED
        BY <2>4, <3>1, <4>1
    <3>5. n.to = Metadata(Prozess)
      BY <2>4 DEF ProzessMove, Rename
    <3>6. n # MetadataMove
      <4>1. Apart(Layout.content, Layout.metadata) /\ IsPrefix(Layout.content, ProzessPath)
        BY DossierFacts, LayoutFacts
      <4>2. MetadataMove.from = Layout.metadata
        BY DEF MetadataMove, Rename
      <4> QED
        BY <3>1, <4>1, <4>2 DEF Apart
    <3>7. n \notin OfAIP
      <4>1. Updated \in FileName /\ LogicalMD \in FileName /\ Prozess \in FileName
            /\ Updated # Prozess /\ LogicalMD # Prozess
        BY Names, NamesAreNames DEF Prozess, Updated
      <4>2. \A k \in {Updated, LogicalMD} : Metadata(k) # Metadata(Prozess)
        BY <4>1, MetadataFacts
      <4>3. \A k \in OfAIP : k.to = Metadata(Updated) \/ k.to = Metadata(LogicalMD)
        BY DEF OfAIP, UpdatedMove, LogicalMove, Rename
      <4> QED
        BY <3>5, <4>2, <4>3
    <3> QED
      BY <2>4, <3>3, <3>4, <3>6, <3>7
  <2>5. n = m \/ (n = ContentMove /\ m = ProzessMove) \/ (n = ProzessMove /\ m = ContentMove)
    BY <2>2, SourcesApart
  <2> QED
    BY <1>1, <2>3, <2>4, <2>5
<1> QED
  BY <1>2 DEF Moved

\* A TransformSIP that completes has put everything in its place, and has left
\* the metadata directory without an identifiers.json.
LEMMA CompletesPlaces ==
  ASSUME NEW b, IsTree(b), <<"metadata">> \notin DOMAIN b, tree = WithPremis(b), Completes
  PROVE  LET u == After[Len(Transform)] IN
           /\ Placed(u, b, ProzessPath) /\ Metadata("identifiers.json") \notin DOMAIN u
<1>1. PICK u : u = After[Len(Transform)]
  OBVIOUS
<1>2. /\ IsTree(tree) /\ <<"metadata">> \in Dirs(tree)
      /\ \A p \in DOMAIN b : p \in DOMAIN tree /\ tree[p] = b[p]
      /\ \A p \in DOMAIN tree : p \in DOMAIN b \/ p = <<"metadata">> \/ p = Metadata("premis.xml")
  BY PremisFacts
<1>3. Moved(u, tree, Moves, PIPHeader)
  BY <1>1, <1>2, Transformed DEF Stage, Completes
<1>4. \A m \in Moves : IsStep(m) /\ m.from \in Path \ {<<>>} /\ m.to \in Path \ {<<>>}
  BY <1>2, StepFacts DEF Moves, OfDigitized, OfAIP, IsStep, IsMove
\* What is moved is the package's.
<1>5. ASSUME NEW q, NEW p \in Path \ {<<>>}, Head(p) # "metadata", Same(u, q, tree, p)
      PROVE  Same(u, q, b, p)
  <2>1. Head(<<"metadata">>) = "metadata" /\ Head(Metadata("premis.xml")) = "metadata"
    BY PlaceFacts, MetadataFacts, Names
  <2>2. p \in DOMAIN tree <=> p \in DOMAIN b
    BY <1>2, <1>5, <2>1
  <2> QED
    BY <1>2, <1>5, <2>2 DEF Same
<1>6. ASSUME NEW m \in Moves, NEW x \in Path,
             m = ContentMove => ~(Digitized /\ IsPrefix(ProzessPath, Layout.content \o x))
      PROVE  Same(u, m.to \o x, b, m.from \o x)
  <2>1. Same(u, m.to \o x, tree, m.from \o x)
    BY <1>2, <1>3, <1>6, MovedFrom
  <2>2. m.from \in Path /\ m.from # <<>> /\ Head(m.from) # "metadata"
    BY <1>4 DEF IsStep
  <2>3. m.from \o x \in Path /\ IsPrefix(m.from, m.from \o x)
    BY <2>2, PrefixOfConcat
  <2>4. m.from \o x # <<>> /\ Head(m.from \o x) # "metadata"
    BY <2>2, <2>3, HeadOfPrefix
  <2> QED
    BY <1>5, <2>1, <2>3, <2>4
\* Nothing is in the metadata directory but what was moved there.
<1>7. ASSUME NEW n \in FileName, n # "premis.xml", NEW x \in Path,
             \A m \in Moves : ~IsPrefix(m.to, Metadata(n) \o x)
      PROVE  Metadata(n) \o x \notin DOMAIN u
  <2> DEFINE q == Metadata(n) \o x
  <2>1. Metadata(n) \in Path /\ Metadata(n) # <<>> /\ Head(Metadata(n)) = "metadata"
    BY MetadataFacts
  <2>2. q \in Path /\ IsPrefix(Metadata(n), q)
    BY <2>1, PrefixOfConcat
  <2>3. q # <<>> /\ Head(q) = "metadata"
    BY <2>1, <2>2, HeadOfPrefix
  <2>4. \A m \in Moves : ~IsPrefix(m.from, q)
    <3> TAKE m \in Moves
    <3>1. Head(m.from) # "metadata"
      BY <1>4 DEF IsStep
    <3> QED
      BY <1>4, <2>2, <2>3, <3>1, HeadOfPrefix
  <2>5. ~IsPrefix(q, PIPHeader)
    BY <2>2, <2>3, PlaceFacts, HeadOfPrefix
  <2>6. Same(u, q, tree, q)
    BY <1>3, <1>7, <2>2, <2>4, <2>5 DEF Moved
  <2>7. q \notin DOMAIN tree
    BY <1>7, OnlyPremis
  <2> QED
    BY <2>6, <2>7 DEF Same
<1>8. <<"metadata">> \in Dirs(u)
  <2> DEFINE d == <<"metadata">>
  <2>1. d \in Path /\ d # <<>> /\ Head(d) = "metadata"
    BY PlaceFacts
  <2>2. \A m \in Moves : ~IsPrefix(m.from, d) /\ ~IsPrefix(m.to, d)
    <3> TAKE m \in Moves
    <3>1. Head(m.from) # "metadata"
      BY <1>4 DEF IsStep
    <3> QED
      BY <1>4, <2>1, <3>1, HeadOfPrefix DEF IsStep
  <2>3. ~IsPrefix(d, PIPHeader)
    BY <2>1, PlaceFacts, HeadOfPrefix
  <2> HIDE DEF d
  <2>4. Same(u, d, tree, d)
    BY <1>3, <2>1, <2>2, <2>3 DEF Moved
  <2> QED
    BY <1>2, <2>4 DEF Same, Dirs, d
<1>9. /\ ProzessPath \in Path \ {<<>>} /\ Last(ProzessPath) = Prozess
      /\ IsPrefix(Layout.content, ProzessPath) /\ ProzessPath # Layout.content
  BY <1>2, DossierFacts
<1>10. Digitized => ProzessPath \in DOMAIN b
  <2>1. SUFFICES ASSUME Digitized PROVE ProzessPath \in DOMAIN b
    OBVIOUS
  <2>2. Head(ProzessPath) # "metadata"
    <3>1. ProzessMove \in Moves /\ ProzessMove.from = ProzessPath
      BY <2>1 DEF Moves, OfDigitized, ProzessMove, Rename
    <3> QED
      BY <1>4, <3>1 DEF IsStep
  <2>3. /\ Transform[1] = Mkdir(<<"metadata">>) /\ Transform[2] = ProzessMove
        /\ 2 \in 1..Len(Transform) /\ 1 \in 1..Len(Transform)
    BY <2>1, TransformFacts DEF ProzessMove, ProzessPath
  <2>4. Possible(After[1], ProzessMove) /\ Possible(After[0], Mkdir(<<"metadata">>))
    BY <2>3 DEF Completes, Reached
  <2>5. After[0] = tree /\ After[1] = MkdirAll(tree, <<"metadata">>)
    BY <2>3, AfterFacts DEF Apply, Mkdir
  <2>6. ProzessPath \in DOMAIN MkdirAll(tree, <<"metadata">>) /\ CanMkdir(tree, <<"metadata">>)
    BY <2>4, <2>5 DEF Possible, ProzessMove, Rename, Mkdir, CanMove
  <2>7. ~IsPrefix(ProzessPath, <<"metadata">>)
    BY <1>9, <2>2, PlaceFacts, HeadOfPrefix
  <2>8. ProzessPath \in DOMAIN tree
    BY <1>2, <2>6, <2>7, PlaceFacts, MkdirFacts
  <2> QED
    BY <1>2, <2>2, <2>8, PlaceFacts, MetadataFacts, Names
<1>11. ASSUME NEW x \in Path
       PROVE  IF Digitized /\ IsPrefix(ProzessPath, Layout.content \o x)
              THEN PIPContent \o x \notin DOMAIN u
              ELSE Same(u, PIPContent \o x, b, Layout.content \o x)
  <2>1. /\ ContentMove \in Moves /\ ContentMove.from = Layout.content
        /\ ContentMove.to = PIPContent
    BY DEF Moves, ContentMove, Rename
  <2>2. CASE ~(Digitized /\ IsPrefix(ProzessPath, Layout.content \o x))
    <3>1. Same(u, ContentMove.to \o x, b, ContentMove.from \o x)
      BY <1>6, <2>1, <2>2
    <3> QED
      BY <2>1, <2>2, <3>1
  <2>3. CASE Digitized /\ IsPrefix(ProzessPath, Layout.content \o x)
    <3>1. ProzessMove \in Moves /\ ProzessMove.from = ProzessPath
      BY <2>3 DEF Moves, OfDigitized, ProzessMove, Rename
    <3>2. ~IsPrefix(ProzessPath, Layout.content)
      BY <1>9, LayoutFacts, PrefixOrder
    <3>3. ContentMove.to \o x \notin DOMAIN u
      BY <1>3, <2>1, <2>3, <3>1, <3>2 DEF Moved
    <3> QED
      BY <2>1, <2>3, <3>3
  <2> QED
    BY <2>2, <2>3
<1>12. ASSUME NEW x \in Path
       PROVE  IF Digitized THEN Same(u, Metadata(Prozess) \o x, b, ProzessPath \o x)
              ELSE Metadata(Prozess) \o x \notin DOMAIN u
  <2>1. CASE Digitized
    <3>1. /\ ProzessMove \in Moves /\ ProzessMove.from = ProzessPath
          /\ ProzessMove.to = Metadata(Prozess) /\ ProzessMove # ContentMove
      BY <1>9, <2>1 DEF Moves, OfDigitized, ProzessMove, ContentMove, Rename
    <3>2. Same(u, ProzessMove.to \o x, b, ProzessMove.from \o x)
      BY <1>6, <3>1
    <3> QED
      BY <2>1, <3>1, <3>2
  <2>2. CASE ~Digitized
    <3>1. /\ Updated \in FileName /\ LogicalMD \in FileName /\ Prozess \in FileName
          /\ Updated # Prozess /\ LogicalMD # Prozess /\ Prozess # "premis.xml"
      BY Names, NamesAreNames DEF Prozess, Updated
    <3>2. ASSUME NEW m \in Moves PROVE ~IsPrefix(m.to, Metadata(Prozess) \o x)
      <4>1. m.to = Metadata(Updated) \/ m.to = Metadata(LogicalMD) \/ m.to = PIPContent \/ m.to = PIPMetadata
        BY <2>2 DEF Moves, OfDigitized, OfAIP, UpdatedMove, LogicalMove, ContentMove, MetadataMove, Rename
      <4>2. Apart(m.to, Metadata(Prozess))
        BY <3>1, <4>1, MetadataFacts, PlaceFacts, ApartByHead
      <4> QED
        BY <1>4, <3>1, <4>2, MetadataFacts, ApartFacts
    <3> QED
      BY <1>7, <2>2, <3>1, <3>2
  <2> QED
    BY <2>1, <2>2
<1>13. ASSUME NEW x \in Path PROVE Same(u, PIPMetadata \o x, b, Layout.metadata \o x)
  <2>1. /\ MetadataMove \in Moves /\ MetadataMove.from = Layout.metadata
        /\ MetadataMove.to = PIPMetadata /\ MetadataMove # ContentMove
    <3>1. Layout.metadata # Layout.content
      BY LayoutFacts, PrefixOrder DEF Apart
    <3> QED
      BY <3>1 DEF Moves, MetadataMove, ContentMove, Rename
  <2>2. Same(u, MetadataMove.to \o x, b, MetadataMove.from \o x)
    BY <1>6, <2>1
  <2> QED
    BY <2>1, <2>2
<1>14. ASSUME IsAIP, NEW n \in {Updated, LogicalMD}, NEW x \in Path
       PROVE  Same(u, Metadata(n) \o x, b, AddedPath(n) \o x)
  <2>1. PICK m \in Moves : m.from = AddedPath(n) /\ m.to = Metadata(n)
    <3>1. UpdatedMove \in Moves /\ LogicalMove \in Moves
      BY <1>14 DEF Moves, OfAIP
    <3>2. /\ UpdatedMove.from = AddedPath(Updated) /\ UpdatedMove.to = Metadata(Updated)
          /\ LogicalMove.from = AddedPath(LogicalMD) /\ LogicalMove.to = Metadata(LogicalMD)
      BY DEF UpdatedMove, LogicalMove, Rename
    <3>3. CASE n = Updated
      BY <3>1, <3>2, <3>3
    <3>4. CASE n = LogicalMD
      BY <3>1, <3>2, <3>4
    <3> QED
      BY <1>14, <3>3, <3>4
  <2>2. m # ContentMove
    <3>1. Apart(AddedPath(n), Layout.content) /\ Layout.content \in Path
      BY <1>14, LayoutFacts
    <3>2. AddedPath(n) # Layout.content
      BY <3>1, PrefixOrder DEF Apart
    <3> QED
      BY <2>1, <3>2 DEF ContentMove, Rename
  <2>3. Same(u, m.to \o x, b, m.from \o x)
    BY <1>6, <2>2
  <2> QED
    BY <2>1, <2>3
<1>15. Metadata("identifiers.json") \notin DOMAIN u
  <2>1. /\ "identifiers.json" \in FileName /\ "identifiers.json" # "premis.xml"
        /\ Updated \in FileName /\ LogicalMD \in FileName /\ Prozess \in FileName
        /\ \A n \in {Updated, LogicalMD, Prozess} : n # "identifiers.json"
    BY Names, NamesAreNames DEF Prozess, Updated
  <2> DEFINE f == Metadata("identifiers.json")
  <2>2. f \in Path /\ f # <<>> /\ Head(f) = "metadata" /\ f \o <<>> = f /\ <<>> \in Path
    BY <2>1, MetadataFacts, ConcatFacts, EmptySeq DEF Path
  <2>3. ASSUME NEW m \in Moves PROVE ~IsPrefix(m.to, f)
    <3>1. \/ m.to = Metadata(Updated) \/ m.to = Metadata(LogicalMD) \/ m.to = Metadata(Prozess)
          \/ m.to = PIPContent \/ m.to = PIPMetadata
      BY DEF Moves, OfDigitized, OfAIP, ProzessMove, UpdatedMove, LogicalMove, ContentMove,
             MetadataMove, Rename
    <3>2. Apart(m.to, f)
      BY <2>1, <3>1, MetadataFacts, PlaceFacts, ApartByHead
    <3> QED
      BY <3>2 DEF Apart
  <2> QED
    BY <1>7, <2>1, <2>2, <2>3
<1>16. IsTree(u)
  BY <1>3 DEF Moved
<1>17. Placed(u, b, ProzessPath)
  BY <1>8, <1>9, <1>10, <1>11, <1>12, <1>13, <1>14, <1>16 DEF Placed
<1> QED
  BY <1>1, <1>15, <1>17

\* What the workflow does to the package afterwards leaves everything in place.
LEMMA PlacedStays ==
  ASSUME NEW t, NEW b, NEW z, Placed(t, b, z), NEW w, IsTree(w), <<"metadata">> \in Dirs(w),
         \A p \in Path \ {<<>>} :
           Head(p) \in {"metadata", "objects"} /\ p # Metadata("identifiers.json") => Same(w, p, t, p)
  PROVE  Placed(w, b, z)
<1>1. /\ "identifiers.json" \in FileName
      /\ Updated \in FileName /\ LogicalMD \in FileName /\ Prozess \in FileName
      /\ \A n \in {Updated, LogicalMD, Prozess} : n # "identifiers.json"
  BY Names, NamesAreNames DEF Prozess, Updated
<1> DEFINE f == Metadata("identifiers.json")
<1>2. f \in Path /\ f # <<>> /\ Head(f) = "metadata"
  BY <1>1, MetadataFacts
<1>3. ASSUME NEW a \in Path, a # <<>>, Head(a) \in {"metadata", "objects"}, Apart(a, f),
             NEW x \in Path
      PROVE  Same(w, a \o x, t, a \o x)
  <2>1. a \o x \in Path /\ IsPrefix(a, a \o x)
    BY <1>3, PrefixOfConcat
  <2>2. a \o x # <<>> /\ Head(a \o x) = Head(a)
    BY <1>3, <2>1, HeadOfPrefix
  <2>3. a \o x # f
    BY <1>3, <2>1 DEF Apart
  <2> QED
    BY <1>3, <2>1, <2>2, <2>3
<1>4. ASSUME NEW n \in {Updated, LogicalMD, Prozess}, NEW x \in Path
      PROVE  Same(w, Metadata(n) \o x, t, Metadata(n) \o x)
  <2>1. n \in FileName /\ n # "identifiers.json"
    BY <1>1
  <2>2. /\ Metadata(n) \in Path /\ Metadata(n) # <<>> /\ Head(Metadata(n)) = "metadata"
        /\ Apart(Metadata(n), f)
    BY <1>1, <2>1, MetadataFacts
  <2> QED
    BY <1>3, <2>2
<1>5. ASSUME NEW a \in {PIPContent, PIPMetadata}, NEW x \in Path
      PROVE  Same(w, a \o x, t, a \o x)
  <2>1. a \in Path /\ a # <<>> /\ Head(a) = "objects"
    BY PlaceFacts
  <2>2. Apart(a, f)
    BY <1>2, <2>1, ApartByHead
  <2> QED
    BY <1>3, <2>1, <2>2
<1>6. \A q, p : Same(w, q, t, q) /\ Same(t, q, b, p) => Same(w, q, b, p)
  BY DEF Same
<1>7. \A q : Same(w, q, t, q) /\ q \notin DOMAIN t => q \notin DOMAIN w
  BY DEF Same
<1>8. ASSUME NEW x \in Path
      PROVE  IF Digitized /\ IsPrefix(z, Layout.content \o x) THEN PIPContent \o x \notin DOMAIN w
             ELSE Same(w, PIPContent \o x, b, Layout.content \o x)
  BY <1>5, <1>6, <1>7 DEF Placed
<1>9. ASSUME NEW x \in Path
      PROVE  IF Digitized THEN Same(w, Metadata(Prozess) \o x, b, z \o x)
             ELSE Metadata(Prozess) \o x \notin DOMAIN w
  BY <1>4, <1>6, <1>7 DEF Placed
<1>10. \A x \in Path : Same(w, PIPMetadata \o x, b, Layout.metadata \o x)
  BY <1>5, <1>6 DEF Placed
<1>11. IsAIP => \A n \in {Updated, LogicalMD} : \A x \in Path :
         Same(w, Metadata(n) \o x, b, AddedPath(n) \o x)
  BY <1>4, <1>6 DEF Placed
<1> QED
  BY <1>8, <1>9, <1>10, <1>11 DEF Placed

\* Deleting the old directories leaves everything in place.
LEMMA CleanedFacts ==
  ASSUME NEW t, NEW b, NEW z, Placed(t, b, z), NEW D \in SUBSET Layout.top
  PROVE  Placed(Without(t, D), b, z) /\ DOMAIN Without(t, D) \subseteq DOMAIN t
<1> DEFINE w == Without(t, D)
<1>1. IsTree(t) /\ <<"metadata">> \in Dirs(t)
  BY DEF Placed
<1>2. \A d \in D : d \in Path /\ d # <<>> /\ Head(d) \in {"content", "header", "additional"}
  BY LayoutFacts
<1>3. D \in SUBSET Path
  BY <1>2
<1>4. /\ IsTree(w) /\ \A p \in DOMAIN w : w[p] = t[p]
      /\ \A q : q \in DOMAIN w <=> q \in DOMAIN t /\ \A d \in D : ~IsPrefix(d, q)
  BY <1>1, <1>3, WithoutFacts
<1>5. ASSUME NEW p \in Path \ {<<>>}, Head(p) \in {"metadata", "objects"} PROVE Same(w, p, t, p)
  <2>1. \A d \in D : ~IsPrefix(d, p)
    BY <1>2, <1>5, HeadOfPrefix
  <2> QED
    BY <1>4, <2>1 DEF Same
<1>6. <<"metadata">> \in Dirs(w)
  <2>1. Same(w, <<"metadata">>, t, <<"metadata">>)
    BY <1>5, PlaceFacts
  <2> QED
    BY <1>1, <2>1 DEF Same, Dirs
<1>7. Placed(w, b, z)
  BY <1>4, <1>5, <1>6, PlacedStays
<1> QED
  BY <1>4, <1>7

\* So does writing identifiers.json.
LEMMA WithIdentifiers ==
  ASSUME NEW t, NEW b, NEW z, Placed(t, b, z), Metadata("identifiers.json") \notin DOMAIN t
  PROVE  Placed(Write(t, Metadata("identifiers.json")), b, z)
<1> DEFINE f == Metadata("identifiers.json")
           w == Write(t, f)
<1>1. IsTree(t) /\ <<"metadata">> \in Dirs(t)
  BY DEF Placed
<1>2. f \in Path \ {<<>>} /\ Parent(f) = <<"metadata">>
  BY MetadataFacts, Names
<1> HIDE DEF f
<1>3. IsDir(t, Parent(f)) /\ f \notin Dirs(t)
  BY <1>1, <1>2 DEF IsDir, Dirs, f
<1>4. /\ IsTree(w) /\ DOMAIN w = DOMAIN t \cup {f} /\ Dirs(w) = Dirs(t)
      /\ \A p \in DOMAIN t \ {f} : w[p] = t[p]
  BY <1>1, <1>2, <1>3, WriteFacts
<1>5. \A p \in Path : p # f => Same(w, p, t, p)
  BY <1>4 DEF Same
<1> HIDE DEF w
<1>6. Placed(w, b, z)
  BY <1>1, <1>4, <1>5, PlacedStays DEF f
<1> QED
  BY <1>6 DEF w, f

\* Every file that matters has a place.
LEMMA PlacedKeeps ==
  ASSUME pkg \in Packages, type \in Types, NEW t, NEW z, Placed(t, Payload(pkg), z)
  PROVE  \A f \in Kept : \E p \in Files(t) : t[p] = f
<1> DEFINE b == Payload(pkg)
<1>1. /\ IsTree(b) /\ Files(b) = pkg.files /\ \A f \in pkg.files : b[f] = f
  BY PayloadFacts
<1>2. \A f \in pkg.files : f \in DOMAIN b /\ f \in Path /\ f # <<>> /\ f # Dir
  BY <1>1 DEF Files, IsTree, Dir
<1>3. Layout.content \in Path /\ Layout.metadata \in Path /\ z \in Path
  BY LayoutFacts DEF Placed
<1>4. \A a \in Path : a \o <<>> = a
  BY ConcatFacts, EmptySeq DEF Path
<1>e. <<>> \in Path
  BY EmptySeq DEF Path
<1> HIDE DEF b
<1>5. \A f \in pkg.files : \A q : Same(t, q, b, f) => q \in Files(t) /\ t[q] = f
  BY <1>1, <1>2 DEF Same, Files
<1> SUFFICES ASSUME NEW f \in Kept PROVE \E p \in Files(t) : t[p] = f
  OBVIOUS
<1>6. /\ f \in pkg.files
      /\ IsPrefix(Layout.content, f) \/ f = Layout.metadata \/ f \in Layout.added
  BY DEF Kept, Types
<1>7. CASE IsPrefix(Layout.content, f)
  <2>1. PICK x \in Path : f = Layout.content \o x
    BY <1>2, <1>3, <1>6, <1>7, PrefixIsConcat
  <2>2. CASE ~(Digitized /\ IsPrefix(z, f))
    <3>1. Same(t, PIPContent \o x, b, f)
      BY <2>1, <2>2 DEF Placed, b
    <3> QED
      BY <1>5, <1>6, <3>1
  <2>3. CASE Digitized /\ IsPrefix(z, f)
    <3>1. PICK y \in Path : f = z \o y
      BY <1>2, <1>3, <1>6, <2>3, PrefixIsConcat
    <3>2. Same(t, Metadata(Prozess) \o y, b, f)
      BY <2>3, <3>1 DEF Placed, b
    <3> QED
      BY <1>5, <1>6, <3>2
  <2> QED
    BY <2>2, <2>3
<1>8. CASE f = Layout.metadata
  <2>1. Same(t, PIPMetadata \o <<>>, b, Layout.metadata \o <<>>)
    BY <1>e DEF Placed, b
  <2>2. Same(t, PIPMetadata, b, f)
    BY <1>3, <1>4, <1>8, <2>1, PlaceFacts
  <2> QED
    BY <1>5, <1>6, <2>2
<1>9. CASE f \in Layout.added
  <2>1. IsAIP /\ \E n \in {Updated, LogicalMD} : f = AddedPath(n)
    BY <1>9, LayoutFacts
  <2>2. PICK n \in {Updated, LogicalMD} : f = AddedPath(n)
    BY <2>1
  <2>3. Same(t, Metadata(n) \o <<>>, b, AddedPath(n) \o <<>>)
    BY <1>e, <2>1 DEF Placed, b
  <2>4. Metadata(n) \in Path /\ AddedPath(n) \in Path
    BY MetadataFacts, AddedFacts, Names
  <2>5. Same(t, Metadata(n), b, f)
    BY <1>4, <2>2, <2>3, <2>4
  <2> QED
    BY <1>5, <1>6, <2>5
<1> QED
  BY <1>6, <1>7, <1>8, <1>9

-----------------------------------------------------------------------------
(* The bag.                                                                 *)

\* What bagcreate makes of the tree t.
Bagged(t) ==
  TreeOf([p \in {<<"data">> \o q : q \in Files(t)} \cup {TagFile} |->
            IF p = TagFile THEN p ELSE t[Tail(p)]],
         {<<"data">> \o d : d \in Dirs(t)})

\* It is a tree: the files of t below data/, and a tag file.
LEMMA BaggedFacts ==
  ASSUME NEW t, IsTree(t)
  PROVE  /\ IsTree(Bagged(t))
         /\ Files(Bagged(t)) = {<<"data">> \o q : q \in Files(t)} \cup {TagFile}
         /\ \A q \in Files(t) : Bagged(t)[<<"data">> \o q] = t[q]
<1> DEFINE d == <<"data">>
           F == {d \o q : q \in Files(t)}
           D == {d \o q : q \in Dirs(t)}
           fb == [p \in F \cup {TagFile} |-> IF p = TagFile THEN p ELSE t[Tail(p)]]
<1>1. /\ \A q \in Files(t) : q \in DOMAIN t /\ q \in Path /\ q # <<>> /\ t[q] # Dir
      /\ \A q \in Dirs(t) : q \in DOMAIN t /\ q \in Path /\ q # <<>>
  BY DEF Files, Dirs, IsTree
<1>2. Bagged(t) = TreeOf(fb, D)
  BY DEF Bagged
<1>3. /\ TagFile \in Path /\ TagFile # <<>> /\ Head(TagFile) = "bagit.txt"
      /\ d \in Path /\ d # <<>> /\ Head(d) = "data" /\ "data" # "bagit.txt"
      /\ \A p \in Path : p # <<>> => (IsPrefix(TagFile, p) <=> Head(p) = "bagit.txt")
  BY Singleton, HeadFacts, Names DEF TagFile
<1>4. \A x \in Path : d \o x \in Path /\ d \o x # <<>> /\ Head(d \o x) = "data"
                      /\ Tail(d \o x) = x
  BY ConsFacts, Names
<1>5. DOMAIN fb = F \cup {TagFile} /\ fb[TagFile] = TagFile
  OBVIOUS
<1>6. \A q \in Files(t) : d \o q \in F /\ d \o q \in DOMAIN fb /\ fb[d \o q] = t[q]
  <2> TAKE q \in Files(t)
  <2>1. d \o q \in F /\ d \o q # TagFile /\ Tail(d \o q) = q
    BY <1>1, <1>3, <1>4
  <2> QED
    BY <2>1
<1>8. /\ \A p \in F : \E q \in Files(t) : p = d \o q
      /\ \A p \in D : \E q \in Dirs(t) : p = d \o q
  OBVIOUS
<1> HIDE DEF fb, F, D, d
<1>9. DOMAIN fb \cup D \subseteq Path \ {<<>>}
  <2>1. F \subseteq Path \ {<<>>}
    BY <1>1, <1>4, <1>8
  <2>2. D \subseteq Path \ {<<>>}
    BY <1>1, <1>4, <1>8
  <2> QED
    BY <1>3, <1>5, <2>1, <2>2
<1>10. ASSUME NEW p \in DOMAIN fb PROVE fb[p] # Dir
  <2>1. CASE p = TagFile
    <3>1. fb[p] = TagFile
      BY <1>5, <2>1
    <3> QED
      BY <1>3, <3>1 DEF Dir
  <2>2. CASE p \in F
    <3>1. PICK q \in Files(t) : p = d \o q
      BY <1>8, <2>2
    <3>2. fb[p] = t[q] /\ t[q] # Dir
      BY <1>1, <1>6, <3>1
    <3> QED
      BY <3>2
  <2> QED
    BY <1>5, <2>1, <2>2
<1>11. ASSUME NEW p \in DOMAIN fb, NEW q \in DOMAIN fb \cup D, IsPrefix(p, q)
       PROVE  q = p
  <2>1. p \in Path /\ p # <<>> /\ q \in Path /\ q # <<>> /\ Head(p) = Head(q)
    BY <1>9, <1>11, HeadOfPrefix
  <2>2. CASE p = TagFile
    BY <1>1, <1>3, <1>4, <1>5, <1>8, <2>1, <2>2
  <2>3. CASE p \in F
    <3>1. PICK f \in Files(t) : p = d \o f
      BY <1>8, <2>3
    <3>2. PICK g \in Files(t) \cup Dirs(t) : q = d \o g
      BY <1>1, <1>3, <1>4, <1>5, <1>8, <2>1, <3>1
    <3>3. IsPrefix(d \o f, d \o g)
      BY <1>11, <3>1, <3>2
    <3>4. IsPrefix(f, g) /\ g \in DOMAIN t
      BY <1>1, <1>3, <3>3, PrefixOfConcat
    <3>5. g = f
      BY <3>4, TreeFacts
    <3> QED
      BY <3>1, <3>2, <3>5
  <2> QED
    BY <1>5, <2>2, <2>3
<1>12. /\ IsTree(Bagged(t)) /\ Files(Bagged(t)) = DOMAIN fb
       /\ \A p \in DOMAIN fb : Bagged(t)[p] = fb[p]
  <2>1. \A p \in DOMAIN fb : \A q \in DOMAIN fb \cup D : IsPrefix(p, q) => q = p
    BY <1>11
  <2> QED
    BY <1>2, <1>9, <1>10, <2>1, TreeOfFacts, ZenonT(60)
<1> QED
  BY <1>5, <1>6, <1>12 DEF F, d

-----------------------------------------------------------------------------
(* The invariant.                                                           *)

\* Nothing that depends on the package and its type alone changes with the tree.
LEMMA SamePackage ==
  ASSUME pkg' = pkg, type' = type
  PROVE  /\ Payload(pkg)' = Payload(pkg) /\ Kept' = Kept /\ Layout' = Layout
         /\ Listing' = Listing /\ Required' = Required /\ (Digitized' <=> Digitized)
         /\ \A b : /\ (Typed(b)' <=> Typed(b))
                   /\ (Structured(b)' <=> Structured(b))
                   /\ (Verified(b)' <=> Verified(b))
         /\ \A t, b, z : (Placed(t, b, z)' <=> Placed(t, b, z))
<1>1. Payload(pkg)' = Payload(pkg)
  OBVIOUS
<1>2. /\ (IsAIP' <=> IsAIP) /\ (Digitized' <=> Digitized)
  BY DEF IsAIP, Digitized
<1>3. Layout' = Layout
  BY <1>2 DEF Layout
<1>4. Kept' = Kept
  BY <1>3 DEF Kept
<1>5. Listing' = Listing
  BY <1>2, <1>3 DEF Listing
<1>6. Required' = Required
  BY <1>3 DEF Required
<1>7. ASSUME NEW b
      PROVE  /\ (Typed(b)' <=> Typed(b)) /\ (Structured(b)' <=> Structured(b))
             /\ (Verified(b)' <=> Verified(b))
  <2>1. Typed(b)' <=> Typed(b)
    BY <1>2 DEF Typed
  <2>2. Structured(b)' <=> Structured(b)
    BY <1>3, <1>6 DEF Structured
  <2>3. Verified(b)' <=> Verified(b)
    BY <1>2, <1>3, <1>5 DEF Verified
  <2> QED
    BY <2>1, <2>2, <2>3
<1>8. ASSUME NEW t, NEW b, NEW z PROVE Placed(t, b, z)' <=> Placed(t, b, z)
  BY <1>2, <1>3 DEF Placed
<1> QED
  BY <1>1, <1>2, <1>3, <1>4, <1>5, <1>6, <1>7, <1>8

\* The original names of the content files of the package b.
NamesOf(b) == {OriginalName(p) : p \in Files(b) \cap Below(b, Layout.content)}

\* What WriteIdentifierFile reads: the manifest it takes for the package's, and
\* the names it makes of the paths there.
IdentifiersManifest == IF type = "DigitizedAIP" THEN Updated ELSE "metadata.xml"
ConvertedPaths == {ConvertSIPPath(p) : p \in pkg.listed[IdentifiersManifest]} \ {<<>>}

\* The package between the activities.
AsGiven == tree = Payload(pkg) /\ Typed(Payload(pkg))
Checked == Typed(Payload(pkg)) /\ Structured(Payload(pkg)) /\ Verified(Payload(pkg))
Described ==
  /\ Checked /\ <<"metadata">> \notin DOMAIN Payload(pkg)
  /\ objects = NamesOf(Payload(pkg))
Restructured == Described /\ \E z : Placed(tree, Payload(pkg), z)
BagOfPIP == Described /\ \E t, z : Placed(t, Payload(pkg), z) /\ tree = Bagged(t)

Progress ==
  /\ pc = "unbag" => tree = Submitted(pkg) /\ type = "unknown" /\ failures = {}
  /\ pc = "identify" => tree = Payload(pkg) /\ type = "unknown" /\ failures = {}
  /\ pc = "structure" => AsGiven /\ failures = {}
  /\ pc = "manifest" => AsGiven /\ (failures = {} => Structured(Payload(pkg)))
  /\ pc = "gate" => AsGiven /\ (failures = {} => Checked)
  /\ pc = "rejected" => AsGiven
  /\ pc = "premis" => AsGiven /\ Checked
  /\ pc = "transform" => Described /\ tree = WithPremis(Payload(pkg))
  /\ pc = "identifiers" => Restructured /\ Metadata("identifiers.json") \notin DOMAIN tree
  /\ pc = "bag" => Restructured /\ ids = ConvertedPaths
  /\ pc = "built" => BagOfPIP /\ ids = ConvertedPaths

PackageInv ==
  /\ pkg \in Packages /\ pc \in Steps /\ type \in Types \cup {"unknown"}
  /\ failures \subseteq FailureKinds
  /\ IsTree(tree) /\ NothingIsLost /\ Progress

\* A package that is as it was given has all its files.
LEMMA GivenKeeps ==
  ASSUME NEW k \in Packages, NEW t,
         \A p \in DOMAIN Payload(k) : \E q \in DOMAIN t : t[q] = Payload(k)[p]
  PROVE  \A f \in k.files : \E p \in DOMAIN t : t[p] = f
<1>1. /\ Files(Payload(k)) = k.files /\ \A f \in k.files : Payload(k)[f] = f
  BY PayloadFacts
<1>2. \A f \in k.files : f \in DOMAIN Payload(k)
  BY <1>1 DEF Files
<1> QED
  BY <1>1, <1>2

\* The invariant holds of a package that was submitted.
LEMMA InitProof == Init => PackageInv
<1> SUFFICES ASSUME Init PROVE PackageInv
  OBVIOUS
<1>1. pkg \in Packages /\ tree = Submitted(pkg) /\ pc = "unbag" /\ type = "unknown" /\ failures = {}
  BY DEF Init
<1>2. /\ IsTree(Payload(pkg)) /\ (pkg.bag = FALSE => Submitted(pkg) = Payload(pkg))
  BY <1>1, PayloadFacts
<1>3. CASE pkg.bag = FALSE
  <2>1. IsTree(tree) /\ NothingIsLost
    BY <1>1, <1>2, <1>3, GivenKeeps DEF NothingIsLost, Kept
  <2> QED
    BY <1>1, <2>1 DEF PackageInv, Progress, Steps
<1>4. CASE pkg.bag = TRUE
  <2>1. /\ IsTree(Submitted(pkg))
        /\ \A x \in Path \ {<<>>} :
             /\ <<"data">> \o x \in DOMAIN Submitted(pkg) <=> x \in DOMAIN Payload(pkg)
             /\ x \in DOMAIN Payload(pkg) => Submitted(pkg)[<<"data">> \o x] = Payload(pkg)[x]
    BY <1>1, <1>4, BagFacts
  <2>2. \A x \in DOMAIN Payload(pkg) : x \in Path \ {<<>>}
    BY <1>2 DEF IsTree
  <2>3. NothingIsLost
    BY <1>1, <2>1, <2>2, GivenKeeps DEF NothingIsLost, Kept
  <2> QED
    BY <1>1, <2>1, <2>3 DEF PackageInv, Progress, Steps
<1>5. pkg.bag \in BOOLEAN
  BY <1>1, PackageFacts
<1> QED
  BY <1>3, <1>4, <1>5

\* Unbag: by an error or not, it loses nothing.
LEMMA UnbagProof == PackageInv /\ Unbag => PackageInv'
<1> SUFFICES ASSUME PackageInv, Unbag PROVE PackageInv'
  OBVIOUS
<1>1. /\ pkg \in Packages /\ tree = Submitted(pkg) /\ type = "unknown" /\ failures = {}
      /\ pkg' = pkg /\ type' = type /\ failures' = failures
  BY DEF Unbag, PackageInv, Progress
<1>2. pkg.bag \in BOOLEAN /\ (pkg.bag = FALSE => TagFile \notin DOMAIN tree)
  BY <1>1, PackageFacts
<1>3. /\ IsTree(Payload(pkg)) /\ (pkg.bag = FALSE => tree = Payload(pkg))
  BY <1>1, PayloadFacts
<1>4. pkg.bag = TRUE => TagFile \in DOMAIN tree /\ IsTree(tree)
  BY <1>1, BagFacts
<1>5. (\A f \in pkg.files : \E p \in DOMAIN tree' : tree'[p] = f) => NothingIsLost'
  BY <1>1 DEF NothingIsLost, Kept
<1> DEFINE others  == Children(tree, <<>>) \ {<<"data">>}
           payload == Entries(tree, <<"data">>)
           Keeps == IsTree(tree') /\ \A p \in DOMAIN Payload(pkg) : \E q \in DOMAIN tree' : tree'[q] = Payload(pkg)[p]
<1>6. ASSUME tree' = Payload(pkg), pc' = "identify" PROVE PackageInv'
  <2>1. \A f \in pkg.files : \E p \in DOMAIN tree' : tree'[p] = f
    BY <1>1, <1>6, GivenKeeps
  <2>2. tree' = Payload(pkg)'
    BY <1>1, <1>6
  <2>3. Progress'
    BY <1>1, <1>6, <2>2 DEF Progress
  <2>4. NothingIsLost'
    BY <1>5, <2>1
  <2> QED
    BY <1>1, <1>3, <1>6, <2>3, <2>4 DEF PackageInv, Steps
<1>7. ASSUME Keeps, pc' = "failed" PROVE PackageInv'
  <2>1. \A f \in pkg.files : \E p \in DOMAIN tree' : tree'[p] = f
    BY <1>1, <1>7, GivenKeeps
  <2>2. Progress'
    BY <1>7 DEF Progress
  <2> QED
    BY <1>1, <1>5, <1>7, <2>1, <2>2 DEF PackageInv, Steps
<1>8. CASE TagFile \notin DOMAIN tree /\ pc' = "identify" /\ UNCHANGED tree
  BY <1>2, <1>3, <1>4, <1>6, <1>8
<1>9. CASE /\ {TagFile, <<"data">>} \subseteq DOMAIN tree /\ "data" \notin payload
           /\ tree' = Without(MovedUp(Without(tree, others), payload), {<<"data">>})
           /\ pc' = "identify"
  <2>1. pkg.bag = TRUE /\ <<"data">> \in DOMAIN Submitted(pkg)
        /\ "data" \notin Entries(Submitted(pkg), <<"data">>)
    BY <1>1, <1>2, <1>9
  <2>2. tree' = Payload(pkg)
    BY <1>1, <1>9, <2>1, UnbaggedFacts
  <2> QED
    BY <1>6, <1>9, <2>2
<1>10. CASE /\ {TagFile, <<"data">>} \subseteq DOMAIN tree
            /\ \/ \E D \in SUBSET others : tree' = Without(tree, D)
               \/ \E E \in SUBSET (payload \ {"data"}) :
                    tree' = MovedUp(Without(tree, others), E)
            /\ pc' = "failed"
  <2>1. pkg.bag = TRUE
    BY <1>2, <1>10
  <2>2. ASSUME NEW D \in SUBSET others, tree' = Without(tree, D) PROVE Keeps
    <3>1. /\ IsTree(tree')
          /\ \A p \in DOMAIN tree' : tree'[p] = tree[p]
          /\ \A p \in DOMAIN tree : Head(p) = "data" => p \in DOMAIN tree'
      BY <1>4, <2>1, <2>2, ClearedFacts
    <3>2. \A x \in Path \ {<<>>} :
            /\ <<"data">> \o x \in DOMAIN tree <=> x \in DOMAIN Payload(pkg)
            /\ x \in DOMAIN Payload(pkg) => tree[<<"data">> \o x] = Payload(pkg)[x]
      BY <1>1, <2>1, BagFacts
    <3>3. \A x \in Path : Head(<<"data">> \o x) = "data"
      BY ConsFacts, Names
    <3>4. \A x \in DOMAIN Payload(pkg) : x \in Path \ {<<>>}
      BY <1>3 DEF IsTree
    <3> QED
      BY <3>1, <3>2, <3>3, <3>4
  <2>3. ASSUME NEW E \in SUBSET (payload \ {"data"}), tree' = MovedUp(Without(tree, others), E)
        PROVE  Keeps
    BY <1>1, <2>1, <2>3, MovedUpKeeps, ZenonT(60)
  <2> QED
    BY <1>7, <1>10, <2>2, <2>3
<1> QED
  BY <1>8, <1>9, <1>10 DEF Unbag

\* sip.New.
LEMMA IdentifyProof == PackageInv /\ IdentifySIP => PackageInv'
<1> SUFFICES ASSUME PackageInv, IdentifySIP PROVE PackageInv'
  OBVIOUS
<1>1. /\ pkg \in Packages /\ tree = Payload(pkg) /\ failures = {} /\ IsTree(tree)
      /\ pkg' = pkg /\ tree' = tree /\ failures' = failures /\ pc' = "structure"
  BY DEF IdentifySIP, PackageInv, Progress
<1>2. Typed(Payload(pkg))'
  <2>1. PICK b : b = Payload(pkg)
    OBVIOUS
  <2>2. Payload(pkg)' = b
    BY <1>1, <2>1
  <2>3. Typed(b)'
    BY <1>1, <2>1 DEF IdentifySIP, Typed, Types, Digitized
  <2> QED
    BY <2>2, <2>3 DEF Typed
<1>3. type' \in Types
  BY <1>2 DEF Typed
<1>4. NothingIsLost'
  <2>1. \A f \in pkg.files : \E p \in DOMAIN tree : tree[p] = f
    BY <1>1, GivenKeeps
  <2> QED
    BY <1>1, <2>1 DEF NothingIsLost, Kept
<1>5. Progress'
  <2>1. AsGiven'
    BY <1>1, <1>2 DEF AsGiven
  <2> QED
    BY <1>1, <2>1 DEF Progress
<1> QED
  BY <1>1, <1>3, <1>4, <1>5 DEF PackageInv, Steps

\* What ValidateStructure does not report.
LEMMA StructureFacts ==
  ASSUME StructureFailures = {}
  PROVE  Structured(tree)
<1>1. tree # <<>>
  BY DEF StructureFailures
<1>2. /\ "missing" \in FailureKinds /\ "unexpected" \in FailureKinds
  BY DEF FailureKinds
<1>3. Required \subseteq DOMAIN tree
  BY <1>1, <1>2 DEF StructureFailures
<1>4. \A d \in Dirs(tree) : Len(d) = 1 => d \in Layout.top
  BY <1>1, <1>2 DEF StructureFailures
<1> QED
  BY <1>3, <1>4 DEF Structured

\* ValidateStructure.
LEMMA StructureProof == PackageInv /\ ValidateStructure => PackageInv'
<1> SUFFICES ASSUME PackageInv, ValidateStructure PROVE PackageInv'
  OBVIOUS
<1>1. /\ pkg \in Packages /\ AsGiven /\ failures = {} /\ IsTree(tree) /\ NothingIsLost
      /\ type \in Types \cup {"unknown"}
      /\ pkg' = pkg /\ tree' = tree /\ type' = type /\ pc' = "manifest"
      /\ failures' = StructureFailures
  BY DEF ValidateStructure, PackageInv, Progress
<1>2. AsGiven' /\ NothingIsLost'
  BY <1>1, SamePackage DEF AsGiven, NothingIsLost
<1>3. failures' = {} => Structured(Payload(pkg))'
  <2>1. SUFFICES ASSUME failures' = {} PROVE Structured(Payload(pkg))'
    OBVIOUS
  <2>2. Structured(Payload(pkg))
    BY <1>1, <2>1, StructureFacts DEF AsGiven
  <2> QED
    BY <1>1, <2>2, SamePackage
<1>4. failures' \subseteq FailureKinds
  BY <1>1 DEF StructureFailures, FailureKinds
<1>5. Progress'
  BY <1>1, <1>2, <1>3 DEF Progress
<1> QED
  BY <1>1, <1>2, <1>4, <1>5 DEF PackageInv, Steps

\* What VerifyManifest does not report.
LEMMA ManifestFacts ==
  ASSUME pkg \in Packages, tree = Payload(pkg), Layout.manifest \in Files(tree)
  PROVE  /\ ManifestFiles = Listing
         /\ ManifestFailures = {} => Verified(tree)
<1>1. tree[Layout.manifest] = Layout.manifest
  BY PayloadFacts
<1>2. ManifestFiles = Listing
  BY <1>1 DEF ManifestFiles, Listing, Listed
<1>3. ASSUME ManifestFailures = {} PROVE Verified(tree)
  <2>1. /\ "manifest" \in FailureKinds /\ "checksum" \in FailureKinds
    BY DEF FailureKinds
  <2>2. ManifestFiles = SIPFiles
    BY <1>3, <2>1 DEF ManifestFailures
  <2>3. pkg.corrupt \cap ManifestFiles \cap SIPFiles = {}
    BY <1>3, <2>1 DEF ManifestFailures
  <2>4. pkg.corrupt \cap Listing = {}
    BY <1>2, <2>2, <2>3
  <2>5. Listing = IF IsAIP THEN Files(tree) \cap Below(tree, <<"content">>)
                  ELSE Files(tree) \ {<<"header", "metadata.xml">>}
    BY <1>2, <2>2 DEF SIPFiles
  <2> QED
    BY <2>4, <2>5 DEF Verified
<1> QED
  BY <1>2, <1>3

\* VerifyManifest.
LEMMA ManifestProof == PackageInv /\ VerifyManifest => PackageInv'
<1> SUFFICES ASSUME PackageInv, VerifyManifest PROVE PackageInv'
  OBVIOUS
<1>1. /\ pkg \in Packages /\ AsGiven /\ (failures = {} => Structured(Payload(pkg)))
      /\ IsTree(tree) /\ NothingIsLost /\ failures \subseteq FailureKinds
      /\ type \in Types \cup {"unknown"}
      /\ pkg' = pkg /\ tree' = tree /\ type' = type /\ pc' = "gate"
      /\ failures' = failures \cup ManifestFailures /\ Layout.manifest \in Files(tree)
  BY DEF VerifyManifest, PackageInv, Progress
<1>2. AsGiven' /\ NothingIsLost'
  BY <1>1, SamePackage DEF AsGiven, NothingIsLost
<1>3. failures' = {} => Checked'
  <2>1. SUFFICES ASSUME failures' = {} PROVE Checked'
    OBVIOUS
  <2>2. Verified(Payload(pkg)) /\ Structured(Payload(pkg)) /\ Typed(Payload(pkg))
    BY <1>1, <2>1, ManifestFacts DEF AsGiven
  <2> QED
    BY <1>1, <2>2, SamePackage DEF Checked
<1>4. failures' \subseteq FailureKinds
  BY <1>1 DEF ManifestFailures
<1>5. Progress'
  BY <1>1, <1>2, <1>3 DEF Progress
<1> QED
  BY <1>1, <1>2, <1>4, <1>5 DEF PackageInv, Steps

\* Gate.
LEMMA GateProof == PackageInv /\ Gate => PackageInv'
<1> SUFFICES ASSUME PackageInv, Gate PROVE PackageInv'
  OBVIOUS
<1>1. /\ pkg \in Packages /\ AsGiven /\ (failures = {} => Checked)
      /\ IsTree(tree) /\ NothingIsLost /\ failures \subseteq FailureKinds
      /\ type \in Types \cup {"unknown"}
      /\ pkg' = pkg /\ tree' = tree /\ type' = type
  BY DEF Gate, PackageInv, Progress
<1>2. PICK others \in SUBSET {"other"} :
        /\ failures' = failures \cup others
        /\ pc' = IF failures' = {} THEN "premis" ELSE "rejected"
  BY DEF Gate
<1>3. AsGiven' /\ NothingIsLost'
  BY <1>1, SamePackage DEF AsGiven, NothingIsLost
<1>4. failures' \subseteq FailureKinds
  BY <1>1, <1>2 DEF FailureKinds
<1>5. Progress'
  <2>1. CASE failures' = {}
    <3>1. pc' = "premis" /\ Checked
      BY <1>1, <1>2, <2>1
    <3>2. Checked'
      BY <1>1, <3>1, SamePackage DEF Checked
    <3> QED
      BY <1>3, <3>1, <3>2 DEF Progress
  <2>2. CASE failures' # {}
    <3>1. pc' = "rejected"
      BY <1>2, <2>2
    <3> QED
      BY <1>3, <3>1 DEF Progress
  <2> QED
    BY <2>1, <2>2
<1> QED
  BY <1>1, <1>2, <1>3, <1>4, <1>5 DEF PackageInv, Steps

\* What was found out about a package does not change either.
LEMMA SameDescription ==
  ASSUME pkg' = pkg, type' = type
  PROVE  /\ NamesOf(Payload(pkg))' = NamesOf(Payload(pkg)) /\ ConvertedPaths' = ConvertedPaths
         /\ (Checked' <=> Checked)
         /\ objects' = objects => (Described' <=> Described)
<1>1. PICK b : b = Payload(pkg)
  OBVIOUS
<1>2. Payload(pkg)' = b
  BY <1>1
<1>3. Layout' = Layout
  BY SamePackage
<1>4. NamesOf(Payload(pkg))' = NamesOf(Payload(pkg)) /\ ConvertedPaths' = ConvertedPaths
  BY <1>1, <1>2, <1>3 DEF NamesOf, OriginalName, ConvertedPaths, IdentifiersManifest
<1>5. Checked' <=> Checked
  BY SamePackage DEF Checked
<1>6. objects' = objects => (Described' <=> Described)
  BY <1>1, <1>2, <1>4, <1>5 DEF Described
<1> QED
  BY <1>4, <1>5, <1>6

\* An activity that fails without having changed anything, and no step at all.
LEMMA FailProof == PackageInv /\ (Fail \/ UNCHANGED vars) => PackageInv'
<1> SUFFICES ASSUME PackageInv, Fail \/ UNCHANGED vars PROVE PackageInv'
  OBVIOUS
<1>1. /\ pkg' = pkg /\ tree' = tree /\ type' = type /\ failures' = failures
      /\ objects' = objects /\ ids' = ids
  BY DEF Fail, vars
<1>2. NothingIsLost'
  BY <1>1, SamePackage DEF PackageInv, NothingIsLost
<1>3. CASE pc' = "failed"
  <2>1. Progress'
    BY <1>3 DEF Progress
  <2> QED
    BY <1>1, <1>2, <1>3, <2>1 DEF PackageInv, Steps
<1>4. CASE pc' = pc
  <2>1. /\ Payload(pkg)' = Payload(pkg) /\ Submitted(pkg)' = Submitted(pkg)
        /\ WithPremis(Payload(pkg))' = WithPremis(Payload(pkg))
    BY <1>1
  <2>2. AsGiven' <=> AsGiven
    BY <1>1, SamePackage DEF AsGiven
  <2>3. (Checked' <=> Checked) /\ (Described' <=> Described) /\ ConvertedPaths' = ConvertedPaths
    BY <1>1, SameDescription
  <2>4. (Restructured' <=> Restructured) /\ (BagOfPIP' <=> BagOfPIP)
    <3>1. \A t, z : Placed(t, Payload(pkg), z)' <=> Placed(t, Payload(pkg), z)
      BY <1>1, <2>1, SamePackage
    <3> QED
      BY <1>1, <2>3, <3>1 DEF Restructured, BagOfPIP
  <2>5. Structured(Payload(pkg))' <=> Structured(Payload(pkg))
    BY <1>1, <2>1, SamePackage
  <2>6. Progress
    BY DEF PackageInv
  <2>7. Progress'
    BY <1>1, <1>4, <2>1, <2>2, <2>3, <2>4, <2>5, <2>6 DEF Progress
  <2> QED
    BY <1>1, <1>2, <1>4, <2>7 DEF PackageInv
<1> QED
  BY <1>3, <1>4 DEF Fail, vars

\* AddPREMISObjects.
LEMMA PremisProof == PackageInv /\ AddPREMISObjects => PackageInv'
<1> SUFFICES ASSUME PackageInv, AddPREMISObjects PROVE PackageInv'
  OBVIOUS
<1>1. /\ pkg \in Packages /\ tree = Payload(pkg) /\ Checked /\ IsTree(tree)
      /\ failures \subseteq FailureKinds /\ type \in Types \cup {"unknown"}
      /\ pkg' = pkg /\ type' = type /\ failures' = failures
      /\ CanMkdir(tree, <<"metadata">>)
  BY DEF AddPREMISObjects, PackageInv, Progress, AsGiven
<1>2. <<"metadata">> \notin DOMAIN tree
  BY <1>1, NotInTheWay DEF Checked
<1> DEFINE made == MkdirAll(tree, <<"metadata">>)
           written == WithPremis(tree)
<1>3. /\ IsTree(made) /\ \A p \in DOMAIN tree : p \in DOMAIN made /\ made[p] = tree[p]
      /\ IsTree(written) /\ \A p \in DOMAIN tree : p \in DOMAIN written /\ written[p] = tree[p]
  BY <1>1, <1>2, PremisFacts
<1>4. tree' \in {made, written}
  BY DEF AddPREMISObjects, WithPremis
<1>5. IsTree(tree') /\ NothingIsLost'
  <2>1. IsTree(tree') /\ \A p \in DOMAIN tree : p \in DOMAIN tree' /\ tree'[p] = tree[p]
    BY <1>3, <1>4
  <2>2. \A f \in pkg.files : \E p \in DOMAIN tree' : tree'[p] = f
    BY <1>1, <2>1, GivenKeeps
  <2> QED
    BY <1>1, <2>1, <2>2 DEF NothingIsLost, Kept
<1>6. CASE pc' = "failed"
  <2>1. Progress'
    BY <1>6 DEF Progress
  <2> QED
    BY <1>1, <1>5, <1>6, <2>1 DEF PackageInv, Steps
<1>7. CASE tree' = written /\ objects' = ObjectNames /\ pc' = "transform"
  <2>1. objects' = NamesOf(Payload(pkg))
    BY <1>1, <1>7 DEF ObjectNames, NamesOf
  <2>2. Described'
    <3>1. Payload(pkg)' = Payload(pkg)
      BY <1>1
    <3>2. Checked' /\ NamesOf(Payload(pkg))' = NamesOf(Payload(pkg))
      BY <1>1, SameDescription
    <3> QED
      BY <1>1, <1>2, <2>1, <3>1, <3>2 DEF Described
  <2>3. tree' = WithPremis(Payload(pkg))'
    BY <1>1, <1>7
  <2>4. Progress'
    BY <1>7, <2>2, <2>3 DEF Progress
  <2> QED
    BY <1>1, <1>5, <1>7, <2>4 DEF PackageInv, Steps
<1> QED
  BY <1>6, <1>7 DEF AddPREMISObjects, WithPremis

\* TransformSIP, with every clean-up that can go wrong.
LEMMA TransformProof == PackageInv /\ TransformSIP => PackageInv'
<1> SUFFICES ASSUME PackageInv, TransformSIP PROVE PackageInv'
  OBVIOUS
<1>1. /\ pkg \in Packages /\ tree = WithPremis(Payload(pkg)) /\ Described /\ IsTree(tree)
      /\ failures \subseteq FailureKinds /\ type \in Types /\ NothingIsLost
      /\ pkg' = pkg /\ type' = type /\ failures' = failures /\ objects' = objects /\ ids' = ids
  BY DEF TransformSIP, PackageInv, Progress, Described, Checked, Typed
<1>2. IsTree(Payload(pkg)) /\ <<"metadata">> \notin DOMAIN Payload(pkg)
  BY <1>1, PayloadFacts DEF Described
<1>3. ASSUME Completes, NEW kept \in SUBSET Layout.top,
             tree' = Without(After[Len(Transform)], Layout.top \ kept), pc' = "identifiers"
      PROVE  PackageInv'
  <2>1. PICK u : u = After[Len(Transform)]
    OBVIOUS
  <2>2. Placed(u, Payload(pkg), ProzessPath) /\ Metadata("identifiers.json") \notin DOMAIN u
    BY <1>1, <1>2, <1>3, <2>1, CompletesPlaces
  <2>3. PICK z : z = ProzessPath
    OBVIOUS
  <2>4. PICK w : w = Without(u, Layout.top \ kept)
    OBVIOUS
  <2>5. Placed(w, Payload(pkg), z) /\ Metadata("identifiers.json") \notin DOMAIN w
    <3>1. Layout.top \ kept \in SUBSET Layout.top
      OBVIOUS
    <3> QED
      BY <2>2, <2>3, <2>4, <3>1, CleanedFacts
  <2>6. tree' = w
    BY <1>3, <2>1, <2>4
  <2>7. IsTree(w) /\ \A f \in Kept : \E p \in Files(w) : w[p] = f
    BY <1>1, <2>5, PlacedKeeps DEF Placed
  <2>8. NothingIsLost'
    <3>1. Kept' = Kept
      BY <1>1, SamePackage
    <3> QED
      BY <2>6, <2>7, <3>1 DEF NothingIsLost, Files
  <2>9. Restructured'
    <3>1. Described' /\ Payload(pkg)' = Payload(pkg)
      BY <1>1, SameDescription
    <3>2. Placed(w, Payload(pkg), z)'
      BY <1>1, <2>5, <3>1, SamePackage
    <3> QED
      BY <2>6, <3>1, <3>2 DEF Restructured
  <2>10. Progress'
    BY <1>3, <2>5, <2>6, <2>9 DEF Progress
  <2> QED
    BY <1>1, <1>3, <2>6, <2>7, <2>8, <2>10 DEF PackageInv, Steps
<1>4. ASSUME NEW i \in 0..Len(Transform), Reached(i), tree' = After[i], pc' = "failed"
      PROVE  PackageInv'
  <2>1. PICK u : u = After[i]
    OBVIOUS
  <2>2. IsTree(u) /\ \A p \in DOMAIN tree : \E q \in DOMAIN u : u[q] = tree[p]
    BY <1>1, <1>4, <2>1, ReachedKeeps
  <2>3. \A f \in Kept : \E p \in DOMAIN u : u[p] = f
    BY <1>1, <2>2 DEF NothingIsLost
  <2>4. NothingIsLost'
    <3>1. Kept' = Kept
      BY <1>1, SamePackage
    <3> QED
      BY <1>4, <2>1, <2>3, <3>1 DEF NothingIsLost
  <2>5. Progress'
    BY <1>4 DEF Progress
  <2> QED
    BY <1>1, <1>4, <2>1, <2>2, <2>4, <2>5 DEF PackageInv, Steps
<1> QED
  BY <1>3, <1>4 DEF TransformSIP

\* The manifest that WriteIdentifierFile reads is a file it was told about.
LEMMA PIPManifestFacts ==
  ASSUME pkg \in Packages, type \in Types, NEW z, Placed(tree, Payload(pkg), z),
         PIPManifest \in Files(tree)
  PROVE  PIPIdentifiers = ConvertedPaths
<1> DEFINE b == Payload(pkg)
<1>1. /\ IsTree(b) /\ Files(b) = pkg.files /\ \A f \in pkg.files : b[f] = f
  BY PayloadFacts
<1>2. <<>> \in Path /\ \A a \in Path : a \o <<>> = a
  BY ConcatFacts, EmptySeq DEF Path
<1> HIDE DEF b
<1>3. ASSUME NEW q \in Path, NEW p \in Path, Same(tree, q \o <<>>, b, p \o <<>>), q \in Files(tree)
      PROVE  tree[q] = p
  <2>1. Same(tree, q, b, p)
    BY <1>2, <1>3
  <2>2. p \in DOMAIN b /\ tree[q] = b[p] /\ b[p] # Dir
    BY <1>3, <2>1 DEF Same, Files
  <2>3. p \in Files(b)
    BY <2>2 DEF Files
  <2> QED
    BY <1>1, <2>2, <2>3
<1>4. Last(tree[PIPManifest]) = IdentifiersManifest
  <2>1. CASE type = "DigitizedAIP"
    <3>1. IsAIP /\ PIPManifest = Metadata(Updated) /\ IdentifiersManifest = Updated
      BY <2>1 DEF IsAIP, PIPManifest, IdentifiersManifest
    <3>2. Same(tree, Metadata(Updated) \o <<>>, b, AddedPath(Updated) \o <<>>)
      BY <1>2, <3>1 DEF Placed, b
    <3>3. /\ Metadata(Updated) \in Path /\ AddedPath(Updated) \in Path
          /\ Last(AddedPath(Updated)) = Updated
      BY MetadataFacts, AddedFacts, Names
    <3> QED
      BY <1>3, <3>1, <3>2, <3>3
  <2>2. CASE type # "DigitizedAIP"
    <3>1. PIPManifest = PIPMetadata /\ IdentifiersManifest = "metadata.xml"
      BY <2>2 DEF PIPManifest, IdentifiersManifest, PIPMetadata
    <3>2. Same(tree, PIPMetadata \o <<>>, b, Layout.metadata \o <<>>)
      BY <1>2 DEF Placed, b
    <3>3. PIPMetadata \in Path /\ Layout.metadata \in Path
      BY PlaceFacts, LayoutFacts
    <3>4. Last(Layout.metadata) = "metadata.xml"
      BY DEF Layout, Last
    <3> QED
      BY <1>3, <3>1, <3>2, <3>3, <3>4
  <2> QED
    BY <2>1, <2>2
<1> QED
  BY <1>4 DEF PIPIdentifiers, ConvertedPaths, Listed

\* WriteIdentifierFile.
LEMMA IdentifiersProof == PackageInv /\ WriteIdentifierFile => PackageInv'
<1> SUFFICES ASSUME PackageInv, WriteIdentifierFile PROVE PackageInv'
  OBVIOUS
<1>1. /\ pkg \in Packages /\ Restructured /\ Metadata("identifiers.json") \notin DOMAIN tree
      /\ failures \subseteq FailureKinds /\ type \in Types
      /\ pkg' = pkg /\ type' = type /\ failures' = failures /\ objects' = objects
      /\ tree' = Write(tree, Metadata("identifiers.json")) /\ PIPManifest \in Files(tree)
  BY DEF WriteIdentifierFile, PackageInv, Progress, Restructured, Described, Checked, Typed
<1>2. PICK z : Placed(tree, Payload(pkg), z)
  BY <1>1 DEF Restructured
<1>3. PICK w : w = tree'
  OBVIOUS
<1>4. Placed(w, Payload(pkg), z)
  BY <1>1, <1>2, <1>3, WithIdentifiers
<1>5. IsTree(w) /\ \A f \in Kept : \E p \in Files(w) : w[p] = f
  BY <1>1, <1>4, PlacedKeeps DEF Placed
<1>6. NothingIsLost'
  <2>1. Kept' = Kept
    BY <1>1, SamePackage
  <2> QED
    BY <1>3, <1>5, <2>1 DEF NothingIsLost, Files
<1>7. CASE pc' = "failed"
  <2>1. Progress'
    BY <1>7 DEF Progress
  <2> QED
    BY <1>1, <1>3, <1>5, <1>6, <1>7, <2>1 DEF PackageInv, Steps
<1>8. CASE ids' = PIPIdentifiers /\ pc' = "bag"
  <2>1. Described' /\ Payload(pkg)' = Payload(pkg) /\ ConvertedPaths' = ConvertedPaths
    BY <1>1, SameDescription DEF Restructured
  <2>2. Placed(w, Payload(pkg), z)'
    BY <1>1, <1>4, <2>1, SamePackage
  <2>3. Restructured'
    BY <1>3, <2>1, <2>2 DEF Restructured
  <2>4. ids' = ConvertedPaths'
    BY <1>1, <1>2, <1>8, <2>1, PIPManifestFacts
  <2>5. Progress'
    BY <1>8, <2>3, <2>4 DEF Progress
  <2> QED
    BY <1>1, <1>3, <1>5, <1>6, <1>8, <2>5 DEF PackageInv, Steps
<1> QED
  BY <1>7, <1>8 DEF WriteIdentifierFile

\* BagSIP.
LEMMA BagProof == PackageInv /\ BagSIP => PackageInv'
<1> SUFFICES ASSUME PackageInv, BagSIP PROVE PackageInv'
  OBVIOUS
<1>1. /\ pkg \in Packages /\ Restructured /\ ids = ConvertedPaths
      /\ failures \subseteq FailureKinds /\ type \in Types
      /\ pkg' = pkg /\ type' = type /\ failures' = failures /\ objects' = objects /\ ids' = ids
      /\ tree' = Bagged(tree) /\ pc' = "built"
  BY DEF BagSIP, Bagged, PackageInv, Progress, Restructured, Described, Checked, Typed
<1>2. PICK z : Placed(tree, Payload(pkg), z)
  BY <1>1 DEF Restructured
<1>3. PICK t : t = tree
  OBVIOUS
<1>4. Placed(t, Payload(pkg), z) /\ tree' = Bagged(t)
  BY <1>1, <1>2, <1>3
<1>5. IsTree(t) /\ \A f \in Kept : \E p \in Files(t) : t[p] = f
  BY <1>1, <1>4, PlacedKeeps DEF Placed
<1>6. /\ IsTree(Bagged(t)) /\ Files(Bagged(t)) = {<<"data">> \o q : q \in Files(t)} \cup {TagFile}
      /\ \A q \in Files(t) : Bagged(t)[<<"data">> \o q] = t[q]
  BY <1>5, BaggedFacts
<1>7. NothingIsLost'
  <2>1. Kept' = Kept
    BY <1>1, SamePackage
  <2>2. \A q \in Files(t) : <<"data">> \o q \in DOMAIN Bagged(t)
    BY <1>6 DEF Files
  <2>3. \A f \in Kept : \E p \in DOMAIN Bagged(t) : Bagged(t)[p] = f
    BY <1>5, <1>6, <2>2
  <2> QED
    BY <1>4, <2>1, <2>3 DEF NothingIsLost
<1>8. Described' /\ Payload(pkg)' = Payload(pkg) /\ ConvertedPaths' = ConvertedPaths
  BY <1>1, SameDescription DEF Restructured
<1>9. BagOfPIP'
  <2>1. Placed(t, Payload(pkg), z)'
    BY <1>1, <1>4, <1>8, SamePackage
  <2> QED
    BY <1>4, <1>8, <2>1 DEF BagOfPIP
<1>10. Progress'
  BY <1>1, <1>8, <1>9 DEF Progress
<1> QED
  BY <1>1, <1>4, <1>6, <1>7, <1>10 DEF PackageInv, Steps

\* The invariant is inductive.
LEMMA PackageStep == PackageInv /\ [Next]_vars => PackageInv'
BY UnbagProof, IdentifyProof, StructureProof, ManifestProof, GateProof, PremisProof,
   TransformProof, IdentifiersProof, BagProof, FailProof DEF Next

\* So it holds forever.
LEMMA PackageInvariant == Spec => []PackageInv
BY InitProof, PackageStep, PTL DEF Spec

-----------------------------------------------------------------------------
(* Theorems.                                                                *)

\* The package's directory is a tree at every moment: nothing is in it that is
\* not in a directory of it.
THEOREM TypeCorrect == Spec => []TypeOK
<1>1. PackageInv => TypeOK
  BY TreeFacts DEF PackageInv, TypeOK
<1> QED
  BY <1>1, PackageInvariant, PTL

\* Wherever an activity stops, every submitted file that matters is still
\* somewhere in the package's directory.
THEOREM NothingLost == Spec => []NothingIsLost
<1>1. PackageInv => NothingIsLost
  BY DEF PackageInv
<1> QED
  BY <1>1, PackageInvariant, PTL

\* A package that is refused is handed back as it was submitted, unbagged.
THEOREM RejectedUnchanged == Spec => []RejectedIsIntact
<1>1. PackageInv => RejectedIsIntact
  BY DEF PackageInv, Progress, AsGiven, RejectedIsIntact, Payload
<1> QED
  BY <1>1, PackageInvariant, PTL

\* A package that passed the checks can be restructured, unless a file of it is
\* misplaced.
THEOREM ValidRestructured == Spec => []ValidPackagesAreRestructured
<1>1. ASSUME PackageInv PROVE ValidPackagesAreRestructured
  <2>1. SUFFICES ASSUME pc = "transform", ~Misplaced PROVE Completes
    BY DEF ValidPackagesAreRestructured
  <2>2. /\ pkg \in Packages /\ tree = WithPremis(Payload(pkg)) /\ Structured(Payload(pkg))
        /\ <<"metadata">> \notin DOMAIN Payload(pkg)
    BY <1>1, <2>1 DEF PackageInv, Progress, Described, Checked
  <2>3. IsTree(Payload(pkg))
    BY <2>2, PayloadFacts
  <2>4. Fit
    BY <2>1, <2>2, <2>3, ValidIsFit
  <2>5. IsTree(tree) /\ <<"metadata">> \in Dirs(tree)
    BY <2>2, <2>3, PremisFacts
  <2> QED
    BY <2>4, <2>5, Transformed DEF Stage, Completes
<1> QED
  BY <1>1, PackageInvariant, PTL

-----------------------------------------------------------------------------
(* The built package.                                                       *)

\* The content files of the submitted package, and their places in the PIP.
ContentOf == {f \in pkg.files : IsPrefix(Layout.content, f)}
PlaceOf(f, z) ==
  IF Digitized /\ IsPrefix(z, f) THEN Rebase(f, z, Metadata(Prozess))
  ELSE Rebase(f, Layout.content, PIPContent)

\* A content file is at its place, and nothing else is.
LEMMA ContentPlaced ==
  ASSUME pkg \in Packages, NEW t, NEW z, Placed(t, Payload(pkg), z)
  PROVE  /\ \A f \in ContentOf :
              /\ PlaceOf(f, z) \in Files(t) /\ t[PlaceOf(f, z)] = f
              /\ IF Digitized /\ IsPrefix(z, f) THEN IsPrefix(Metadata(Prozess), PlaceOf(f, z))
                 ELSE IsPrefix(PIPContent, PlaceOf(f, z))
         /\ \A q \in Files(t) : IsPrefix(PIPContent, q) \/ IsPrefix(Metadata(Prozess), q) =>
              \E f \in ContentOf : q = PlaceOf(f, z)
<1> DEFINE b == Payload(pkg)
           c == Layout.content
           m == Metadata(Prozess)
<1>1. /\ IsTree(b) /\ Files(b) = pkg.files /\ \A f \in pkg.files : b[f] = f
  BY PayloadFacts
<1>2. \A f \in pkg.files : f \in DOMAIN b /\ f \in Path /\ f # Dir
  BY <1>1 DEF Files, IsTree
<1>3. /\ c \in Path /\ z \in Path /\ PIPContent \in Path /\ m \in Path /\ IsPrefix(c, z)
  BY LayoutFacts, PlaceFacts, MetadataFacts, Names DEF Placed
<1>4. /\ \A x \in Path : IF Digitized /\ IsPrefix(z, c \o x) THEN PIPContent \o x \notin DOMAIN t
                        ELSE Same(t, PIPContent \o x, b, c \o x)
      /\ \A x \in Path : IF Digitized THEN Same(t, m \o x, b, z \o x) ELSE m \o x \notin DOMAIN t
      /\ \A q \in DOMAIN t : q \in Path
  BY DEF Placed, IsTree
<1> HIDE DEF b, c, m
<1>5. \A f \in pkg.files : \A q : Same(t, q, b, f) => q \in Files(t) /\ t[q] = f
  BY <1>1, <1>2 DEF Same, Files
<1>6. \A p, q : q \in Files(t) /\ Same(t, q, b, p) => p \in pkg.files
  BY <1>1 DEF Same, Files
<1>7. \A x \in Path : /\ Rebase(z \o x, z, m) = m \o x /\ Rebase(c \o x, c, PIPContent) = PIPContent \o x
                      /\ z \o x \in Path /\ c \o x \in Path
                      /\ IsPrefix(z, z \o x) /\ IsPrefix(c, c \o x)
                      /\ IsPrefix(m, m \o x) /\ IsPrefix(PIPContent, PIPContent \o x)
  BY <1>3, RebaseFacts, PrefixOfConcat
<1>8. ASSUME NEW f \in ContentOf
      PROVE  /\ PlaceOf(f, z) \in Files(t) /\ t[PlaceOf(f, z)] = f
             /\ IF Digitized /\ IsPrefix(z, f) THEN IsPrefix(m, PlaceOf(f, z))
                ELSE IsPrefix(PIPContent, PlaceOf(f, z))
  <2>1. f \in pkg.files /\ f \in Path /\ IsPrefix(c, f)
    BY <1>2 DEF ContentOf, c
  <2>2. CASE Digitized /\ IsPrefix(z, f)
    <3>1. PICK x \in Path : f = z \o x
      BY <1>3, <2>1, <2>2, PrefixIsConcat
    <3>2. PlaceOf(f, z) = m \o x
      BY <1>7, <2>2, <3>1 DEF PlaceOf, m
    <3>3. Same(t, m \o x, b, f)
      BY <1>4, <2>2, <3>1
    <3> QED
      BY <1>5, <1>7, <2>1, <2>2, <3>2, <3>3
  <2>3. CASE ~(Digitized /\ IsPrefix(z, f))
    <3>1. PICK x \in Path : f = c \o x
      BY <1>3, <2>1, PrefixIsConcat
    <3>2. PlaceOf(f, z) = PIPContent \o x
      BY <1>7, <2>3, <3>1 DEF PlaceOf, c
    <3>3. Same(t, PIPContent \o x, b, f)
      BY <1>4, <2>3, <3>1
    <3> QED
      BY <1>5, <1>7, <2>1, <2>3, <3>2, <3>3
  <2> QED
    BY <2>2, <2>3
<1>9. ASSUME NEW q \in Files(t), IsPrefix(PIPContent, q) PROVE \E f \in ContentOf : q = PlaceOf(f, z)
  <2>1. q \in DOMAIN t /\ q \in Path
    BY <1>4 DEF Files
  <2>2. PICK x \in Path : q = PIPContent \o x
    BY <1>3, <1>9, <2>1, PrefixIsConcat
  <2>3. ~(Digitized /\ IsPrefix(z, c \o x)) /\ Same(t, q, b, c \o x)
    BY <1>4, <2>1, <2>2
  <2>4. c \o x \in pkg.files
    BY <1>6, <2>3
  <2>5. c \o x \in ContentOf /\ q = PlaceOf(c \o x, z)
    BY <1>7, <2>2, <2>3, <2>4 DEF ContentOf, PlaceOf, c
  <2> QED
    BY <2>5
<1>10. ASSUME NEW q \in Files(t), IsPrefix(m, q) PROVE \E f \in ContentOf : q = PlaceOf(f, z)
  <2>1. q \in DOMAIN t /\ q \in Path
    BY <1>4 DEF Files
  <2>2. PICK x \in Path : q = m \o x
    BY <1>3, <1>10, <2>1, PrefixIsConcat
  <2>3. Digitized /\ Same(t, q, b, z \o x)
    BY <1>4, <2>1, <2>2
  <2>4. z \o x \in pkg.files /\ IsPrefix(c, z \o x)
    BY <1>3, <1>6, <1>7, <2>2, <2>3, PrefixOrder
  <2>5. z \o x \in ContentOf /\ q = PlaceOf(z \o x, z)
    BY <1>7, <2>2, <2>3, <2>4 DEF ContentOf, PlaceOf, m, c
  <2> QED
    BY <2>5
<1> QED
  BY <1>8, <1>9, <1>10 DEF m

\* The same, in the bag.
LEMMA BagPlaces ==
  ASSUME pkg \in Packages, NEW t, NEW z, Placed(t, Payload(pkg), z), tree = Bagged(t)
  PROVE  /\ ContentFiles = {PIP(PlaceOf(f, z)) : f \in ContentOf}
         /\ \A f \in ContentOf : tree[PIP(PlaceOf(f, z))] = f
         /\ \A q \in Files(t) : PIP(q) \in Files(tree) /\ tree[PIP(q)] = t[q]
<1>1. IsTree(t)
  BY DEF Placed
<1>2. /\ Files(tree) = {<<"data">> \o q : q \in Files(t)} \cup {TagFile}
      /\ \A q \in Files(t) : tree[<<"data">> \o q] = t[q]
  BY <1>1, BaggedFacts
<1>3. \A q \in Files(t) : q \in Path
  BY <1>1 DEF Files, IsTree
<1>4. /\ \A q \in Files(t) : PIP(q) \in Files(tree) /\ tree[PIP(q)] = t[q]
      /\ \A p \in Files(tree) : p = TagFile \/ \E q \in Files(t) : p = PIP(q)
  BY <1>2 DEF PIP
<1>5. /\ <<"data">> \in Path /\ <<"data">> # <<>> /\ TagFile \in Path
      /\ Head(TagFile) = "bagit.txt" /\ "bagit.txt" # "data"
  BY Singleton, PairFacts, Names DEF TagFile
<1>6. \A d \in Path : \A q \in Path : InPIP(PIP(q), d) <=> IsPrefix(d, q)
  BY <1>5, PrefixOfConcat DEF InPIP, PIP
<1>7. \A d \in Path : ~InPIP(TagFile, d)
  <2> TAKE d \in Path
  <2>1. PIP(d) \in Path /\ PIP(d) # <<>> /\ Head(PIP(d)) = "data"
    BY ConsFacts, Names DEF PIP
  <2> QED
    BY <1>5, <2>1, HeadOfPrefix DEF InPIP
<1>8. PIPContent \in Path /\ Metadata(Prozess) \in Path
  BY PlaceFacts, MetadataFacts, Names
<1>9. ASSUME NEW p \in ContentFiles PROVE \E f \in ContentOf : p = PIP(PlaceOf(f, z))
  <2>1. p \in Files(tree) /\ (InPIP(p, PIPContent) \/ InPIP(p, Metadata(Prozess)))
    BY DEF ContentFiles
  <2>2. PICK q \in Files(t) : p = PIP(q)
    BY <1>4, <1>7, <1>8, <2>1
  <2>3. IsPrefix(PIPContent, q) \/ IsPrefix(Metadata(Prozess), q)
    BY <1>3, <1>6, <1>8, <2>1, <2>2
  <2>4. PICK f \in ContentOf : q = PlaceOf(f, z)
    BY <2>3, ContentPlaced
  <2> QED
    BY <2>2, <2>4
<1>10. ASSUME NEW f \in ContentOf
       PROVE  PIP(PlaceOf(f, z)) \in ContentFiles /\ tree[PIP(PlaceOf(f, z))] = f
  <2>1. PICK q : q = PlaceOf(f, z)
    OBVIOUS
  <2>2. /\ q \in Files(t) /\ t[q] = f
        /\ IsPrefix(PIPContent, q) \/ IsPrefix(Metadata(Prozess), q)
    BY <2>1, ContentPlaced
  <2>3. InPIP(PIP(q), PIPContent) \/ InPIP(PIP(q), Metadata(Prozess))
    BY <1>3, <1>6, <1>8, <2>2
  <2> QED
    BY <1>4, <2>1, <2>2, <2>3 DEF ContentFiles
<1> QED
  BY <1>4, <1>9, <1>10

\* The metadata files are at their places, too.
LEMMA MetadataPlaced ==
  ASSUME pkg \in Packages, NEW t, NEW z, Placed(t, Payload(pkg), z)
  PROVE  /\ Layout.metadata \in pkg.files =>
              PIPMetadata \in Files(t) /\ t[PIPMetadata] = Layout.metadata
         /\ \A f \in Layout.added \cap pkg.files :
              Metadata(Last(f)) \in Files(t) /\ t[Metadata(Last(f))] = f
<1> DEFINE b == Payload(pkg)
<1>1. /\ IsTree(b) /\ Files(b) = pkg.files /\ \A f \in pkg.files : b[f] = f
  BY PayloadFacts
<1>2. \A f \in pkg.files : f \in DOMAIN b /\ f # Dir
  BY <1>1 DEF Files, IsTree
<1>3. <<>> \in Path /\ \A a \in Path : a \o <<>> = a
  BY ConcatFacts, EmptySeq DEF Path
<1> HIDE DEF b
<1>4. \A f \in pkg.files : \A q : Same(t, q, b, f) => q \in Files(t) /\ t[q] = f
  BY <1>1, <1>2 DEF Same, Files
<1>5. ASSUME Layout.metadata \in pkg.files
      PROVE  PIPMetadata \in Files(t) /\ t[PIPMetadata] = Layout.metadata
  <2>1. Same(t, PIPMetadata \o <<>>, b, Layout.metadata \o <<>>)
    BY <1>3 DEF Placed, b
  <2>2. Same(t, PIPMetadata, b, Layout.metadata)
    BY <1>3, <2>1, PlaceFacts, LayoutFacts
  <2> QED
    BY <1>4, <1>5, <2>2
<1>6. ASSUME NEW f \in Layout.added, f \in pkg.files
      PROVE  Metadata(Last(f)) \in Files(t) /\ t[Metadata(Last(f))] = f
  <2>1. IsAIP /\ \E n \in {Updated, LogicalMD} : f = AddedPath(n)
    BY <1>6, LayoutFacts
  <2>2. PICK n \in {Updated, LogicalMD} : f = AddedPath(n)
    BY <2>1
  <2>3. Same(t, Metadata(n) \o <<>>, b, AddedPath(n) \o <<>>)
    BY <1>3, <2>1 DEF Placed, b
  <2>4. Metadata(n) \in Path /\ AddedPath(n) \in Path /\ Last(f) = n
    BY <2>2, MetadataFacts, AddedFacts, Names
  <2>5. Same(t, Metadata(n), b, f)
    BY <1>3, <2>2, <2>3, <2>4
  <2> QED
    BY <1>4, <1>6, <2>4, <2>5
<1> QED
  BY <1>5, <1>6

\* The content files are the ones the verified manifest lists in the content
\* directory.
LEMMA ListedContent ==
  ASSUME pkg \in Packages, Checked
  PROVE  {f \in Listing : IsPrefix(Layout.content, f)} = ContentOf
<1> DEFINE b == Payload(pkg)
<1>1. IsTree(b) /\ Files(b) = pkg.files
  BY PayloadFacts
<1>2. Listing = IF IsAIP THEN Files(b) \cap Below(b, <<"content">>)
                ELSE Files(b) \ {<<"header", "metadata.xml">>}
  BY DEF Checked, Verified
<1> HIDE DEF b
<1>3. CASE IsAIP
  <2>1. Layout.content = <<"content", "content">>
    BY <1>3 DEF Layout
  <2>2. IsPrefix(<<"content">>, Layout.content) /\ <<"content">> \in Path /\ Layout.content \in Path
    BY <2>1, PairFacts, Names, LayoutFacts
  <2>3. \A f \in pkg.files : IsPrefix(Layout.content, f) => f \in Below(b, <<"content">>)
    <3> TAKE f \in pkg.files
    <3>1. f \in DOMAIN b /\ f \in Path
      BY <1>1 DEF Files, IsTree
    <3> QED
      BY <2>2, <3>1, PrefixOrder DEF Below
  <2> QED
    BY <1>1, <1>2, <1>3, <2>3 DEF ContentOf
<1>4. CASE ~IsAIP
  <2>1. Layout.metadata = <<"header", "metadata.xml">>
    BY <1>4 DEF Layout
  <2>2. ~IsPrefix(Layout.content, Layout.metadata)
    BY LayoutFacts DEF Apart
  <2> QED
    BY <1>1, <1>2, <1>4, <2>1, <2>2 DEF ContentOf
<1> QED
  BY <1>3, <1>4

\* A path goes on where another one ends.
LEMMA ConcatAssociates ==
  ASSUME NEW a \in Path, NEW b \in Path, NEW c \in Path
  PROVE  (a \o b) \o c = a \o (b \o c)
BY ConcatAssociative DEF Path

\* What was moved with Prozess_Digitalisierung_PREMIS.xml is where its directory
\* would have it, if that were the metadata directory.
LEMMA ProzessRebased ==
  ASSUME NEW z \in Path, z # <<>>, Last(z) = Prozess, NEW x \in Path
  PROVE  /\ Parent(z) \in Prefixes(z \o x)
         /\ Rebase(z \o x, Parent(z), <<"metadata">>) = Metadata(Prozess) \o x
<1>1. PICK d \in Path, e \in Path : d = Parent(z) /\ e = <<Prozess>> /\ z = d \o e
  BY ParentFacts
<1>2. PICK r \in Path : r = <<"metadata">>
  BY PlaceFacts
<1>3. PICK y \in Path : y = e \o x
  BY ConcatProperties DEF Path
<1>4. (d \o e) \o x = d \o y /\ (r \o e) \o x = r \o y
  <2>1. (d \o e) \o x = d \o (e \o x)
    BY ConcatAssociates, ZenonT(60)
  <2>2. (r \o e) \o x = r \o (e \o x)
    BY ConcatAssociates, ZenonT(60)
  <2> QED
    BY <1>3, <2>1, <2>2
<1>5. IsPrefix(d, d \o y) /\ d \o y \in Path /\ Rebase(d \o y, d, r) = r \o y
  <2>1. Rebase(d \o y, d, r) = r \o y
    BY RebaseFacts
  <2>2. IsPrefix(d, d \o y) /\ d \o y \in Path
    BY PrefixOfConcat
  <2> QED
    BY <2>1, <2>2
<1>6. r \o e = Metadata(Prozess)
  BY <1>1, <1>2, PairIsConcat, Names DEF Metadata
<1>7. d \in Prefixes(d \o y)
  BY <1>5, PrefixesFacts
<1> QED
  BY <1>1, <1>2, <1>4, <1>5, <1>6, <1>7

\* The built package holds exactly the content that the verified manifest lists,
\* at its place and with the checksums the manifest gives.
THEOREM PIPIsTheManifests == Spec => []PIPMatchesManifest
<1>1. ASSUME PackageInv, pc = "built" PROVE PIPMatchesManifest
  <2>1. /\ pkg \in Packages /\ Described /\ Checked
        /\ \E t, z : Placed(t, Payload(pkg), z) /\ tree = Bagged(t)
    BY <1>1 DEF PackageInv, Progress, BagOfPIP, Described
  <2>2. PICK t, z : Placed(t, Payload(pkg), z) /\ tree = Bagged(t)
    BY <2>1
  <2>3. /\ ContentFiles = {PIP(PlaceOf(f, z)) : f \in ContentOf}
        /\ \A f \in ContentOf : tree[PIP(PlaceOf(f, z))] = f
        /\ \A q \in Files(t) : PIP(q) \in Files(tree) /\ tree[PIP(q)] = t[q]
    BY <2>1, <2>2, BagPlaces
  <2>4. {f \in Listing : IsPrefix(Layout.content, f)} = ContentOf
    BY <2>1, ListedContent
  <2>5. {tree[p] : p \in ContentFiles} = ContentOf
    BY <2>3
  <2>6. ContentOf \cap pkg.corrupt = {}
    BY <2>1, <2>4 DEF Checked, Verified
  <2>7. ASSUME NEW p \in ContentFiles
        PROVE  IF InPIP(p, Metadata(Prozess))
               THEN \E d \in Prefixes(tree[p]) : p = PIP(Rebase(tree[p], d, <<"metadata">>))
               ELSE p = PIP(Rebase(tree[p], Layout.content, PIPContent))
    <3>1. PICK f \in ContentOf : p = PIP(PlaceOf(f, z)) /\ tree[p] = f
      BY <2>3
    <3>2. f \in Path
      BY <2>1, PackageFacts DEF ContentOf
    <3>3. z \in Path /\ z # <<>> /\ Last(z) = Prozess
      BY <2>2 DEF Placed
    <3>4. CASE Digitized /\ IsPrefix(z, f)
      <4>1. PICK x \in Path : f = z \o x
        BY <3>2, <3>3, <3>4, PrefixIsConcat
      <4>2. /\ Parent(z) \in Prefixes(f)
            /\ Rebase(f, Parent(z), <<"metadata">>) = Metadata(Prozess) \o x
        BY <3>3, <4>1, ProzessRebased
      <4>7. PlaceOf(f, z) = Metadata(Prozess) \o x
        BY <3>3, <3>4, <4>1, RebaseFacts DEF PlaceOf
      <4>8. /\ p = PIP(Rebase(tree[p], Parent(z), <<"metadata">>))
            /\ Parent(z) \in Prefixes(tree[p])
        BY <3>1, <4>2, <4>7
      <4>9. InPIP(p, Metadata(Prozess))
        <5>1. Metadata(Prozess) \in Path /\ <<"data">> \in Path
          BY MetadataFacts, PairFacts, Names
        <5> QED
          BY <3>1, <4>7, <5>1, PrefixOfConcat DEF InPIP, PIP
      <4> QED
        BY <4>8, <4>9
    <3>5. CASE ~(Digitized /\ IsPrefix(z, f))
      <4>1. PlaceOf(f, z) = Rebase(f, Layout.content, PIPContent)
        BY <3>5 DEF PlaceOf
      <4>2. IsPrefix(PIPContent, PlaceOf(f, z)) /\ PlaceOf(f, z) \in Path
        <5>1. IsPrefix(PIPContent, PlaceOf(f, z)) /\ PlaceOf(f, z) \in Files(t)
          BY <2>1, <2>2, <3>5, ContentPlaced
        <5> QED
          BY <2>2, <5>1 DEF Placed, Files, IsTree
      <4>3. ~InPIP(p, Metadata(Prozess))
        <5>1. /\ Metadata(Prozess) \in Path /\ Metadata(Prozess) # <<>> /\ <<"data">> \in Path
              /\ Head(Metadata(Prozess)) = "metadata"
              /\ PIPContent \in Path /\ PIPContent # <<>> /\ Head(PIPContent) = "objects"
          BY MetadataFacts, PairFacts, Names, PlaceFacts
        <5>2. ~IsPrefix(Metadata(Prozess), PlaceOf(f, z))
          BY <4>2, <5>1, HeadOfPrefix
        <5> QED
          BY <3>1, <4>2, <5>1, <5>2, PrefixOfConcat DEF InPIP, PIP
      <4> QED
        BY <3>1, <4>1, <4>3
    <3> QED
      BY <3>4, <3>5
  <2>8. /\ Layout.metadata \in pkg.files =>
             PIPMetadata \in Files(t) /\ t[PIPMetadata] = Layout.metadata
        /\ \A f \in Layout.added \cap pkg.files :
             Metadata(Last(f)) \in Files(t) /\ t[Metadata(Last(f))] = f
    BY <2>1, <2>2, MetadataPlaced
  <2>9. /\ Layout.metadata \in pkg.files => tree[PIP(Append(PIPHeader, "metadata.xml"))] = Layout.metadata
        /\ \A f \in Layout.added \cap pkg.files : tree[PIP(Metadata(Last(f)))] = f
    BY <2>3, <2>8 DEF PIPMetadata
  <2> QED
    BY <2>4, <2>5, <2>6, <2>7, <2>9 DEF PIPMatchesManifest, Listing
<1>2. PackageInv => PIPMatchesManifest
  BY <1>1 DEF PIPMatchesManifest
<1> QED
  BY <1>2, PackageInvariant, PTL

\* In an unambiguous package the file that goes to the metadata directory is the
\* one with that name, and nothing is below it.
LEMMA TheProzessFile ==
  ASSUME pkg \in Packages, Typed(Payload(pkg)), Unambiguous,
         NEW z \in Path, Last(z) = Prozess, z # <<>>, IsPrefix(Layout.content, z),
         Digitized => z \in DOMAIN Payload(pkg)
  PROVE  /\ Digitized => z \in ContentOf
         /\ \A f \in ContentOf : (Digitized /\ IsPrefix(z, f) <=> Last(f) = Prozess)
                                 /\ (Last(f) = Prozess => f = z)
<1> DEFINE b == Payload(pkg)
           entries == {p \in pkg.files \cup pkg.dirs : IsPrefix(Layout.content, p)}
<1>1. /\ IsTree(b) /\ Files(b) = pkg.files /\ DOMAIN b = Spanned(pkg.files \cup pkg.dirs)
  BY PayloadFacts
<1>2. /\ pkg.files \subseteq Path \ {<<>>} /\ pkg.dirs \subseteq Path \ {<<>>}
      /\ \A f \in pkg.files : \A p \in pkg.files \cup pkg.dirs : IsPrefix(f, p) => p = f
  BY PackageFacts
<1>3. \A p, q \in entries :
        /\ Last(p) = Prozess /\ Last(q) = Prozess => p = q
        /\ \A i \in 1..Len(p) : p[i] = Prozess => p \in pkg.files /\ i = Len(p)
  BY DEF Unambiguous
<1>4. Layout.content \in Path
  BY LayoutFacts
<1>5. ASSUME Digitized PROVE z \in ContentOf
  <2>1. PICK e \in pkg.files \cup pkg.dirs : IsPrefix(z, e)
    BY <1>1, <1>5 DEF Spanned
  <2>2. e \in Path /\ e \in entries
    BY <1>2, <1>4, <2>1, PrefixOrder
  <2>3. /\ Len(z) <= Len(e) /\ \A i \in 1..Len(z) : z[i] = e[i]
        /\ Len(z) \in Nat /\ Len(e) \in Nat /\ Len(z) # 0
    BY <2>1, <2>2, PrefixByNames
  <2>4. Last(z) = z[Len(z)]
    BY DEF Last
  <2>5. Len(z) \in 1..Len(z) /\ Len(z) \in 1..Len(e)
    BY <2>3
  <2>6. e[Len(z)] = Prozess
    BY <2>3, <2>4, <2>5
  <2>7. e \in pkg.files /\ Len(z) = Len(e)
    BY <1>3, <2>2, <2>5, <2>6
  <2>8. IsPrefix(e, z)
    BY <2>2, <2>3, <2>7, PrefixByNames
  <2>9. z = e
    BY <2>1, <2>2, <2>8, PrefixOrder
  <2> QED
    BY <2>7, <2>9 DEF ContentOf
<1>6. ASSUME NEW f \in ContentOf
      PROVE  (Digitized /\ IsPrefix(z, f) <=> Last(f) = Prozess) /\ (Last(f) = Prozess => f = z)
  <2>1. f \in pkg.files /\ f \in entries /\ f \in Path
    BY <1>2 DEF ContentOf
  <2>2. ASSUME Digitized, IsPrefix(z, f) PROVE Last(f) = Prozess
    <3>1. z \in pkg.files
      BY <1>5, <2>2 DEF ContentOf
    <3> QED
      BY <1>2, <2>1, <2>2, <3>1
  <2>3. ASSUME Last(f) = Prozess PROVE Digitized /\ f = z
    <3>1. Digitized
      <4>1. f \in DOMAIN b
        BY <1>1, <2>1 DEF Files
      <4> QED
        BY <2>3, <4>1 DEF Typed
    <3>2. z \in entries
      BY <1>5, <3>1 DEF ContentOf
    <3> QED
      BY <1>3, <2>1, <2>3, <3>1, <3>2
  <2>4. IsPrefix(z, z)
    BY PrefixOrder
  <2> QED
    BY <2>2, <2>3, <2>4
<1> QED
  BY <1>5, <1>6

\* That file is at the place that the code gives it by its name.
LEMMA ProzessPlace ==
  ASSUME NEW z \in Path, Digitized
  PROVE  PlaceOf(z, z) = Metadata(Prozess)
<1>1. IsPrefix(z, z) /\ z \o <<>> = z /\ <<>> \in Path
  BY PrefixOrder, ConcatFacts, EmptySeq DEF Path
<1>2. Metadata(Prozess) \o <<>> = Metadata(Prozess)
  BY ConcatEmptySeq, MetadataFacts, Names DEF Path
<1>3. PICK m : m = Metadata(Prozess)
  OBVIOUS
<1>4. Rebase(z \o <<>>, z, m) = m \o <<>>
  BY <1>1, RebaseFacts
<1> QED
  BY <1>1, <1>2, <1>3, <1>4 DEF PlaceOf

\* The objects of premis.xml have the names of the content files in the bag.
THEOREM PremisNames == Spec => []PremisNamesFiles
<1>1. ASSUME PackageInv, pc = "built", Unambiguous PROVE objects = ContentFiles
  <2>1. /\ pkg \in Packages /\ Described /\ Typed(Payload(pkg))
        /\ \E t, z : Placed(t, Payload(pkg), z) /\ tree = Bagged(t)
    BY <1>1 DEF PackageInv, Progress, BagOfPIP, Described, Checked
  <2>2. PICK t, z : Placed(t, Payload(pkg), z) /\ tree = Bagged(t)
    BY <2>1
  <2>3. ContentFiles = {PIP(PlaceOf(f, z)) : f \in ContentOf}
    BY <2>1, <2>2, BagPlaces
  <2>4. /\ z \in Path /\ z # <<>> /\ Last(z) = Prozess /\ IsPrefix(Layout.content, z)
        /\ Digitized => z \in DOMAIN Payload(pkg)
    BY <2>2 DEF Placed
  <2>5. \A f \in ContentOf : (Digitized /\ IsPrefix(z, f) <=> Last(f) = Prozess)
                             /\ (Last(f) = Prozess => f = z)
    BY <1>1, <2>1, <2>4, TheProzessFile
  <2>6. ASSUME NEW f \in ContentOf PROVE OriginalName(f) = PIP(PlaceOf(f, z))
    <3>1. CASE Last(f) = Prozess
      <4>1. f = z /\ Digitized /\ IsPrefix(z, f)
        BY <2>5, <3>1
      <4>2. PlaceOf(f, z) = Metadata(Prozess)
        BY <2>4, <4>1, ProzessPlace
      <4> QED
        BY <3>1, <4>2 DEF OriginalName, PIP
    <3>2. CASE Last(f) # Prozess
      BY <2>5, <3>2 DEF OriginalName, PlaceOf, PIP
    <3> QED
      BY <3>1, <3>2
  <2>7. Files(Payload(pkg)) \cap Below(Payload(pkg), Layout.content) = ContentOf
    BY <2>1, PayloadFacts DEF Files, Below, ContentOf
  <2>8. objects = {OriginalName(f) : f \in ContentOf}
    BY <2>1, <2>7 DEF Described, NamesOf
  <2> QED
    BY <2>3, <2>6, <2>8
<1>2. PackageInv => PremisNamesFiles
  BY <1>1 DEF PremisNamesFiles
<1> QED
  BY <1>2, PackageInvariant, PTL

\* Where the paths of a manifest begin (getManifest), and the directory beside
\* which TransformSIP puts the content.
ManifestRoot == IF IsAIP THEN <<"content">> ELSE <<>>
ObjectsDir == <<"objects", Name>>

\* A directory of the PIP is in the objects directory.
LEMMA ObjectsPaths ==
  ASSUME NEW n \in FileName
  PROVE  <<"objects", Name, n>> = ObjectsDir \o <<n>>
<1>1. PICK a \in FileName : a = "objects"
  BY Names
<1>2. Name \in FileName
  BY Names
<1>3. <<a, Name>> = <<a>> \o <<Name>>
  BY <1>2, PairIsConcat
<1>4. <<Name, n>> = <<Name>> \o <<n>>
  BY <1>2, PairIsConcat
<1>5. <<a, Name, n>> = <<a>> \o <<Name, n>>
  BY <1>2, TripleIsConcat
<1>6. <<a>> \in Path /\ <<Name>> \in Path /\ <<n>> \in Path
  BY <1>2, Singleton
<1>7. (<<a>> \o <<Name>>) \o <<n>> = <<a>> \o (<<Name>> \o <<n>>)
  BY <1>6, ConcatAssociates, Zenon
<1> QED
  BY <1>1, <1>3, <1>4, <1>5, <1>7 DEF ObjectsDir

\* A manifest's path lies in the content directory if that is its first name,
\* and its place in the PIP is then what convertSIPPath says.
LEMMA ManifestPaths ==
  ASSUME NEW q \in Path, q # <<>>
  PROVE  /\ ManifestRoot \o q \in Path /\ Last(ManifestRoot \o q) = Last(q)
         /\ IsPrefix(Layout.content, ManifestRoot \o q) <=> Head(q) = "content"
         /\ IsPrefix(PIPContent, ObjectsDir \o q) <=> Head(q) = "content"
         /\ IsPrefix(PIPHeader, ObjectsDir \o q) <=> Head(q) = "header"
         /\ Head(q) = "content" =>
              Rebase(ManifestRoot \o q, Layout.content, PIPContent) = ObjectsDir \o q
<1>1. PICK r \in Path, o \in Path, c \in Path, h \in Path :
        r = ManifestRoot /\ o = ObjectsDir /\ c = <<"content">> /\ h = <<"header">>
  BY Singleton, EmptySeq, PlaceFacts, Names DEF ManifestRoot, ObjectsDir, Path
<1>2. Layout.content = r \o c
  <2>1. CASE IsAIP
    BY <1>1, <2>1, PairIsConcat, Names DEF Layout, ManifestRoot
  <2>2. CASE ~IsAIP
    <3>1. <<>> \o c = c
      BY <1>1, ConcatEmptySeq DEF Path
    <3> QED
      BY <1>1, <2>2, <3>1 DEF Layout, ManifestRoot
  <2> QED
    BY <2>1, <2>2
<1>3. PIPContent = o \o c /\ PIPHeader = o \o h
  BY <1>1, ObjectsPaths, Names DEF ObjectsDir, PIPContent, PIPHeader
<1>4. (IsPrefix(c, q) <=> Head(q) = "content") /\ (IsPrefix(h, q) <=> Head(q) = "header")
  BY <1>1, HeadFacts, Names
<1>5. r \o q \in Path /\ (IsPrefix(r \o c, r \o q) <=> IsPrefix(c, q))
  BY PrefixOfConcat
<1>6. IsPrefix(o \o c, o \o q) <=> IsPrefix(c, q)
  BY PrefixOfConcat
<1>7. IsPrefix(o \o h, o \o q) <=> IsPrefix(h, q)
  BY PrefixOfConcat
<1>8. Last(r \o q) = Last(q)
  BY ParentOfConcat
<1>9. ASSUME Head(q) = "content" PROVE Rebase(r \o q, r \o c, o \o c) = o \o q
  <2>1. PICK x \in Path : q = c \o x
    BY <1>4, <1>9, PrefixIsConcat
  <2>2. (r \o c) \o x = r \o q
    BY <2>1, ConcatAssociates, ZenonT(100)
  <2>3. (o \o c) \o x = o \o q
    BY <2>1, ConcatAssociates, ZenonT(100)
  <2>4. r \o c \in Path
    BY PrefixOfConcat
  <2>5. Rebase((r \o c) \o x, r \o c, o \o c) = (o \o c) \o x
    BY <2>4, RebaseFacts
  <2> QED
    BY <2>2, <2>3, <2>5
<1> QED
  BY <1>1, <1>2, <1>3, <1>4, <1>5, <1>6, <1>7, <1>8, <1>9

\* Except for a BornDigitalAIP, identifiers.json is made from the manifest that
\* was verified, so its paths are those of submitted files.
LEMMA ListedPaths ==
  ASSUME pkg \in Packages, Checked, type # "BornDigitalAIP"
  PROVE  /\ \A q \in pkg.listed[IdentifiersManifest] :
              q \in Path /\ q # <<>> /\ ManifestRoot \o q \in pkg.files
         /\ \A f \in ContentOf : \E q \in pkg.listed[IdentifiersManifest] :
              f = ManifestRoot \o q
<1> DEFINE b == Payload(pkg)
<1>1. type \in Types /\ IsTree(b) /\ Files(b) = pkg.files
  BY PayloadFacts DEF Checked, Typed
<1>2. Last(Layout.manifest) = IdentifiersManifest
  <2>1. CASE IsAIP
    <3>1. Layout.manifest = AddedPath(Updated) /\ Last(AddedPath(Updated)) = Updated
      BY <2>1, LayoutFacts, AddedFacts, Names
    <3> QED
      BY <1>1, <2>1, <3>1 DEF IsAIP, IdentifiersManifest
  <2>2. CASE ~IsAIP
    BY <1>1, <2>2 DEF Layout, Last, IsAIP, IdentifiersManifest
  <2> QED
    BY <2>1, <2>2
<1>3. IdentifiersManifest \in {"metadata.xml", Updated}
  BY DEF IdentifiersManifest
<1>4. pkg.listed[IdentifiersManifest] \subseteq Path \ {<<>>}
  BY <1>3, PackageFacts
<1>5. Listing = {ManifestRoot \o q : q \in pkg.listed[IdentifiersManifest]}
  BY <1>2 DEF Listing, ManifestRoot
<1>6. Listing \subseteq pkg.files
  BY <1>1 DEF Checked, Verified
<1>7. \A f \in ContentOf : f \in Listing
  BY ListedContent
<1> QED
  BY <1>4, <1>5, <1>6, <1>7

\* The place that convertSIPPath finds, by the last name of the path.
LEMMA ConvertFacts ==
  ASSUME NEW q \in Path, q # <<>>
  PROVE  /\ Last(q) = Prozess => ConvertSIPPath(q) = Metadata(Prozess)
         /\ Last(q) = Updated => ConvertSIPPath(q) = Metadata(Updated)
         /\ Last(q) = "metadata.xml" => ConvertSIPPath(q) = PIPMetadata
         /\ Last(q) \notin {Prozess, Updated, "metadata.xml"} =>
              ConvertSIPPath(q) = IF Head(q) \in ContentNames THEN ObjectsDir \o q ELSE <<>>
         /\ ConvertSIPPath(q) \in Path
<1>1. Prozess # Updated /\ Prozess # "metadata.xml" /\ Updated # "metadata.xml"
  BY DEF Prozess, Updated
<1>2. ASSUME Last(q) = Prozess PROVE ConvertSIPPath(q) = Metadata(Prozess)
  BY <1>1, <1>2 DEF ConvertSIPPath
<1>3. ASSUME Last(q) = Updated PROVE ConvertSIPPath(q) = Metadata(Updated)
  BY <1>1, <1>3 DEF ConvertSIPPath
<1>4. ASSUME Last(q) = "metadata.xml" PROVE ConvertSIPPath(q) = PIPMetadata
  BY <1>1, <1>4 DEF ConvertSIPPath, PIPMetadata
<1>5. ASSUME Last(q) \notin {Prozess, Updated, "metadata.xml"}
      PROVE  ConvertSIPPath(q) = IF Head(q) \in ContentNames THEN ObjectsDir \o q ELSE <<>>
  BY <1>5 DEF ConvertSIPPath, ObjectsDir
<1>6. Metadata(Prozess) \in Path /\ Metadata(Updated) \in Path
  BY MetadataFacts, Names
<1>7. PIPMetadata \in Path /\ <<>> \in Path
  BY PlaceFacts, EmptySeq DEF Path
<1>8. ObjectsDir \o q \in Path
  BY PlaceFacts, PrefixOfConcat DEF ObjectsDir
<1> QED
  BY <1>2, <1>3, <1>4, <1>5, <1>6, <1>7, <1>8

\* In an unambiguous package every file that identifiers.json names, and that is
\* in one of the directories of the PIP, is there.
LEMMA NamedAreThere ==
  ASSUME pkg \in Packages, Checked, type # "BornDigitalAIP", Unambiguous,
         NEW t, NEW z, Placed(t, Payload(pkg), z),
         NEW q \in pkg.listed[IdentifiersManifest], NEW p, p = ConvertSIPPath(q), p # <<>>,
         IsPrefix(PIPContent, p) \/ IsPrefix(PIPHeader, p) \/ IsPrefix(<<"metadata">>, p)
  PROVE  p \in Files(t)
<1> DEFINE f == ManifestRoot \o q
<1>1. /\ q \in Path /\ q # <<>> /\ f \in pkg.files
      /\ f \in Path /\ Last(f) = Last(q)
      /\ IsPrefix(Layout.content, f) <=> Head(q) = "content"
      /\ Head(q) = "content" => Rebase(f, Layout.content, PIPContent) = ObjectsDir \o q
  BY ListedPaths, ManifestPaths
<1>2. /\ IsPrefix(PIPContent, ObjectsDir \o q) <=> Head(q) = "content"
      /\ IsPrefix(PIPHeader, ObjectsDir \o q) <=> Head(q) = "header"
  BY <1>1, ManifestPaths
<1>3. /\ z \in Path /\ z # <<>> /\ Last(z) = Prozess /\ IsPrefix(Layout.content, z)
      /\ Digitized => z \in DOMAIN Payload(pkg)
  BY DEF Placed
<1>4. Typed(Payload(pkg)) /\ IsTree(Payload(pkg)) /\ Files(Payload(pkg)) = pkg.files
  BY PayloadFacts DEF Checked
<1>5. /\ Digitized => z \in ContentOf
      /\ \A g \in ContentOf : Digitized /\ IsPrefix(z, g) <=> Last(g) = Prozess
  <2>1. /\ Digitized => z \in ContentOf
        /\ \A g \in ContentOf : (Digitized /\ IsPrefix(z, g) <=> Last(g) = Prozess)
                                /\ (Last(g) = Prozess => g = z)
    BY <1>3, <1>4, TheProzessFile
  <2> QED
    BY <2>1
<1>6. \A g \in ContentOf : PlaceOf(g, z) \in Files(t)
  BY ContentPlaced
<1> HIDE DEF f
<1>8. CASE Last(q) = Prozess
  <2>1. p = Metadata(Prozess)
    BY <1>1, <1>8, ConvertFacts
  <2>2. Digitized
    <3>1. f \in DOMAIN Payload(pkg)
      BY <1>1, <1>4 DEF Files
    <3> QED
      BY <1>1, <1>4, <1>8, <3>1 DEF Typed
  <2>3. PlaceOf(z, z) = p
    BY <1>3, <2>1, <2>2, ProzessPlace
  <2> QED
    BY <1>5, <1>6, <2>2, <2>3
<1>9. CASE Last(q) = Updated
  <2>1. p = Metadata(Last(f))
    BY <1>1, <1>9, ConvertFacts
  <2>2. f \in Layout.added \cap pkg.files
    BY <1>1, <1>9 DEF Unambiguous
  <2> QED
    BY <2>1, <2>2, MetadataPlaced
<1>10. CASE Last(q) = "metadata.xml"
  <2>1. p = PIPMetadata
    BY <1>1, <1>10, ConvertFacts
  <2>2. Layout.metadata \in pkg.files
    BY DEF Unambiguous
  <2> QED
    BY <2>1, <2>2, MetadataPlaced
<1>11. CASE Last(q) \notin {Prozess, Updated, "metadata.xml"}
  <2>1. Head(q) \in ContentNames /\ p = ObjectsDir \o q
    BY <1>1, <1>11, ConvertFacts
  <2>2. Head(q) # "header"
    BY <2>1, NamesAreNames
  <2>3. ~IsPrefix(<<"metadata">>, p)
    <3>1. ObjectsDir \in Path /\ ObjectsDir # <<>> /\ Head(ObjectsDir) = "objects"
      BY PlaceFacts DEF ObjectsDir
    <3>2. p \in Path /\ IsPrefix(ObjectsDir, p)
      BY <1>1, <2>1, <3>1, PrefixOfConcat
    <3>3. p # <<>> /\ Head(p) = "objects"
      BY <3>1, <3>2, HeadOfPrefix
    <3>4. <<"metadata">> \in Path /\ <<"metadata">> # <<>> /\ Head(<<"metadata">>) = "metadata"
      BY PlaceFacts
    <3> QED
      BY <3>2, <3>3, <3>4, HeadOfPrefix
  <2>4. Head(q) = "content"
    BY <1>2, <2>1, <2>2, <2>3
  <2>5. f \in ContentOf /\ Last(f) # Prozess
    BY <1>1, <1>11, <2>4 DEF ContentOf
  <2>6. PlaceOf(f, z) = p
    BY <1>1, <1>5, <2>1, <2>4, <2>5 DEF PlaceOf
  <2> QED
    BY <1>6, <2>5, <2>6
<1> QED
  BY <1>8, <1>9, <1>10, <1>11

\* In an unambiguous package every content file is named at its place.
LEMMA ContentIsNamed ==
  ASSUME pkg \in Packages, Checked, type # "BornDigitalAIP", Unambiguous,
         NEW t, NEW z, Placed(t, Payload(pkg), z), NEW f \in ContentOf
  PROVE  PlaceOf(f, z) \in ConvertedPaths
<1>1. PICK q \in pkg.listed[IdentifiersManifest] : f = ManifestRoot \o q
  BY ListedPaths
<1>2. q \in Path /\ q # <<>> /\ f \in pkg.files /\ IsPrefix(Layout.content, f)
  BY ListedPaths DEF ContentOf
<1>3. /\ Last(f) = Last(q) /\ Head(q) = "content"
      /\ Rebase(f, Layout.content, PIPContent) = ObjectsDir \o q
  BY <1>1, <1>2, ManifestPaths
<1>4. /\ z \in Path /\ z # <<>> /\ Last(z) = Prozess /\ IsPrefix(Layout.content, z)
      /\ Digitized => z \in DOMAIN Payload(pkg)
  BY DEF Placed
<1>5. Typed(Payload(pkg))
  BY DEF Checked
<1>6. (Digitized /\ IsPrefix(z, f) <=> Last(f) = Prozess) /\ (Last(f) = Prozess => f = z)
  BY <1>4, <1>5, TheProzessFile
<1>7. PlaceOf(f, z) = ConvertSIPPath(q) => PlaceOf(f, z) \in ConvertedPaths
  <2>1. \A g \in ContentOf : PlaceOf(g, z) \in Files(t)
    BY ContentPlaced
  <2>2. PlaceOf(f, z) # <<>>
    BY <2>1 DEF Placed, IsTree, Files
  <2> QED
    BY <2>2 DEF ConvertedPaths
<1>8. CASE Last(f) = Prozess
  <2>1. f = z /\ Digitized /\ IsPrefix(z, f)
    BY <1>6, <1>8
  <2>2. ConvertSIPPath(q) = Metadata(Prozess)
    BY <1>2, <1>3, <1>8, ConvertFacts
  <2>3. PlaceOf(f, z) = Metadata(Prozess)
    BY <1>4, <2>1, ProzessPlace
  <2> QED
    BY <1>7, <2>2, <2>3
<1>9. CASE Last(f) # Prozess
  <2>1. Last(f) \notin {Updated, "metadata.xml"}
    BY <1>2 DEF Unambiguous
  <2>2. ConvertSIPPath(q) = ObjectsDir \o q
    BY <1>2, <1>3, <1>9, <2>1, NamesAreNames, ConvertFacts
  <2>3. PlaceOf(f, z) = ObjectsDir \o q
    BY <1>3, <1>6, <1>9 DEF PlaceOf
  <2> QED
    BY <1>7, <2>2, <2>3
<1> QED
  BY <1>8, <1>9

\* identifiers.json names the content files of the bag, and nothing in the
\* directories of the PIP that is not there.
THEOREM IdentifiersNames == Spec => []IdentifiersNameFiles
<1>1. ASSUME PackageInv, pc = "built", Unambiguous, type # "BornDigitalAIP",
             NEW t, NEW z, Placed(t, Payload(pkg), z), tree = Bagged(t)
      PROVE  /\ ContentFiles \subseteq {PIP(p) : p \in ids}
             /\ \A p \in ids :
                  InPIP(PIP(p), PIPContent) \/ InPIP(PIP(p), PIPHeader) \/ InPIP(PIP(p), <<"metadata">>)
                    => PIP(p) \in Files(tree)
  <2>1. pkg \in Packages /\ Checked /\ ids = ConvertedPaths
    BY <1>1 DEF PackageInv, Progress, BagOfPIP, Described
  <2>2. /\ ContentFiles = {PIP(PlaceOf(f, z)) : f \in ContentOf}
        /\ \A q \in Files(t) : PIP(q) \in Files(tree)
    BY <1>1, <2>1, BagPlaces
  <2>3. \A f \in ContentOf : PlaceOf(f, z) \in ids
    BY <1>1, <2>1, ContentIsNamed
  <2>4. ASSUME NEW p \in ids,
               InPIP(PIP(p), PIPContent) \/ InPIP(PIP(p), PIPHeader) \/ InPIP(PIP(p), <<"metadata">>)
        PROVE  PIP(p) \in Files(tree)
    <3>1. PICK q \in pkg.listed[IdentifiersManifest] : p = ConvertSIPPath(q) /\ p # <<>>
      BY <2>1 DEF ConvertedPaths
    <3>2. p \in Path
      BY <1>1, <2>1, <3>1, ListedPaths, ConvertFacts
    <3>3. /\ PIPContent \in Path /\ PIPHeader \in Path /\ <<"metadata">> \in Path
          /\ <<"data">> \in Path
      BY PlaceFacts, Singleton, Names
    <3>4. IsPrefix(PIPContent, p) \/ IsPrefix(PIPHeader, p) \/ IsPrefix(<<"metadata">>, p)
      BY <2>4, <3>2, <3>3, PrefixOfConcat DEF InPIP, PIP
    <3>5. p \in Files(t)
      BY <1>1, <2>1, <3>1, <3>4, NamedAreThere
    <3> QED
      BY <2>2, <3>5
  <2> QED
    BY <2>2, <2>3, <2>4
<1>2. PackageInv => IdentifiersNameFiles
  <2> SUFFICES ASSUME PackageInv, pc = "built", Unambiguous, type # "BornDigitalAIP"
               PROVE  LET named == {PIP(p) : p \in ids} IN
                        /\ ContentFiles \subseteq named
                        /\ \A p \in named :
                             InPIP(p, PIPContent) \/ InPIP(p, PIPHeader) \/ InPIP(p, <<"metadata">>)
                               => p \in Files(tree)
    BY DEF IdentifiersNameFiles
  <2>1. PICK t, z : Placed(t, Payload(pkg), z) /\ tree = Bagged(t)
    BY DEF PackageInv, Progress, BagOfPIP
  <2> QED
    BY <1>1, <2>1
<1> QED
  BY <1>2, PackageInvariant, PTL

=============================================================================
