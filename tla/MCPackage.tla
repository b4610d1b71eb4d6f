------------------------------ MODULE MCPackage ------------------------------
(***************************************************************************)
(* TLC instance of Package: packages of the four types, bagged or not,     *)
(* with at most one irregular entry and at most one defect.                *)
(***************************************************************************)
EXTENDS Package

MCName         == "pkg"
MCLogicalMD    == "pkg-premis.xml"
MCBadNames     == {"a b"}
MCContentNames == {"content", "contents"}

Places(aip) ==
  [content |-> IF aip THEN <<"content", "content">> ELSE <<"content">>,
   header  |-> IF aip THEN <<"content", "header">> ELSE <<"header">>]

\* A regular package: one dossier with one file.
Regular(aip, digitized) ==
  LET at == Places(aip) IN
    {at.content \o <<"d1", "f">>, at.header \o <<"xsd", "arelda.xsd">>}
    \cup (IF digitized THEN {at.content \o <<"d1", Prozess>>} ELSE {})
    \cup (IF aip THEN {at.header \o <<"old", "SIP", "metadata.xml">>,
                       <<"additional", Updated>>, <<"additional", MCLogicalMD>>}
          ELSE {at.header \o <<"metadata.xml">>})

\* What may be there beside it.
Irregular(aip) ==
  LET at == Places(aip) IN
    {at.content \o q : q \in {<<"d2", "g">>, <<"g">>, <<"d1", "sub", Prozess>>,
                              <<"d1", "metadata.xml">>, <<"d1", "a b">>}}
    \cup {<<"extra", "g">>, <<"objects">>, <<"data", "g">>}
    \cup IF aip THEN {<<"additional", "g">>, <<"content", "contents", "g">>} ELSE {}

\* What is a file where a directory should be, or the other way round.
Swaps(aip, files) ==
  LET at == Places(aip)
      header == IF aip THEN at.header \o <<"old", "SIP", "metadata.xml">>
                ELSE at.header \o <<"metadata.xml">>
      dossier == at.content \o <<"d1", Prozess>> IN
    {{f \in files : ~IsPrefix(at.content, f)} \cup {at.content, at.header \o <<Prozess>>},
     (files \ {header}) \cup {Append(header, "x")},
     (files \ {dossier}) \cup {dossier \o <<"x">>, dossier \o <<"y", Prozess>>}}

\* The files a manifest that tells the truth lists.
Exact(aip, files) ==
  IF aip THEN {Tail(f) : f \in {g \in files : Head(g) = "content"}}
  ELSE {f \in files : Last(f) # "metadata.xml" \/ f # <<"header", "metadata.xml">>}

\* The manifest of the SIP an AIP was made from, before its files were updated.
Older(exact) == {p \in exact : Head(p) = "content"} \cup {<<"content", "d1", "old">>}

Make(aip, files, dirs, bag, listed, older, corrupt, supported) ==
  [files |-> files, dirs |-> dirs, bag |-> bag, corrupt |-> corrupt,
   supported |-> supported,
   listed |-> [m \in {"metadata.xml", Updated} |->
                 IF aip /\ m = "metadata.xml" THEN older ELSE listed]]

PackagesOf(aip, digitized, bag) ==
  LET at == Places(aip) IN
  UNION {
    LET files == Regular(aip, digitized) \cup extra
        exact == Exact(aip, files)
        older == IF aip THEN Older(exact) ELSE {}
        root  == IF aip THEN <<"content">> ELSE <<>> IN
      {Make(aip, files, {}, bag, exact, older, {}, TRUE),
       Make(aip, files, {at.content \o <<"e">>}, bag, exact, older, {}, TRUE),
       Make(aip, files, {}, bag, exact, older, {}, FALSE),
       Make(aip, files, {}, bag, exact \cup {<<"content", "d1", "ghost">>}, older, {}, TRUE),
       Make(aip, {}, {}, bag, {}, {}, {}, TRUE)}
      \cup {Make(aip, swapped, {}, bag, Exact(aip, swapped), older, {}, TRUE) :
              swapped \in Swaps(aip, files)}
      \cup {Make(aip, files \ {f}, {}, bag, Exact(aip, files \ {f}), older, {}, TRUE) :
              f \in files}
      \cup {Make(aip, files, {}, bag, exact \ {p}, older, {}, TRUE) : p \in exact}
      \cup {Make(aip, files, {}, bag, exact, older, {root \o p}, TRUE) : p \in exact}
    : extra \in {{}} \cup {{f} : f \in Irregular(aip)}}

MCPackages ==
  UNION {PackagesOf(aip, digitized, bag) : aip \in BOOLEAN, digitized \in BOOLEAN,
                                           bag \in BOOLEAN}
=============================================================================
