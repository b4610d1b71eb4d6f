------------------------------- MODULE Package -------------------------------
(***************************************************************************)
(* One package on the shared disk: its file tree through the activities    *)
(* that look at it and change it, in the order the preprocessing workflow  *)
(* calls them.  Unbag, IdentifySIP (sip.New), ValidateStructure,           *)
(* VerifyManifest, AddPREMISObjects, TransformSIP, WriteIdentifierFile and *)
(* BagSIP; the other checks are one nondeterministic verdict.              *)
(*                                                                         *)
(* A path is the sequence of its names.  A tree maps the paths below the   *)
(* package's directory to Dir or to the identity of a file: the path it    *)
(* was submitted at.  The contents of a manifest are part of the package,  *)
(* so is the set of files whose checksum is not the listed one.            *)
(***************************************************************************)
EXTENDS Naturals, Sequences, SequencesExt

CONSTANTS
  Name,         \* the package's directory name
  LogicalMD,    \* its logical metadata file: Name-premis.xml
  BadNames,     \* names with characters that validateName refuses
  ContentNames, \* names that begin with "content"
  Packages      \* the packages that may be submitted

VARIABLES
  pkg,          \* the package as it was submitted
  tree,         \* its directory now
  pc,           \* the activity the workflow calls next
  type,         \* sip.Type
  failures,     \* the kinds of failure the checks have reported
  objects,      \* original names of the objects in premis.xml
  ids           \* file names in identifiers.json

vars == <<pkg, tree, pc, type, failures, objects, ids>>

Dir == <<>>
Prozess == "Prozess_Digitalisierung_PREMIS.xml"
Updated == "UpdatedAreldaMetadata.xml"

\* The names the activities give to files of their own are not the ones they
\* make from the package's.
ASSUME NamesAreNames ==
  /\ Name \in STRING
  /\ LogicalMD \in STRING \ {Prozess, Updated, "premis.xml", "identifiers.json"}
  /\ "content" \in ContentNames /\ "header" \notin ContentNames

-----------------------------------------------------------------------------
(* Trees.                                                                   *)

Files(t) == {p \in DOMAIN t : t[p] # Dir}
Dirs(t)  == {p \in DOMAIN t : t[p] = Dir}
Parent(p) == Front(p)
Children(t, d) == {p \in DOMAIN t : Parent(p) = d}
Below(t, d) == {p \in DOMAIN t : IsPrefix(d, p)}
IsDir(t, p) == p = <<>> \/ p \in Dirs(t)

\* The path p, which is below from, in the directory to.
Rebase(p, from, to) == to \o SubSeq(p, Len(from) + 1, Len(p))

\* The tree that holds the files of f, a function from paths to identities,
\* and the directories D.
TreeOf(f, D) ==
  LET parents == (UNION {Prefixes(p) : p \in DOMAIN f \cup D}) \ {<<>>} IN
    [p \in DOMAIN f \cup parents |-> IF p \in DOMAIN f THEN f[p] ELSE Dir]

\* What os.RemoveAll leaves of the tree, called for each path in D.
Without(t, D) == [p \in {q \in DOMAIN t : \A d \in D : ~IsPrefix(d, q)} |-> t[p]]

\* fsutil.Move: a rename that refuses to replace anything.
CanMove(t, from, to) ==
  from \in DOMAIN t /\ to \notin DOMAIN t /\ IsDir(t, Parent(to)) /\ ~IsPrefix(from, to)

Move(t, from, to) ==
  [p \in (DOMAIN t \ Below(t, from)) \cup {Rebase(q, from, to) : q \in Below(t, from)} |->
     IF IsPrefix(to, p) THEN t[Rebase(p, to, from)] ELSE t[p]]

CanMkdir(t, d) == \A p \in Prefixes(d) : p \notin Files(t)

\* Mutant: the parents are not made.
MkdirOnly(t, d) ==
  [p \in DOMAIN t \cup {d} |-> IF p \in DOMAIN t THEN t[p] ELSE Dir]

\* os.MkdirAll.
MkdirAll(t, d) ==
  [p \in DOMAIN t \cup (Prefixes(d) \ {<<>>}) |-> IF p \in DOMAIN t THEN t[p] ELSE Dir]

\* A file the workflow writes itself.
Write(t, f) == [p \in DOMAIN t \cup {f} |-> IF p = f THEN f ELSE t[p]]

-----------------------------------------------------------------------------
(* The four package types and where their parts are (sip.go).               *)

Types   == {"BornDigitalSIP", "DigitizedSIP", "BornDigitalAIP", "DigitizedAIP"}
IsAIP   == type \in {"BornDigitalAIP", "DigitizedAIP"}
Digitized == type \in {"DigitizedSIP", "DigitizedAIP"}

\* The layouts of digitizedSIP and digitizedAIP, which the born-digital types
\* share.
Layout ==
  IF IsAIP
  THEN [content  |-> <<"content", "content">>,
        metadata |-> <<"content", "header", "old", "SIP", "metadata.xml">>,
        manifest |-> <<"additional", Updated>>,
        xsd      |-> <<"content", "header", "xsd", "arelda.xsd">>,
        added    |-> {<<"additional", Updated>>, <<"additional", LogicalMD>>},
        top      |-> {<<"content">>, <<"additional">>}]
  ELSE [content  |-> <<"content">>,
        metadata |-> <<"header", "metadata.xml">>,
        manifest |-> <<"header", "metadata.xml">>,
        xsd      |-> <<"header", "xsd", "arelda.xsd">>,
        added    |-> {},
        top      |-> {<<"content">>, <<"header">>}]

-----------------------------------------------------------------------------
Steps == {"unbag", "identify", "structure", "manifest", "gate", "premis", "transform",
          "identifiers", "bag", "built", "rejected", "failed"}

FailureKinds == {"empty", "empty directory", "name", "missing", "unexpected", "dossiers",
                 "manifest", "checksum", "schema", "other"}

\* A tree has no orphans: whatever is in it is in a directory of it.  (The
\* package never changes, so its type is Init's.)
TypeOK ==
  /\ \A p \in DOMAIN tree : p # <<>> /\ IsDir(tree, Parent(p))
  /\ pc \in Steps
  /\ type \in Types \cup {"unknown"}
  /\ failures \subseteq FailureKinds

\* A bag holds the package below data/, beside its tag files.
TagFile == <<"bagit.txt">>
Submitted(k) ==
  LET root == IF k.bag THEN <<"data">> ELSE <<>>
      tags == IF k.bag THEN {TagFile} ELSE {}
      payload == {root \o p : p \in k.files} IN
    TreeOf([p \in payload \cup tags |-> IF p \in tags THEN p ELSE Rebase(p, root, <<>>)],
           {root \o d : d \in k.dirs})

\* Nothing is below a file, a package with a bagit.txt is a bag, and a manifest
\* lists paths.
PathSets == SUBSET (Seq(STRING) \ {<<>>})
ASSUME PackagesAreTrees ==
  /\ Packages \subseteq
       [files : PathSets, dirs : PathSets, bag : BOOLEAN, corrupt : PathSets,
        supported : BOOLEAN, listed : [{"metadata.xml", Updated} -> PathSets]]
  /\ \A k \in Packages :
       /\ \A f \in k.files : \A p \in k.files \cup k.dirs : IsPrefix(f, p) => p = f
       /\ k.bag \/ TagFile \notin DOMAIN Submitted(k)

Init ==
  /\ pkg \in Packages
  /\ tree = Submitted(pkg)
  /\ pc = "unbag"
  /\ type = "unknown"
  /\ failures = {}
  /\ objects = {}
  /\ ids = {}

\* Any activity may fail, or lose its worker, without having changed the tree;
\* what one that does change it may leave behind is part of its own action.
Fail ==
  /\ pc \in Steps \ {"built", "rejected", "failed"}
  /\ pc' = "failed"
  /\ UNCHANGED <<pkg, tree, type, failures, objects, ids>>

-----------------------------------------------------------------------------
(* Unbag.                                                                   *)

Entries(t, d) == {Last(p) : p \in Children(t, d)}

\* The payload entries in E, moved up; nothing but data/ is in their way.
MovedUp(t, E) ==
  LET moving == {p \in DOMAIN t : Len(p) > 1 /\ p[1] = "data" /\ p[2] \in E} IN
    [p \in (DOMAIN t \ moving) \cup {Tail(q) : q \in moving} |->
       IF Head(p) \in E THEN t[<<"data">> \o p] ELSE t[p]]

\* Mutant: nothing is deleted before the payload is moved up.
UnbagKeepsTags ==
  /\ pc = "unbag"
  /\ IF TagFile \in DOMAIN tree
     THEN tree' = Without(MovedUp(tree, Entries(tree, <<"data">>)), {<<"data">>})
     ELSE UNCHANGED tree
  /\ pc' = "identify"
  /\ UNCHANGED <<pkg, type, failures, objects, ids>>

\* Only a directory with a bagit.txt is touched.  An error leaves some entries
\* deleted, or all of them and a part of the payload moved up; an entry named
\* data is always in its own way.
Unbag ==
  /\ pc = "unbag"
  /\ LET others  == Children(tree, <<>>) \ {<<"data">>}
         payload == Entries(tree, <<"data">>) IN
       \/ TagFile \notin DOMAIN tree /\ pc' = "identify" /\ UNCHANGED tree
       \/ /\ {TagFile, <<"data">>} \subseteq DOMAIN tree /\ "data" \notin payload
          /\ tree' = Without(MovedUp(Without(tree, others), payload), {<<"data">>})
          /\ pc' = "identify"
       \/ /\ {TagFile, <<"data">>} \subseteq DOMAIN tree
          /\ \/ \E D \in SUBSET others : tree' = Without(tree, D)
             \/ \E E \in SUBSET (payload \ {"data"}) :
                  tree' = MovedUp(Without(tree, others), E)
          /\ pc' = "failed"
  /\ UNCHANGED <<pkg, type, failures, objects, ids>>

-----------------------------------------------------------------------------
(* IdentifySIP, ValidateStructure and VerifyManifest.                       *)

\* sip.New: by the name of a file anywhere, and a directory at the top.
IdentifySIP ==
  /\ pc = "identify"
  /\ LET digitized == \E p \in DOMAIN tree : Last(p) = Prozess
         aip       == <<"additional">> \in DOMAIN tree IN
       type' = IF aip THEN IF digitized THEN "DigitizedAIP" ELSE "BornDigitalAIP"
               ELSE IF digitized THEN "DigitizedSIP" ELSE "BornDigitalSIP"
  /\ pc' = "structure"
  /\ UNCHANGED <<pkg, tree, failures, objects, ids>>

\* Mutant: metadata.xml is not looked for.
RequiredForgetsMetadata == {Layout.content, Layout.xsd} \cup Layout.added

\* The files and directories reportFailures looks for.
Required == {Layout.content, Layout.xsd, Layout.metadata} \cup Layout.added

\* Top-level files are not looked at.
StructureFailures ==
  IF tree = <<>> THEN {"empty"} ELSE
    {k \in FailureKinds :
       \/ k = "empty directory" /\ \E d \in Dirs(tree) : Children(tree, d) = {}
       \/ k = "name" /\ BadNames \cap ({Name} \cup {Last(p) : p \in DOMAIN tree}) # {}
       \/ k = "missing" /\ ~(Required \subseteq DOMAIN tree)
       \/ k = "unexpected" /\ \/ \E d \in Dirs(tree) : Len(d) = 1 /\ d \notin Layout.top
                              \/ \E p \in Files(tree) : Parent(p) = Layout.content
       \/ k = "dossiers" /\ Digitized /\ Layout.content \in Dirs(tree)
            /\ \E d, e \in Children(tree, Layout.content) : d # e}

ValidateStructure ==
  /\ pc = "structure"
  /\ failures' = failures \cup StructureFailures
  /\ pc' = "manifest"
  /\ UNCHANGED <<pkg, tree, type, objects, ids>>

\* The files the manifest at path p lists: the manifest is its file's identity.
Listed(t, p) == pkg.listed[Last(t[p])]

\* getManifest.
ManifestFiles ==
  LET root == IF IsAIP THEN <<"content">> ELSE <<>> IN
    {root \o p : p \in Listed(tree, Layout.manifest)}

\* sipFiles.
SIPFiles ==
  IF IsAIP THEN Files(tree) \cap Below(tree, <<"content">>)
  ELSE Files(tree) \ {<<"header", "metadata.xml">>}

\* Mutant: files that are not in the manifest are not reported.
ManifestFailuresMissingOnly ==
  {k \in FailureKinds :
     \/ k = "manifest" /\ ManifestFiles \ SIPFiles # {}
     \/ k = "checksum" /\ pkg.corrupt \cap ManifestFiles \cap SIPFiles # {}
     \/ k = "schema" /\ ~pkg.supported}

\* missingFiles, unexpectedFiles, verifyChecksums, and the schema version.
ManifestFailures ==
  {k \in FailureKinds :
     \/ k = "manifest" /\ ManifestFiles # SIPFiles
     \/ k = "checksum" /\ pkg.corrupt \cap ManifestFiles \cap SIPFiles # {}
     \/ k = "schema" /\ ~pkg.supported}

\* Without a manifest, or for an AIP without its content, the activity fails.
VerifyManifest ==
  /\ pc = "manifest"
  /\ Layout.manifest \in Files(tree) /\ (IsAIP => <<"content">> \in DOMAIN tree)
  /\ failures' = failures \cup ManifestFailures
  /\ pc' = "gate"
  /\ UNCHANGED <<pkg, tree, type, objects, ids>>

\* The rest of the checks, and the workflow's stop after all of them.
Gate ==
  /\ pc = "gate"
  /\ \E others \in SUBSET {"other"} :
       /\ failures' = failures \cup others
       /\ pc' = IF failures' = {} THEN "premis" ELSE "rejected"
  /\ UNCHANGED <<pkg, tree, type, objects, ids>>

-----------------------------------------------------------------------------
(* AddPREMISObjects.                                                        *)

Metadata(name) == <<"metadata", name>>
PIPContent == <<"objects", Name, "content">>
PIPHeader  == <<"objects", Name, "header">>

\* Mutant: Prozess_Digitalisierung_PREMIS.xml is a file like any other.
OriginalNameAlwaysContent(p) == <<"data">> \o Rebase(p, Layout.content, PIPContent)

\* OriginalNameForSubpath, for the file p of the content directory.
OriginalName(p) ==
  <<"data">> \o (IF Last(p) = Prozess THEN Metadata(Prozess)
                 ELSE Rebase(p, Layout.content, PIPContent))

\* FilesWithinDirectory, named; an object is added once for each name.
ObjectNames == {OriginalName(p) : p \in Files(tree) \cap Below(tree, Layout.content)}

\* An error may leave the new directory, with or without part of the document.
AddPREMISObjects ==
  /\ pc = "premis"
  /\ Layout.content \in DOMAIN tree /\ CanMkdir(tree, <<"metadata">>)
  /\ LET made == MkdirAll(tree, <<"metadata">>)
         written == Write(made, Metadata("premis.xml")) IN
       \/ /\ Layout.manifest \in Files(tree)
          /\ tree' = written /\ objects' = ObjectNames /\ pc' = "transform"
       \/ tree' \in {made, written} /\ pc' = "failed" /\ UNCHANGED objects
  /\ UNCHANGED <<pkg, type, failures, ids>>

-----------------------------------------------------------------------------
(* TransformSIP.                                                            *)

Mkdir(d) == [op |-> "mkdir", from |-> <<>>, to |-> d]
Rename(p, q) == [op |-> "move", from |-> p, to |-> q]

\* entries[0] of the content directory, the only one in a valid digitized
\* package.  A file has no entries, and nothing to move: ReadDir fails.
Dossier ==
  LET entries == Children(tree, Layout.content) IN
    IF entries = {} THEN Layout.content ELSE CHOOSE d \in entries : TRUE

\* Mutant: the logical metadata file is left where it is.
MetadataMovesForgetLogical ==
  (IF Digitized THEN <<Rename(Append(Dossier, Prozess), Metadata(Prozess))>> ELSE <<>>)
  \o (IF IsAIP THEN <<Rename(<<"additional", Updated>>, Metadata(Updated))>> ELSE <<>>)

\* What goes to the metadata directory.
MetadataMoves ==
  (IF Digitized THEN <<Rename(Append(Dossier, Prozess), Metadata(Prozess))>> ELSE <<>>)
  \o (IF IsAIP THEN <<Rename(<<"additional", Updated>>, Metadata(Updated)),
                      Rename(<<"additional", LogicalMD>>, Metadata(LogicalMD))>> ELSE <<>>)

\* What goes to the objects directory.
ObjectMoves ==
  <<Rename(Layout.content, PIPContent), Mkdir(PIPHeader),
    Rename(Layout.metadata, Append(PIPHeader, "metadata.xml"))>>

\* What Execute does, up to the removal of the old top-level directories.
Transform ==
  <<Mkdir(<<"metadata">>)>> \o MetadataMoves \o <<Mkdir(<<"objects", Name>>)>> \o ObjectMoves

Apply(t, s) == IF s.op = "mkdir" THEN MkdirAll(t, s.to) ELSE Move(t, s.from, s.to)
Possible(t, s) ==
  IF s.op = "mkdir" THEN CanMkdir(t, s.to) ELSE CanMove(t, s.from, s.to)

\* The tree after the first i operations, as long as they are possible.
After[i \in Nat] == IF i = 0 THEN tree ELSE Apply(After[i - 1], Transform[i])

\* The i-th operation can be reached and carried out.
Reached(i) == \A j \in 1..i : Possible(After[j - 1], Transform[j])
Completes  == Reached(Len(Transform))

\* The error of a RemoveAll is never looked at (it is the error of the move
\* before that is tested), so any of the old directories may stay.
TransformSIP ==
  /\ pc = "transform"
  /\ \/ /\ Completes
        /\ \E kept \in SUBSET Layout.top :
             tree' = Without(After[Len(Transform)], Layout.top \ kept)
        /\ pc' = "identifiers"
     \/ \E i \in 0..Len(Transform) : Reached(i) /\ tree' = After[i] /\ pc' = "failed"
  /\ UNCHANGED <<pkg, type, failures, objects, ids>>

-----------------------------------------------------------------------------
(* WriteIdentifierFile and BagSIP.                                          *)

\* pips.New.
PIPManifest ==
  IF type = "DigitizedAIP" THEN Metadata(Updated) ELSE Append(PIPHeader, "metadata.xml")

\* Mutant: Prozess_Digitalisierung_PREMIS.xml is a file like any other.
ConvertSIPPathNoProzess(p) ==
  CASE Last(p) = Updated        -> Metadata(Last(p))
    [] Last(p) = "metadata.xml" -> Append(PIPHeader, Last(p))
    [] OTHER -> IF Head(p) \in ContentNames THEN <<"objects", Name>> \o p ELSE <<>>

\* The path in the PIP of a manifest's file, or <<>>.
ConvertSIPPath(p) ==
  CASE Last(p) \in {Prozess, Updated} -> Metadata(Last(p))
    [] Last(p) = "metadata.xml"       -> Append(PIPHeader, Last(p))
    [] OTHER -> IF Head(p) \in ContentNames THEN <<"objects", Name>> \o p ELSE <<>>

\* FromManifest refuses a manifest without files.
HasIdentifiers == Listed(tree, PIPManifest) # {}

\* pipIdentifiers: files that have no place in the PIP are left out.
PIPIdentifiers == {ConvertSIPPath(p) : p \in Listed(tree, PIPManifest)} \ {<<>>}

\* A failed write may leave part of the file.
WriteIdentifierFile ==
  /\ pc = "identifiers"
  /\ PIPManifest \in Files(tree) /\ HasIdentifiers
  /\ tree' = Write(tree, Metadata("identifiers.json"))
  /\ \/ ids' = PIPIdentifiers /\ pc' = "bag"
     \/ pc' = "failed" /\ UNCHANGED ids
  /\ UNCHANGED <<pkg, type, failures, objects>>

\* The library's bagcreate puts everything below data/.
BagSIP ==
  /\ pc = "bag"
  /\ tree' = TreeOf([p \in {<<"data">> \o q : q \in Files(tree)} \cup {TagFile} |->
                       IF p = TagFile THEN p ELSE tree[Tail(p)]],
                    {<<"data">> \o d : d \in Dirs(tree)})
  /\ pc' = "built"
  /\ UNCHANGED <<pkg, type, failures, objects, ids>>

-----------------------------------------------------------------------------
Next ==
  \/ Unbag \/ IdentifySIP \/ ValidateStructure \/ VerifyManifest \/ Gate
  \/ AddPREMISObjects \/ TransformSIP \/ WriteIdentifierFile \/ BagSIP \/ Fail

Spec == Init /\ [][Next]_vars

-----------------------------------------------------------------------------
(* Properties.                                                              *)

\* The submitted files that must survive: all of them up to the restructuring,
\* then the content directory and the metadata files with a place of their own.
Kept ==
  IF type = "unknown" THEN pkg.files
  ELSE {f \in pkg.files : IsPrefix(Layout.content, f) \/ f = Layout.metadata
                            \/ f \in Layout.added}

\* Wherever an activity stops, by an error or with its worker, every file that
\* matters is still somewhere in the package's directory: nothing is removed
\* (Unbag's and TransformSIP's clean-up) that was not moved to safety before.
NothingIsLost == \A f \in Kept : \E p \in DOMAIN tree : tree[p] = f

\* A package that is refused for its content is handed back as it was submitted,
\* unbagged: the checks change nothing, and Unbag leaves nothing of the bag.
RejectedIsIntact ==
  pc = "rejected" => tree = Submitted([pkg EXCEPT !.bag = FALSE])

\* A file of the digitization process that is not in the dossier itself, or a
\* file at the top that stands where a directory of the PIP must.
Misplaced ==
  \/ Digitized /\ Append(Dossier, Prozess) \notin Files(tree)
  \/ {<<"objects">>, <<"metadata">>} \cap Files(tree) # {}

\* What the checks let through can be restructured: none of TransformSIP's
\* moves, five activities later, meets a file that is not there.
ValidPackagesAreRestructured == pc = "transform" => Completes \/ Misplaced

PIP(p) == <<"data">> \o p
InPIP(p, d) == IsPrefix(PIP(d), p)
ContentFiles ==
  {p \in Files(tree) : InPIP(p, PIPContent) \/ InPIP(p, Metadata(Prozess))}

\* The built package holds, at the place the preservation engine expects it,
\* exactly the content that the verified manifest lists, file by file as it was
\* submitted and with the checksums it gives.
PIPMatchesManifest ==
  pc = "built" =>
    LET root == IF IsAIP THEN <<"content">> ELSE <<>>
        listed == {root \o p : p \in pkg.listed[Last(Layout.manifest)]}
        content == {f \in listed : IsPrefix(Layout.content, f)} IN
      /\ {tree[p] : p \in ContentFiles} = content
      /\ content \cap pkg.corrupt = {}
      /\ \A p \in ContentFiles :
           IF InPIP(p, Metadata(Prozess))
           THEN \E d \in Prefixes(tree[p]) :
                  p = PIP(Rebase(tree[p], d, <<"metadata">>))
           ELSE p = PIP(Rebase(tree[p], Layout.content, PIPContent))
      /\ Layout.metadata \in pkg.files =>
           tree[PIP(Append(PIPHeader, "metadata.xml"))] = Layout.metadata
      /\ \A f \in Layout.added \cap pkg.files : tree[PIP(Metadata(Last(f)))] = f

\* The names that have a place of their own in the PIP are those of files, one
\* in the content directory or, as for the metadata, where the layout has them.
Unambiguous ==
  LET entries == {p \in pkg.files \cup pkg.dirs : IsPrefix(Layout.content, p)} IN
    /\ \A p, q \in entries :
         /\ Last(p) = Prozess /\ Last(q) = Prozess => p = q
         /\ Last(p) \notin {Updated, "metadata.xml"}
         /\ \A i \in 1..Len(p) : p[i] = Prozess => p \in pkg.files /\ i = Len(p)
    /\ \A f \in pkg.files : Last(f) = Updated => f \in Layout.added
    /\ {Layout.metadata} \cup Layout.added \subseteq pkg.files

\* premis.xml was written before the files were moved and the package bagged:
\* its objects name exactly the content files of the bag.
PremisNamesFiles == pc = "built" /\ Unambiguous => objects = ContentFiles

\* identifiers.json names the same files, and metadata.xml where the manifest
\* lists it: the paths it computes from the manifest are where TransformSIP put
\* the files.  (A BornDigitalAIP's come from another manifest, see below; a
\* directory beside the content directory is named too, see ListedFilesAreKept.)
IdentifiersNameFiles ==
  pc = "built" /\ Unambiguous /\ type # "BornDigitalAIP" =>
    LET named == {PIP(p) : p \in ids} IN
      /\ ContentFiles \subseteq named
      /\ \A p \in named : InPIP(p, PIPContent) \/ InPIP(p, PIPHeader) \/ InPIP(p, <<"metadata">>)
           => p \in Files(tree)

\* "Exclude any files in the manifest that aren't found in the PIP"
\* (README.md:457): the content files that identifiers.json names for a born
\* digital AIP are in the package it was written for.
IdentifiersAreOfThePIP ==
  pc = "built" /\ Unambiguous /\ type = "BornDigitalAIP" =>
    \A p \in {PIP(q) : q \in ids} : InPIP(p, PIPContent) => p \in Files(tree)

\* "All content for preservation is within the `objects` directory"
\* (README.md:441): what the verified manifest lists outside the header is kept.
ListedFilesAreKept ==
  pc = "built" /\ IsAIP =>
    \A f \in {<<"content">> \o p : p \in pkg.listed[Updated]} :
      f[2] # "header" => \E p \in DOMAIN tree : tree[p] = f

\* "Delete original top-level directories" (README.md:434).
OldDirectoriesAreRemoved ==
  pc \in {"identifiers", "bag"} => Layout.top \cap DOMAIN tree = {}
=============================================================================
