---------------------------- MODULE FollowLinks ----------------------------
(***************************************************************************)
(* inputFiles.follow (src/pkg/service/effective_inputs.go:408-483): from   *)
(* the name of a file an operation reads to the regular file behind it,    *)
(* recording every symbolic link on the way, never leaving the workspace.  *)
(* The code walks names, cleaned lexically; the process it speaks for goes *)
(* through the kernel, which walks directories.  Kernel below is that      *)
(* reference, and the properties relate the two.                           *)
(***************************************************************************)
EXTENDS Naturals, Sequences, SequencesExt, Functions, FiniteSets

CONSTANTS
  Names,     \* names of directory entries
  Paths,     \* where the workspace may have an entry, at any depth
  Up,        \* the component ".."
  Odd,       \* names no answer can carry: a backslash, a line end, no UTF-8
  Starts,    \* names the discovery is asked to follow
  Texts,     \* texts of symbolic links: [rooted : BOOLEAN, parts : Seq]
  MaxParts,  \* bound: components of a start or of a text
  MaxSteps   \* bound: components the kernel walks before it gives up (ELOOP)

ASSUME NamesAssumption == Up \notin Names
ASSUME OddAssumption == Odd \subseteq Names
ASSUME PathsAssumption == IsFiniteSet(Paths) /\ Paths \subseteq Seq(Names) \ {<<>>}
ASSUME StartsAssumption == \A start \in Starts : start \in Seq(Names) /\ Len(start) <= MaxParts
ASSUME TextsAssumption ==
  \A text \in Texts :
    /\ text \in [rooted : BOOLEAN, parts : Seq(Names \cup {Up})]
    /\ Len(text.parts) <= MaxParts
\* The kernel gets through a name and every link of the workspace once.
ASSUME StepsAssumption ==
  MaxParts \in Nat /\ MaxSteps \in Nat /\ MaxSteps > MaxParts * (Cardinality(Paths) + 1)

NoText == [rooted |-> TRUE, parts |-> <<>>]
Absent == [kind |-> "none", text |-> NoText]
Entries ==
  {[kind |-> k, text |-> NoText] : k \in {"none", "file", "dir", "pipe"}} \cup
  {[kind |-> "link", text |-> t] : t \in Texts}

\* A hypothesis of the theorems: texts climb, if at all, before they name
\* anything, so that no "x/.." is left for Clean to drop.
ClimbsFirst(parts) ==
  \A i, j \in 1 .. Len(parts) : i < j /\ parts[j] = Up => parts[i] = Up
TextsClimbFirst == \A text \in Texts : ClimbsFirst(text.parts)

VARIABLES
  fs,        \* the workspace, [Paths -> Entries]
  asked,     \* the name the discovery was given
  name,      \* the name it is at, a sequence of components below the root
  pos,       \* components of it that are known not to be links
  visiting,  \* links met, which are also the link inputs recorded
  outcome    \* "walking", a reason the input is unresolved, or "file"

vars == <<fs, asked, name, pos, visiting, outcome>>

(***************************************************************************)
(* Walks take one component of a name at a time: `step' is applied again   *)
(* and again, starting from s.                                             *)
(***************************************************************************)
Iterate(step, s) ==
  LET run[n \in Nat] == IF n = 0 THEN s ELSE step[run[n - 1]] IN run

\* Every name outside the workspace root, which begins with ".." from there.
Outside == <<Up>>

Parent(dir) == IF dir = Outside \/ dir = <<>> THEN Outside ELSE Front(dir)

\* filepath.Clean and filepath.Join: "x/.." disappears whatever x is.
Positions == [dir : {Outside} \cup Seq(Names), rest : Seq(Names \cup {Up})]
Lexically ==
  [p \in Positions |->
     IF p.rest = <<>> THEN p
     ELSE [dir  |-> IF Head(p.rest) = Up THEN Parent(p.dir)
                    ELSE IF p.dir = Outside THEN Outside
                    ELSE Append(p.dir, Head(p.rest)),
           rest |-> Tail(p.rest)]]
Clean(parts) == Iterate(Lexically, [dir |-> <<>>, rest |-> parts])[Len(parts)].dir

Lookup(w, path) == IF path \in Paths THEN w[path] ELSE Absent
Entry(path) == Lookup(fs, path)

\* A link's text is relative to the directory of the link, or absolute and
\* written against the root of the workspace.
Against(text, dir) == IF text.rooted THEN <<>> ELSE dir

\* A workspace is well formed when only directories have entries.
WellFormed(w) ==
  \A path \in Paths :
    Len(path) > 1 /\ w[path].kind # "none" =>
      Front(path) \in Paths /\ w[Front(path)].kind = "dir"

Init ==
  /\ fs \in {w \in [Paths -> Entries] : WellFormed(w)}
  /\ asked \in Starts
  /\ name = Clean(asked)
  /\ pos = 0
  /\ visiting = {}
  /\ outcome = "walking"

Conclude(result) ==
  /\ outcome' = result
  /\ UNCHANGED <<fs, asked, name, pos, visiting>>

Written(path) == \A i \in 1 .. Len(path) : path[i] \notin Odd

Walking == outcome = "walking" /\ name # Outside /\ Written(name) /\ pos < Len(name)
Current == SubSeq(name, 1, pos + 1)
IsLast  == pos + 1 = Len(name)

\* !within(f.root, name)
Escape ==
  /\ outcome = "walking"
  /\ name = Outside
  /\ Conclude("external-filesystem")

\* Before any component is looked at.
NoName ==
  /\ outcome = "walking"
  /\ name # Outside
  /\ ~Written(name)
  /\ Conclude("unrepresentable-filesystem-path")

\* Lstat fails: the entry is missing, or its parent is no directory.
NotFound ==
  /\ Walking
  /\ Entry(Current).kind = "none"
  /\ Conclude("filesystem-discovery")

\* A mutant: what follows the link in the name is forgotten.
TargetOnly ==
  LET text == Entry(Current).text
  IN Clean(Against(text, Front(Current)) \o text.parts)

\* The name a link at the current position leads to.
Target ==
  LET text == Entry(Current).text
  IN Clean(Against(text, Front(Current)) \o text.parts \o SubSeq(name, pos + 2, Len(name)))

\* A mutant: links are recorded but never looked up.
NeverSeen(path) == FALSE

Seen(path) == path \in visiting

Link ==
  /\ Walking
  /\ Entry(Current).kind = "link"
  /\ ~Seen(Current)
  /\ visiting' = visiting \cup {Current}
  /\ name' = Target
  /\ pos' = 0
  /\ UNCHANGED <<fs, asked, outcome>>

Cycle ==
  /\ Walking
  /\ Entry(Current).kind = "link"
  /\ Seen(Current)
  /\ Conclude("symlink-cycle")

\* Not the last component: the loop goes on, whatever the entry is.
Descend ==
  /\ Walking
  /\ Entry(Current).kind \in {"file", "dir", "pipe"}
  /\ ~IsLast
  /\ pos' = pos + 1
  /\ UNCHANGED <<fs, asked, name, visiting, outcome>>

Leaf ==
  /\ Walking
  /\ Entry(Current).kind \in {"file", "dir", "pipe"}
  /\ IsLast
  /\ Conclude(IF Entry(Current).kind = "file" THEN "file" ELSE "non-regular-input")

\* The name is the workspace root itself.
Root ==
  /\ outcome = "walking"
  /\ name = <<>>
  /\ Conclude("non-regular-input")

Next == Escape \/ NoName \/ NotFound \/ Link \/ Cycle \/ Descend \/ Leaf \/ Root

Spec == Init /\ [][Next]_vars
FairSpec == Spec /\ WF_vars(Next)

-----------------------------------------------------------------------------
(***************************************************************************)
(* The reference: path resolution as the kernel does it, one directory at  *)
(* a time.  ".." is the parent of the directory reached, not of the name.  *)
(***************************************************************************)
Walks ==
  [dir   : Seq(Names),
   rest  : Seq(Names \cup {Up}),
   links : Seq(Paths),
   end   : {"walking", "none", "file", "dir", "pipe"}]

Walk(dir, rest, links, end) == [dir |-> dir, rest |-> rest, links |-> links, end |-> end]

Resolve(w) ==
  [k \in Walks |->
     IF k.end # "walking" THEN k
     ELSE IF k.rest = <<>> THEN Walk(k.dir, <<>>, k.links, "dir")
     ELSE IF Head(k.rest) = Up
       THEN IF k.dir = <<>> THEN Walk(<<>>, k.rest, k.links, "none")
            ELSE Walk(Front(k.dir), Tail(k.rest), k.links, "walking")
     ELSE LET path  == Append(k.dir, Head(k.rest))
              after == Tail(k.rest)
              entry == Lookup(w, path)
          IN CASE entry.kind = "link" ->
                    Walk(Against(entry.text, k.dir),
                         entry.text.parts \o after, Append(k.links, path), "walking")
               [] entry.kind = "dir" -> Walk(path, after, k.links, "walking")
               [] OTHER -> Walk(path, after, k.links, IF after = <<>> THEN entry.kind ELSE "none")]

Kernel(w, path) == Iterate(Resolve(w), Walk(<<>>, path, <<>>, "walking"))

Consumed == Kernel(fs, asked)[MaxSteps]

TypeOK ==
  /\ asked \in Starts
  /\ name = Outside \/ name \in Seq(Names)
  /\ pos \in Nat
  /\ visiting \subseteq Paths
  /\ outcome \in {"walking", "external-filesystem", "filesystem-discovery",
                  "symlink-cycle", "non-regular-input", "unrepresentable-filesystem-path", "file"}

\* The file identified is the file the operation opens, and the links recorded
\* are exactly those its name goes through: no other content, and no link text,
\* decides what it reads ("Symlinks include link text/mode and consumed targets
\* inside the workspace", EFFECTIVE_INPUTS.md:53-54).
IdentifiesConsumed ==
  /\ TypeOK
  /\ outcome = "file" =>
       /\ Consumed.end = "file"
       /\ Consumed.dir = name
       /\ ToSet(Consumed.links) = visiting

\* What IdentifiesConsumed says of a file the operation can open, alone: the
\* content identified is the content consumed.
IdentifiesTarget ==
  (outcome = "file" /\ Consumed.end = "file") => Consumed.dir = name

\* Somewhere on its way the kernel is at, or has still to walk, such a name.
MeetsOdd ==
  \E n \in 0 .. MaxSteps :
    LET k == Kernel(fs, asked)[n] IN ~Written(k.dir \o k.rest)

\* Nothing readable is lost: a file the kernel opens inside the workspace is
\* either identified or the walk gives a reason that the kernel's own walk
\* explains: it went through one link twice, or came by a name no answer can
\* carry ("produce an unresolved `unrepresentable-filesystem-path` entry",
\* EFFECTIVE_INPUTS.md:63-65).
MissesNothing ==
  (Consumed.end = "file" /\ outcome \notin {"walking", "file"}) =>
    \/ outcome = "symlink-cycle" /\ ~IsInjective(Consumed.links)
    \/ outcome = "unrepresentable-filesystem-path" /\ MeetsOdd

\* However the links point at one another, no step leaves as much of the walk as
\* there was: a link makes the name longer, but only once.
LongestName == MaxParts * (Cardinality(Paths) + 1)
Left ==
  Cardinality(Paths \ visiting) * (LongestName + 2)
    + (Len(name) - pos) + (IF outcome = "walking" THEN 1 ELSE 0)
NearsItsEnd == [][Left' \in Nat /\ Left' < Left]_vars

\* So the walk ends.
WalkEnds == <>(outcome # "walking")
=============================================================================
