------------------------- MODULE FollowLinks_proofs -------------------------
(***************************************************************************)
(* inputFiles.follow and the kernel, in a workspace of any size and depth. *)
(*                                                                         *)
(* Both walk component by component, and neither sees the other's steps:   *)
(* the code cleans a name and starts again at the root after every link,   *)
(* the kernel climbs and goes on from where it is.  The invariant says     *)
(* that the kernel has been, or will be, at a place from which what it has *)
(* still to go is, cleaned, the name the code is walking, through the same *)
(* links.  That the walk nears its end is shown last, by a measure.        *)
(*                                                                         *)
(* Iterate and Clean are recursive functions.  What is needed of them is   *)
(* shown by Induction, which is the least-element principle of a           *)
(* well-founded relation applied to a set of numbers.                      *)
(***************************************************************************)
EXTENDS FollowLinks, SequenceTheorems, FiniteSetTheorems, WellFoundedInduction, TLAPS

Below == OpToRel(<, Nat)

\* A set of numbers that holds 0 and every successor of its own holds them all.
LEMMA Induction ==
  ASSUME NEW S, S \subseteq Nat, 0 \in S, \A n \in S : n + 1 \in S
  PROVE  S = Nat
<1> SUFFICES ASSUME Nat \ S # {} PROVE FALSE
  OBVIOUS
<1>1. IsWellFoundedOn(Below, Nat)
  BY NatLessThanWellFounded DEF Below
<1>2. PICK least \in Nat \ S : \A m \in Nat \ S : <<m, least>> \notin Below
  BY <1>1, WFMin
<1>3. least - 1 \in Nat /\ least - 1 < least
  OBVIOUS
<1>4. <<least - 1, least>> \in Below
  BY <1>3 DEF Below, OpToRel
<1>5. least - 1 \in S
  BY <1>2, <1>3, <1>4
<1> QED
  BY <1>3, <1>5

-----------------------------------------------------------------------------
\* The first n steps.
Prefix(step, s, n, g) == g = [i \in 0 .. n |-> IF i = 0 THEN s ELSE step[g[i - 1]]]

LEMMA PrefixExists == \A step, s : \A n \in Nat : \E g : Prefix(step, s, n, g)
<1> TAKE step, s
<1> DEFINE S == {n \in Nat : \E g : Prefix(step, s, n, g)}
<1>1. 0 \in S
  <2> DEFINE g == [i \in 0 .. 0 |-> s]
  <2>1. g = [i \in 0 .. 0 |-> IF i = 0 THEN s ELSE step[g[i - 1]]]
    OBVIOUS
  <2> QED
    BY <2>1 DEF Prefix
<1>2. ASSUME NEW n \in S PROVE n + 1 \in S
  <2>1. PICK g : Prefix(step, s, n, g)
    OBVIOUS
  <2> DEFINE h == [i \in 0 .. n + 1 |-> IF i = n + 1 THEN step[g[n]] ELSE g[i]]
  <2>2. ASSUME NEW i \in 0 .. n + 1 PROVE h[i] = IF i = 0 THEN s ELSE step[h[i - 1]]
    BY <2>1 DEF Prefix
  <2>3. h = [i \in 0 .. n + 1 |-> IF i = 0 THEN s ELSE step[h[i - 1]]]
    BY <2>2
  <2> HIDE DEF h
  <2> QED
    BY <2>3 DEF Prefix
<1> HIDE DEF S
<1>3. S = Nat
  BY <1>1, <1>2, Induction DEF S
<1> QED
  BY <1>3 DEF S

LEMMA PrefixesAgree ==
  ASSUME NEW step, NEW s, NEW n \in Nat, NEW m \in Nat, NEW g, NEW h,
         Prefix(step, s, n, g), Prefix(step, s, m, h)
  PROVE  \A i \in 0 .. n : i <= m => g[i] = h[i]
<1> DEFINE S == {i \in Nat : i <= n /\ i <= m => g[i] = h[i]}
<1>1. 0 \in S
  BY DEF Prefix
<1>2. ASSUME NEW i \in S PROVE i + 1 \in S
  <2>1. ASSUME i + 1 <= n, i + 1 <= m
        PROVE  g[i + 1] = step[g[i]] /\ h[i + 1] = step[h[i]] /\ g[i] = h[i]
    BY <2>1 DEF Prefix
  <2> QED
    BY <2>1
<1> HIDE DEF S
<1>3. S = Nat
  BY <1>1, <1>2, Induction DEF S
<1> QED
  BY <1>3 DEF S

\* What the recursive definition of Iterate says.
LEMMA Iterating ==
  ASSUME NEW step, NEW s
  PROVE  /\ Iterate(step, s)[0] = s
         /\ \A n \in Nat : Iterate(step, s)[n + 1] = step[Iterate(step, s)[n]]
<1> DEFINE Of(f) == f = [n \in Nat |-> IF n = 0 THEN s ELSE step[f[n - 1]]]
           first(n) == CHOOSE g : Prefix(step, s, n, g)
           f0 == [n \in Nat |-> first(n)[n]]
<1>0. \A n \in Nat : \A g : Prefix(step, s, n, g) => g[n] = IF n = 0 THEN s ELSE step[g[n - 1]]
  BY DEF Prefix
<1>1. \A n \in Nat : Prefix(step, s, n, first(n))
  BY PrefixExists
<1>2. ASSUME NEW n \in Nat PROVE f0[n] = IF n = 0 THEN s ELSE step[f0[n - 1]]
  <2> HIDE DEF first
  <2>1. f0[n] = first(n)[n] /\ first(n)[n] = IF n = 0 THEN s ELSE step[first(n)[n - 1]]
    BY <1>0, <1>1
  <2>2. ASSUME n # 0 PROVE f0[n - 1] = first(n)[n - 1]
    <3>1. n - 1 \in Nat /\ n - 1 \in 0 .. n - 1
      BY <2>2
    <3>2. f0[n - 1] = first(n - 1)[n - 1]
      BY <3>1
    <3>3. Prefix(step, s, n, first(n)) /\ Prefix(step, s, n - 1, first(n - 1))
      BY <1>1, <3>1
    <3> QED
      BY <3>1, <3>2, <3>3, PrefixesAgree
  <2> QED
    BY <2>1, <2>2
<1>3. Of(f0)
  <2>1. f0 = [n \in Nat |-> f0[n]]
    OBVIOUS
  <2> HIDE DEF f0
  <2> QED
    BY <1>2, <2>1
<1>4. Iterate(step, s) = CHOOSE f : Of(f)
  BY DEF Iterate
<1>5. Of(Iterate(step, s))
  <2> HIDE DEF f0, Of
  <2> QED
    BY <1>3, <1>4
<1> QED
  BY <1>5

LEMMA IteratesIn ==
  ASSUME NEW D, NEW step \in [D -> D], NEW s \in D
  PROVE  \A n \in Nat : Iterate(step, s)[n] \in D
<1> DEFINE S == {n \in Nat : Iterate(step, s)[n] \in D}
<1>1. 0 \in S
  BY Iterating
<1>2. ASSUME NEW n \in S PROVE n + 1 \in S
  BY Iterating
<1> HIDE DEF S
<1>3. S = Nat
  BY <1>1, <1>2, Induction DEF S
<1> QED
  BY <1>3 DEF S

\* The first step may as well be taken before.
LEMMA OneStepAhead ==
  ASSUME NEW step, NEW s
  PROVE  \A n \in Nat : Iterate(step, s)[n + 1] = Iterate(step, step[s])[n]
<1> DEFINE S == {n \in Nat : Iterate(step, s)[n + 1] = Iterate(step, step[s])[n]}
<1>1. 0 \in S
  <2>1. Iterate(step, s)[0 + 1] = step[Iterate(step, s)[0]]
    BY Iterating
  <2> QED
    BY <2>1, Iterating
<1>2. ASSUME NEW n \in S PROVE n + 1 \in S
  <2>1. Iterate(step, s)[(n + 1) + 1] = step[Iterate(step, s)[n + 1]]
    BY Iterating
  <2>2. Iterate(step, step[s])[n + 1] = step[Iterate(step, step[s])[n]]
    BY Iterating
  <2> QED
    BY <2>1, <2>2
<1> HIDE DEF S
<1>3. S = Nat
  BY <1>1, <1>2, Induction DEF S
<1> QED
  BY <1>3 DEF S

-----------------------------------------------------------------------------
(* Sequences. *)

Parts == Names \cup {Up}

LEMMA Consing ==
  ASSUME NEW S, NEW s \in Seq(S), s # <<>>
  PROVE  Head(s) \in S /\ Tail(s) \in Seq(S) /\ Len(Tail(s)) = Len(s) - 1 /\ Len(s) \in Nat \ {0}
BY HeadTailProperties, EmptySeq

\* The head of the second becomes the last of the first.
LEMMA Shifting ==
  ASSUME NEW S, NEW s \in Seq(S), NEW t \in Seq(S), t # <<>>
  PROVE  /\ Append(s, Head(t)) \in Seq(S)
         /\ Append(s, Head(t)) \o Tail(t) = s \o t
<1>1. Head(t) \in S /\ Tail(t) \in Seq(S) /\ Len(Tail(t)) = Len(t) - 1 /\ Len(t) \in Nat \ {0} /\ Len(s) \in Nat
  BY Consing
<1> DEFINE l == Append(s, Head(t))
<1>2. l \in Seq(S) /\ Len(l) = Len(s) + 1 /\ \A i \in 1 .. Len(l) : l[i] = IF i <= Len(s) THEN s[i] ELSE t[1]
  BY <1>1, AppendProperties
<1>3. l \o Tail(t) \in Seq(S) /\ s \o t \in Seq(S) /\ Len(l \o Tail(t)) = Len(s \o t)
  BY <1>1, <1>2, ConcatProperties
<1>4. ASSUME NEW i \in 1 .. Len(s \o t) PROVE (l \o Tail(t))[i] = (s \o t)[i]
  BY <1>1, <1>2, HeadTailProperties, ConcatProperties
<1> HIDE DEF l
<1>5. l \o Tail(t) = s \o t
  BY <1>3, <1>4, SeqEqual
<1> QED
  BY <1>2, <1>5 DEF l

LEMMA ConsingConcat ==
  ASSUME NEW S, NEW T, NEW s \in Seq(S), NEW t \in Seq(S \cup T), s # <<>>
  PROVE  /\ s \o t \in Seq(S \cup T) /\ s \o t # <<>>
         /\ Head(s \o t) = Head(s)
         /\ Tail(s \o t) = Tail(s) \o t
<1>1. s \in Seq(S \cup T) /\ Len(s) \in Nat \ {0} /\ Len(t) \in Nat
  BY Consing, SeqMonotonic, LenProperties
<1>2. s \o t \in Seq(S \cup T) /\ Len(s \o t) = Len(s) + Len(t) /\ (s \o t)[1] = s[1]
  BY <1>1, ConcatProperties
<1>3. s \o t # <<>> /\ Head(s \o t) = Head(s)
  BY <1>1, <1>2, EmptySeq
<1>4. Tail(s) \in Seq(S \cup T) /\ Tail(s \o t) \in Seq(S \cup T)
  BY <1>1, <1>2, <1>3, Consing
<1>5. Tail(s) \o t \in Seq(S \cup T) /\ Len(Tail(s) \o t) = Len(Tail(s \o t))
  BY <1>1, <1>2, <1>3, <1>4, Consing, ConcatProperties
<1>6. ASSUME NEW i \in 1 .. Len(Tail(s \o t)) PROVE Tail(s \o t)[i] = (Tail(s) \o t)[i]
  <2>1. Len(Tail(s)) = Len(s) - 1 /\ Len(Tail(s \o t)) = Len(s) + Len(t) - 1
    BY <1>1, <1>2, <1>3, Consing
  <2>2. Tail(s \o t)[i] = (s \o t)[i + 1]
    BY <1>2, <1>3, HeadTailProperties
  <2>3. (s \o t)[i + 1] = IF i + 1 <= Len(s) THEN s[i + 1] ELSE t[i + 1 - Len(s)]
    BY <1>1, <2>1, ConcatProperties
  <2>4. (Tail(s) \o t)[i] = IF i <= Len(s) - 1 THEN Tail(s)[i] ELSE t[i - (Len(s) - 1)]
    BY <1>1, <1>4, <2>1, ConcatProperties
  <2>5. i <= Len(s) - 1 => Tail(s)[i] = s[i + 1]
    BY <1>1, <2>1, HeadTailProperties
  <2> QED
    BY <1>1, <2>1, <2>2, <2>3, <2>4, <2>5
<1> QED
  BY <1>3, <1>2, <1>4, <1>5, <1>6, SeqEqual

\* A part of a text that does not begin with ".." and climbs first does not climb.
LEMMA ClimbsNoMore ==
  ASSUME NEW r \in Seq(Parts), ClimbsFirst(r), r = <<>> \/ Head(r) # Up
  PROVE  r \in Seq(Names)
<1>1. CASE r = <<>>
  BY <1>1
<1>2. CASE r # <<>>
  <2>1. Len(r) \in Nat \ {0} /\ r[1] # Up
    BY <1>2, Consing
  <2>2. \A i \in 1 .. Len(r) : r[i] # Up /\ r[i] \in Parts
    BY <2>1, ElementOfSeq DEF ClimbsFirst
  <2>3. \A i \in 1 .. Len(r) : r[i] \in Names
    BY <2>2 DEF Parts
  <2> QED
    BY <2>3, <2>1
<1> QED
  BY <1>1, <1>2

LEMMA ClimbsOn ==
  ASSUME NEW r \in Seq(Parts), ClimbsFirst(r), r # <<>>
  PROVE  ClimbsFirst(Tail(r))
BY HeadTailProperties, Consing DEF ClimbsFirst

-----------------------------------------------------------------------------
(* Clean takes its parts one after the other. *)

Places == {Outside} \cup Seq(Names)
Position(dir, rest) == [dir |-> dir, rest |-> rest]

\* Clean, from a directory other than the root.
CleanFrom(dir, rest) == Iterate(Lexically, Position(dir, rest))[Len(rest)].dir

\* Where a part leads by its name alone.
Taken(dir, part) == IF part = Up THEN Parent(dir) ELSE IF dir = Outside THEN Outside ELSE Append(dir, part)

LEMMA OutsideIsNoName == Outside \notin Seq(Names) /\ Up \notin Names
<1> SUFFICES ASSUME Outside \in Seq(Names) PROVE FALSE
  BY NamesAssumption
<1>1. Len(Outside) = 1 /\ Outside[1] = Up
  BY DEF Outside
<1> QED
  BY <1>1, ElementOfSeq, NamesAssumption

LEMMA LexicalStep ==
  ASSUME NEW dir \in Places, NEW rest \in Seq(Parts), rest # <<>>
  PROVE  /\ Lexically[Position(dir, rest)] = Position(Taken(dir, Head(rest)), Tail(rest))
         /\ Taken(dir, Head(rest)) \in Places
<1>1. Head(rest) \in Parts /\ Tail(rest) \in Seq(Parts)
  BY Consing
<1>2. Position(dir, rest) \in Positions
  BY DEF Position, Positions, Places, Parts
<1>3. Taken(dir, Head(rest)) \in Places
  <2>1. ASSUME dir \in Seq(Names), dir # <<>> PROVE Front(dir) \in Seq(Names)
    BY <2>1 DEF Front
  <2>2. ASSUME dir \in Seq(Names), Head(rest) \in Names PROVE Append(dir, Head(rest)) \in Seq(Names)
    BY <2>2, AppendProperties
  <2> QED
    BY <1>1, <2>1, <2>2 DEF Taken, Parent, Places, Parts
<1>4. Lexically[Position(dir, rest)] = Position(Taken(dir, Head(rest)), Tail(rest))
  BY <1>2 DEF Lexically, Position, Taken
<1> QED
  BY <1>3, <1>4

LEMMA CleanNothing == \A dir : CleanFrom(dir, <<>>) = dir
BY Iterating, EmptySeq DEF CleanFrom, Position

LEMMA CleanTakes ==
  ASSUME NEW dir \in Places, NEW rest \in Seq(Parts), rest # <<>>
  PROVE  CleanFrom(dir, rest) = CleanFrom(Taken(dir, Head(rest)), Tail(rest))
<1>1. Len(rest) = Len(Tail(rest)) + 1 /\ Len(Tail(rest)) \in Nat
  BY Consing
<1>2. Iterate(Lexically, Position(dir, rest))[Len(Tail(rest)) + 1]
        = Iterate(Lexically, Lexically[Position(dir, rest)])[Len(Tail(rest))]
  BY <1>1, OneStepAhead
<1> QED
  BY <1>1, <1>2, LexicalStep DEF CleanFrom

LEMMA CleanStaysOut == \A rest \in Seq(Parts) : CleanFrom(Outside, rest) = Outside
<1> DEFINE S == {n \in Nat : \A rest \in Seq(Parts) : Len(rest) = n => CleanFrom(Outside, rest) = Outside}
<1>1. 0 \in S
  BY CleanNothing, EmptySeq
<1>2. ASSUME NEW n \in S PROVE n + 1 \in S
  <2> SUFFICES ASSUME NEW rest \in Seq(Parts), Len(rest) = n + 1 PROVE CleanFrom(Outside, rest) = Outside
    OBVIOUS
  <2>1. rest # <<>> /\ Tail(rest) \in Seq(Parts) /\ Len(Tail(rest)) = n
    BY EmptySeq, Consing
  <2>2. CleanFrom(Outside, rest) = CleanFrom(Taken(Outside, Head(rest)), Tail(rest))
    BY <2>1, CleanTakes DEF Places
  <2> QED
    BY <2>1, <2>2 DEF Taken, Parent
<1> HIDE DEF S
<1>3. S = Nat
  BY <1>1, <1>2, Induction DEF S
<1> QED
  BY <1>3, LenProperties DEF S

\* Names are kept.
LEMMA CleanKeeps ==
  \A dir \in Seq(Names), some \in Seq(Names), rest \in Seq(Parts) :
    CleanFrom(dir, some \o rest) = CleanFrom(dir \o some, rest)
<1> DEFINE S == {n \in Nat : \A dir \in Seq(Names), some \in Seq(Names), rest \in Seq(Parts) :
                   Len(some) = n => CleanFrom(dir, some \o rest) = CleanFrom(dir \o some, rest)}
<1>1. 0 \in S
  BY EmptySeq, ConcatEmptySeq
<1>2. ASSUME NEW n \in S PROVE n + 1 \in S
  <2> SUFFICES ASSUME NEW dir \in Seq(Names), NEW some \in Seq(Names), NEW rest \in Seq(Parts), Len(some) = n + 1
               PROVE  CleanFrom(dir, some \o rest) = CleanFrom(dir \o some, rest)
    OBVIOUS
  <2>1. some # <<>> /\ Head(some) \in Names /\ Tail(some) \in Seq(Names) /\ Len(Tail(some)) = n
    BY EmptySeq, Consing
  <2>2. /\ some \o rest \in Seq(Parts)
        /\ some \o rest # <<>>
        /\ Head(some \o rest) = Head(some)
        /\ Tail(some \o rest) = Tail(some) \o rest
    BY <2>1, ConsingConcat DEF Parts
  <2>3. CleanFrom(dir, some \o rest) = CleanFrom(Taken(dir, Head(some)), Tail(some) \o rest)
    BY <2>2, CleanTakes DEF Places
  <2>4. Taken(dir, Head(some)) = Append(dir, Head(some))
    BY <2>1, OutsideIsNoName DEF Taken
  <2>5. Append(dir, Head(some)) \in Seq(Names) /\ Append(dir, Head(some)) \o Tail(some) = dir \o some
    BY <2>1, Shifting
  <2>6. CleanFrom(Append(dir, Head(some)), Tail(some) \o rest)
          = CleanFrom(Append(dir, Head(some)) \o Tail(some), rest)
    BY <2>1, <2>5
  <2> QED
    BY <2>3, <2>4, <2>5, <2>6
<1> HIDE DEF S
<1>3. S = Nat
  BY <1>1, <1>2, Induction DEF S
<1> QED
  BY <1>3, LenProperties DEF S

LEMMA CleanNames ==
  ASSUME NEW dir \in Seq(Names), NEW rest \in Seq(Names)
  PROVE  CleanFrom(dir, rest) = dir \o rest
<1>1. CleanFrom(dir, rest \o <<>>) = CleanFrom(dir \o rest, <<>>)
  BY CleanKeeps, EmptySeq
<1> QED
  BY <1>1, CleanNothing, ConcatEmptySeq

LEMMA CleanIs ==
  ASSUME NEW dir \in Seq(Names), NEW rest \in Seq(Parts)
  PROVE  Clean(dir \o rest) = CleanFrom(dir, rest)
<1>1. Clean(dir \o rest) = CleanFrom(<<>>, dir \o rest)
  BY DEF Clean, CleanFrom, Position
<1>2. CleanFrom(<<>>, dir \o rest) = CleanFrom(<<>> \o dir, rest)
  BY CleanKeeps, EmptySeq
<1> QED
  BY <1>1, <1>2, ConcatEmptySeq

LEMMA CleanType ==
  ASSUME NEW dir \in Places, NEW rest \in Seq(Parts)
  PROVE  CleanFrom(dir, rest) \in Places
<1>1. Lexically \in [Positions -> Positions]
  <2>1. ASSUME NEW p \in Positions PROVE Lexically[p] \in Positions
    <3>1. CASE p.rest = <<>>
      BY <3>1 DEF Lexically
    <3>2. CASE p.rest # <<>>
      <4>1. p = Position(p.dir, p.rest) /\ p.dir \in Places /\ p.rest \in Seq(Parts)
        BY DEF Positions, Position, Places, Parts
      <4>2. Tail(p.rest) \in Seq(Parts)
        BY <3>2, <4>1, Consing
      <4>3. Lexically[p] = Position(Taken(p.dir, Head(p.rest)), Tail(p.rest))
            /\ Taken(p.dir, Head(p.rest)) \in Places
        BY <3>2, <4>1, LexicalStep
      <4> QED
        BY <4>2, <4>3 DEF Positions, Position, Places, Parts
    <3> QED
      BY <3>1, <3>2
  <2> QED
    BY <2>1 DEF Lexically
<1>2. Position(dir, rest) \in Positions
  BY DEF Positions, Position, Places, Parts
<1>3. Iterate(Lexically, Position(dir, rest))[Len(rest)] \in Positions
  BY <1>1, <1>2, IteratesIn, LenProperties
<1> QED
  BY <1>3 DEF CleanFrom, Positions, Places

-----------------------------------------------------------------------------
(* The kernel's walk, in a workspace w. *)

LEMMA Lookups ==
  ASSUME NEW w \in [Paths -> Entries], NEW path
  PROVE  /\ Lookup(w, path).kind \in {"none", "file", "dir", "pipe", "link"}
         /\ Lookup(w, path).kind # "none" => path \in Paths
         /\ Lookup(w, path).kind = "link" =>
              /\ Lookup(w, path).text \in Texts
              /\ Lookup(w, path).text.rooted \in BOOLEAN
              /\ Lookup(w, path).text.parts \in Seq(Parts)
              /\ Len(Lookup(w, path).text.parts) <= MaxParts
<1>1. Lookup(w, path) \in Entries
  BY DEF Lookup, Absent, Entries
<1>2. Lookup(w, path).kind = "link" => Lookup(w, path).text \in Texts
  BY <1>1 DEF Entries
<1> QED
  BY <1>1, <1>2, TextsAssumption DEF Entries, Lookup, Absent, Parts


LEMMA KernelEnded ==
  ASSUME NEW w, NEW k \in Walks, k.end # "walking"
  PROVE  Resolve(w)[k] = k
BY DEF Resolve

LEMMA KernelArrives ==
  ASSUME NEW w, NEW k \in Walks, k.end = "walking", k.rest = <<>>
  PROVE  Resolve(w)[k] = Walk(k.dir, <<>>, k.links, "dir")
BY DEF Resolve

LEMMA KernelClimbs ==
  ASSUME NEW w, NEW k \in Walks, k.end = "walking", k.rest # <<>>, Head(k.rest) = Up
  PROVE  Resolve(w)[k] = IF k.dir = <<>> THEN Walk(<<>>, k.rest, k.links, "none")
                         ELSE Walk(Front(k.dir), Tail(k.rest), k.links, "walking")
BY DEF Resolve

LEMMA KernelTakes ==
  ASSUME NEW w, NEW k \in Walks, k.end = "walking", k.rest # <<>>, Head(k.rest) # Up,
         NEW path, path = Append(k.dir, Head(k.rest)),
         NEW entry, entry = Lookup(w, path)
  PROVE  /\ entry.kind = "link" =>
              Resolve(w)[k] = Walk(Against(entry.text, k.dir),
                                   entry.text.parts \o Tail(k.rest), Append(k.links, path), "walking")
         /\ entry.kind = "dir" => Resolve(w)[k] = Walk(path, Tail(k.rest), k.links, "walking")
         /\ entry.kind \notin {"link", "dir"} =>
              Resolve(w)[k] = Walk(path, Tail(k.rest), k.links, IF Tail(k.rest) = <<>> THEN entry.kind ELSE "none")
BY DEF Resolve

LEMMA WalkFields ==
  ASSUME NEW k \in Walks
  PROVE  /\ k.dir \in Seq(Names) /\ k.rest \in Seq(Parts) /\ k.links \in Seq(Paths)
         /\ k.end \in {"walking", "none", "file", "dir", "pipe"}
BY DEF Walks, Parts

LEMMA WalkIs ==
  ASSUME NEW dir \in Seq(Names), NEW rest \in Seq(Parts), NEW links \in Seq(Paths),
         NEW end \in {"walking", "none", "file", "dir", "pipe"}
  PROVE  /\ Walk(dir, rest, links, end) \in Walks
         /\ Walk(dir, rest, links, end).dir = dir
         /\ Walk(dir, rest, links, end).rest = rest
         /\ Walk(dir, rest, links, end).links = links
         /\ Walk(dir, rest, links, end).end = end
BY DEF Walk, Walks, Parts


\* A step of the walk k: it passes one link at most.
Passes(k, next) ==
  /\ next \in Walks
  /\ next.links = k.links \/ \E path \in Paths : next.links = Append(k.links, path)

LEMMA Passing ==
  ASSUME NEW k, NEW dir \in Seq(Names), NEW rest \in Seq(Parts), NEW links \in Seq(Paths),
         NEW end \in {"walking", "none", "file", "dir", "pipe"},
         links = k.links \/ \E path \in Paths : links = Append(k.links, path)
  PROVE  Passes(k, Walk(dir, rest, links, end))
BY WalkIs DEF Passes

LEMMA WalksOn ==
  ASSUME NEW w \in [Paths -> Entries], NEW k \in Walks
  PROVE  Passes(k, Resolve(w)[k])
<1>0. /\ k.dir \in Seq(Names) /\ k.rest \in Seq(Parts) /\ k.links \in Seq(Paths)
      /\ k.end \in {"walking", "none", "file", "dir", "pipe"} /\ <<>> \in Seq(Names) /\ <<>> \in Seq(Parts)
  BY WalkFields, EmptySeq
<1>1. CASE k.end # "walking"
  BY <1>1, KernelEnded DEF Passes
<1>2. CASE k.end = "walking" /\ k.rest = <<>>
  <2>1. Passes(k, Walk(k.dir, <<>>, k.links, "dir"))
    BY <1>0, Passing
  <2> QED
    BY <1>2, <2>1, KernelArrives
<1>3. CASE k.end = "walking" /\ k.rest # <<>> /\ Head(k.rest) = Up
  <2>1. Passes(k, Walk(<<>>, k.rest, k.links, "none"))
    BY <1>0, Passing
  <2>2. ASSUME k.dir # <<>> PROVE Passes(k, Walk(Front(k.dir), Tail(k.rest), k.links, "walking"))
    <3>1. Tail(k.rest) \in Seq(Parts)
      BY <1>0, <1>3, Consing
    <3>2. Front(k.dir) \in Seq(Names)
      BY <1>0, <2>2 DEF Front
    <3> QED
      BY <1>0, <3>1, <3>2, Passing
  <2> QED
    BY <1>3, <2>1, <2>2, KernelClimbs
<1>4. CASE k.end = "walking" /\ k.rest # <<>> /\ Head(k.rest) # Up
  <2> DEFINE path == Append(k.dir, Head(k.rest))
             entry == Lookup(w, path)
             base == Against(entry.text, k.dir)
             end == IF Tail(k.rest) = <<>> THEN entry.kind ELSE "none"
  <2>1. Tail(k.rest) \in Seq(Parts) /\ Head(k.rest) \in Names
    BY <1>0, <1>4, Consing DEF Parts
  <2>2. path \in Seq(Names)
    BY <1>0, <2>1, AppendProperties
  <2>3. /\ entry.kind = "link" =>
              Resolve(w)[k] = Walk(base, entry.text.parts \o Tail(k.rest), Append(k.links, path), "walking")
        /\ entry.kind = "dir" => Resolve(w)[k] = Walk(path, Tail(k.rest), k.links, "walking")
        /\ entry.kind \notin {"link", "dir"} => Resolve(w)[k] = Walk(path, Tail(k.rest), k.links, end)
    BY <1>4, KernelTakes
  <2>4. entry.kind \in {"none", "file", "dir", "pipe", "link"}
    BY Lookups
  <2>5. entry.kind = "link" =>
          /\ path \in Paths
          /\ entry.text.parts \o Tail(k.rest) \in Seq(Parts)
          /\ Append(k.links, path) \in Seq(Paths)
    BY <1>0, <2>1, Lookups, ConcatProperties, AppendProperties
  <2>6. base \in Seq(Names) /\ (entry.kind \notin {"link", "dir"} => end \in {"walking", "none", "file", "dir", "pipe"})
    BY <1>0, <2>4 DEF Against
  <2> HIDE DEF path, entry, base, end
  <2>7. CASE entry.kind = "link"
    <3>1. Passes(k, Walk(base, entry.text.parts \o Tail(k.rest), Append(k.links, path), "walking"))
      BY <2>5, <2>6, <2>7, Passing
    <3> QED
      BY <2>3, <2>7, <3>1
  <2>8. CASE entry.kind = "dir"
    <3>1. Passes(k, Walk(path, Tail(k.rest), k.links, "walking"))
      BY <1>0, <2>1, <2>2, Passing
    <3> QED
      BY <2>3, <2>8, <3>1
  <2>9. CASE entry.kind \notin {"link", "dir"}
    <3>1. Passes(k, Walk(path, Tail(k.rest), k.links, end))
      BY <1>0, <2>1, <2>2, <2>6, <2>9, Passing
    <3> QED
      BY <2>3, <2>9, <3>1
  <2> QED
    BY <2>4, <2>7, <2>8, <2>9
<1> QED
  BY <1>0, <1>1, <1>2, <1>3, <1>4

LEMMA KernelSteps ==
  ASSUME NEW w \in [Paths -> Entries], NEW start \in Starts
  PROVE  /\ Kernel(w, start)[0] = Walk(<<>>, start, <<>>, "walking")
         /\ \A n \in Nat : /\ Kernel(w, start)[n] \in Walks
                           /\ Kernel(w, start)[n + 1] = Resolve(w)[Kernel(w, start)[n]]
<1> DEFINE k0 == Walk(<<>>, start, <<>>, "walking")
<1>1. k0 \in Walks
  <2>1. start \in Seq(Parts)
    BY StartsAssumption, SeqMonotonic DEF Parts
  <2> QED
    BY <2>1, WalkIs, EmptySeq
<1>2. Kernel(w, start) = Iterate(Resolve(w), k0)
  BY DEF Kernel
<1> HIDE DEF k0
<1>3. Resolve(w) \in [Walks -> Walks]
  <2>1. \A k \in Walks : Resolve(w)[k] \in Walks
    BY WalksOn DEF Passes
  <2> QED
    BY <2>1 DEF Resolve
<1>4. \A n \in Nat : Kernel(w, start)[n] \in Walks
  BY <1>1, <1>2, <1>3, IteratesIn
<1>5. Kernel(w, start)[0] = k0 /\ \A n \in Nat : Kernel(w, start)[n + 1] = Resolve(w)[Kernel(w, start)[n]]
  BY <1>2, Iterating
<1> QED
  BY <1>4, <1>5 DEF k0

\* It ends once.
LEMMA EndStands ==
  ASSUME NEW w \in [Paths -> Entries], NEW start \in Starts, NEW n \in Nat,
         Kernel(w, start)[n].end # "walking"
  PROVE  \A m \in Nat : m >= n => Kernel(w, start)[m] = Kernel(w, start)[n]
<1> DEFINE S == {i \in Nat : Kernel(w, start)[n + i] = Kernel(w, start)[n]}
<1>1. 0 \in S
  OBVIOUS
<1>2. ASSUME NEW i \in S PROVE i + 1 \in S
  <2>1. n + i \in Nat /\ (n + i) + 1 = n + (i + 1) /\ Kernel(w, start)[n + i] = Kernel(w, start)[n]
    OBVIOUS
  <2>2. Kernel(w, start)[(n + i) + 1] = Resolve(w)[Kernel(w, start)[n + i]]
    BY <2>1, KernelSteps
  <2>3. Resolve(w)[Kernel(w, start)[n]] = Kernel(w, start)[n]
    BY KernelSteps, KernelEnded
  <2> QED
    BY <2>1, <2>2, <2>3
<1> HIDE DEF S
<1>3. S = Nat
  BY <1>1, <1>2, Induction DEF S
<1>4. ASSUME NEW m \in Nat, m >= n PROVE Kernel(w, start)[m] = Kernel(w, start)[n]
  <2>1. m - n \in S /\ m = n + (m - n)
    BY <1>3, <1>4
  <2> QED
    BY <2>1 DEF S
<1> QED
  BY <1>4

LEMMA OneEnd ==
  ASSUME NEW w \in [Paths -> Entries], NEW start \in Starts, NEW n \in Nat, NEW m \in Nat,
         Kernel(w, start)[n].end # "walking", Kernel(w, start)[m].end # "walking"
  PROVE  Kernel(w, start)[n] = Kernel(w, start)[m]
<1>1. m >= n \/ n >= m
  OBVIOUS
<1> QED
  BY <1>1, EndStands

LEMMA AppendTwice ==
  ASSUME NEW S, NEW s \in Seq(S), NEW e \in S, ~IsInjective(s) \/ e \in ToSet(s)
  PROVE  ~IsInjective(Append(s, e))
<1> DEFINE l == Append(s, e)
<1>1. Len(s) \in Nat /\ DOMAIN s = 1 .. Len(s) /\ l \in Seq(S) /\ Len(l) = Len(s) + 1
  BY LenProperties, AppendProperties
<1>2. DOMAIN l = 1 .. Len(s) + 1 /\ l[Len(s) + 1] = e /\ \A i \in 1 .. Len(s) : l[i] = s[i]
  BY <1>1, LenProperties, AppendProperties
<1> HIDE DEF l
<1>3. ASSUME ~IsInjective(s) PROVE ~IsInjective(l)
  BY <1>1, <1>2, <1>3 DEF IsInjective
<1>4. ASSUME e \in ToSet(s) PROVE ~IsInjective(l)
  <2>1. PICK i \in 1 .. Len(s) : s[i] = e
    BY <1>1, <1>4 DEF ToSet
  <2>2. i # Len(s) + 1 /\ i \in DOMAIN l /\ Len(s) + 1 \in DOMAIN l /\ l[i] = l[Len(s) + 1]
    BY <1>1, <1>2, <2>1
  <2> QED
    BY <2>2 DEF IsInjective
<1>5. ~IsInjective(l)
  BY <1>3, <1>4
<1> QED
  BY <1>5 DEF l

\* A link it has gone through twice stays so.
LEMMA TwiceStands ==
  ASSUME NEW w \in [Paths -> Entries], NEW start \in Starts, NEW n \in Nat,
         ~IsInjective(Kernel(w, start)[n].links)
  PROVE  \A m \in Nat : m >= n => ~IsInjective(Kernel(w, start)[m].links)
<1> DEFINE S == {i \in Nat : ~IsInjective(Kernel(w, start)[n + i].links)}
<1>1. 0 \in S
  OBVIOUS
<1>2. ASSUME NEW i \in S PROVE i + 1 \in S
  <2>1. n + i \in Nat /\ (n + i) + 1 = n + (i + 1) /\ ~IsInjective(Kernel(w, start)[n + i].links)
    OBVIOUS
  <2>2. /\ Kernel(w, start)[(n + i) + 1] = Resolve(w)[Kernel(w, start)[n + i]]
        /\ Kernel(w, start)[n + i] \in Walks
    BY <2>1, KernelSteps
  <2> DEFINE k == Kernel(w, start)[n + i]
             links == Resolve(w)[k].links
  <2>3. links = k.links \/ \E path \in Paths : links = Append(k.links, path)
    BY <2>2, WalksOn DEF Passes
  <2>4. k.links \in Seq(Paths) /\ ~IsInjective(k.links)
    BY <2>1, <2>2, WalkFields
  <2> HIDE DEF k, links
  <2>5. ~IsInjective(links)
    BY <2>3, <2>4, AppendTwice
  <2> QED
    BY <2>1, <2>2, <2>5 DEF k, links
<1> HIDE DEF S
<1>3. S = Nat
  BY <1>1, <1>2, Induction DEF S
<1>4. ASSUME NEW m \in Nat, m >= n PROVE ~IsInjective(Kernel(w, start)[m].links)
  <2>1. m - n \in S /\ m = n + (m - n)
    BY <1>3, <1>4
  <2> QED
    BY <2>1 DEF S
<1> QED
  BY <1>4

-----------------------------------------------------------------------------
(* More about sequences: a name made of what is behind and what is ahead. *)

LEMMA PrefixBehind ==
  ASSUME NEW S, NEW dir \in Seq(S), NEW rest \in Seq(S), NEW i \in 1 .. Len(dir)
  PROVE  SubSeq(dir \o rest, 1, i) = SubSeq(dir, 1, i)
BY SubSeqOfConcat1, LenProperties

LEMMA AppendPrefix ==
  ASSUME NEW S, NEW s \in Seq(S), NEW e \in S
  PROVE  /\ \A i \in 1 .. Len(s) : SubSeq(Append(s, e), 1, i) = SubSeq(s, 1, i)
         /\ SubSeq(Append(s, e), 1, Len(s) + 1) = Append(s, e)
         /\ Front(Append(s, e)) = s
<1>1. <<e>> \in Seq(S) /\ Append(s, e) = s \o <<e>> /\ Len(Append(s, e)) = Len(s) + 1 /\ Append(s, e) \in Seq(S)
  BY AppendIsConcat, AppendProperties
<1>2. \A i \in 1 .. Len(s) : SubSeq(Append(s, e), 1, i) = SubSeq(s, 1, i)
  BY <1>1, PrefixBehind
<1>3. SubSeq(Append(s, e), 1, Len(s) + 1) = Append(s, e)
  BY <1>1, SubSeqFull
<1>4. Front(Append(s, e)) = s
  <2>1. CASE s = <<>>
    <3>1. Front(Append(s, e)) = SubSeq(Append(s, e), 1, 0)
      BY <1>1, <2>1, EmptySeq DEF Front
    <3> QED
      BY <2>1, <3>1, SubSeqEmpty
  <2>2. CASE s # <<>>
    <3>1. Len(s) \in 1 .. Len(s)
      BY <2>2, EmptySeq
    <3>2. Front(Append(s, e)) = SubSeq(Append(s, e), 1, Len(s))
      BY <1>1, <3>1 DEF Front
    <3> QED
      BY <1>2, <3>1, <3>2, SubSeqFull
  <2> QED
    BY <2>1, <2>2
<1> QED
  BY <1>2, <1>3, <1>4

LEMMA FrontPrefix ==
  ASSUME NEW S, NEW s \in Seq(S), s # <<>>
  PROVE  /\ Front(s) \in Seq(S) /\ Len(Front(s)) = Len(s) - 1
         /\ \A i \in 1 .. Len(s) - 1 : SubSeq(Front(s), 1, i) = SubSeq(s, 1, i)
<1>1. PICK f \in Seq(S), e \in S : s = Append(f, e)
  BY SequenceEmptyOrAppend
<1>2. Front(s) = f /\ Len(s) = Len(f) + 1 /\ Len(f) \in Nat
  BY <1>1, AppendPrefix, AppendProperties, LenProperties
<1> QED
  BY <1>1, <1>2, AppendPrefix

LEMMA NextPart ==
  ASSUME NEW S, NEW dir \in Seq(S), NEW rest \in Seq(S), rest # <<>>
  PROVE  /\ SubSeq(dir \o rest, 1, Len(dir) + 1) = Append(dir, Head(rest))
         /\ SubSeq(dir \o rest, Len(dir) + 2, Len(dir \o rest)) = Tail(rest)
         /\ Len(dir) + 1 = Len(dir \o rest) <=> Tail(rest) = <<>>
<1>1. /\ Head(rest) \in S /\ Tail(rest) \in Seq(S) /\ Len(rest) \in Nat \ {0} /\ Len(dir) \in Nat
      /\ Len(Tail(rest)) = Len(rest) - 1
  BY Consing, LenProperties
<1>0. Tail(rest) = <<>> <=> Len(rest) = 1
  <2>1. Len(Tail(rest)) = 0 => Tail(rest) = <<>>
    BY <1>1, EmptySeq
  <2>2. Tail(rest) = <<>> => Len(Tail(rest)) = Len(<<>>)
    OBVIOUS
  <2>3. Len(<<>>) = 0
    OBVIOUS
  <2> QED
    BY <1>1, <2>1, <2>2, <2>3
<1> DEFINE h == Append(dir, Head(rest))
           whole == h \o Tail(rest)
<1>2. whole = dir \o rest /\ h \in Seq(S) /\ Len(h) = Len(dir) + 1 /\ Len(h) \in 1 .. Len(h)
  BY <1>1, Shifting, AppendProperties
<1>3. Len(dir \o rest) = Len(dir) + Len(rest) /\ dir \o rest \in Seq(S)
  BY ConcatProperties
<1> HIDE DEF h
<1>4. SubSeq(whole, 1, Len(h)) = h
  BY <1>1, <1>2, PrefixBehind, SubSeqFull
<1>5. SubSeq(dir \o rest, Len(dir) + 2, Len(dir \o rest)) = Tail(rest)
  <2>1. CASE Tail(rest) = <<>>
    <3>1. Len(dir \o rest) < Len(dir) + 2 /\ Len(dir) + 2 \in Int /\ Len(dir \o rest) \in Int
      BY <1>0, <1>1, <1>3, <2>1
    <3> QED
      BY <2>1, <3>1, SubSeqEmpty
  <2>2. CASE Tail(rest) # <<>>
    <3>1. Len(Tail(rest)) \in Nat \ {0}
      BY <1>1, <2>2, EmptySeq
    <3> DEFINE m == Len(h) + 1
               n == Len(h) + Len(Tail(rest))
    <3>2. /\ m \in Len(h) + 1 .. Len(h) + Len(Tail(rest))
          /\ n \in Len(h) + 1 .. Len(h) + Len(Tail(rest))
          /\ m - Len(h) = 1 /\ n - Len(h) = Len(Tail(rest))
          /\ m = Len(dir) + 2 /\ n = Len(dir \o rest)
      BY <1>1, <1>2, <1>3, <3>1
    <3> HIDE DEF m, n
    <3>3. SubSeq(whole, m, n) = SubSeq(Tail(rest), m - Len(h), n - Len(h))
      BY <1>1, <1>2, <3>2, SubSeqOfConcat2
    <3> QED
      BY <1>1, <1>2, <3>2, <3>3, SubSeqFull
  <2> QED
    BY <2>1, <2>2
<1>6. Len(dir) + 1 = Len(dir \o rest) <=> Tail(rest) = <<>>
  BY <1>0, <1>1, <1>3
<1> QED
  BY <1>2, <1>4, <1>5, <1>6 DEF h

LEMMA ClimbsThenNames ==
  ASSUME NEW r \in Seq(Parts), NEW s \in Seq(Names), ClimbsFirst(r)
  PROVE  ClimbsFirst(r \o s)
<1>1. s \in Seq(Parts) /\ \A i \in 1 .. Len(s) : s[i] # Up
  BY SeqMonotonic, ElementOfSeq, OutsideIsNoName DEF Parts
<1>2. /\ Len(r \o s) = Len(r) + Len(s) /\ Len(r) \in Nat /\ Len(s) \in Nat
      /\ \A i \in 1 .. Len(r \o s) : (r \o s)[i] = IF i <= Len(r) THEN r[i] ELSE s[i - Len(r)]
  BY <1>1, ConcatProperties, LenProperties
<1> SUFFICES ASSUME NEW i \in 1 .. Len(r \o s), NEW j \in 1 .. Len(r \o s), i < j, (r \o s)[j] = Up
             PROVE  (r \o s)[i] = Up
  BY DEF ClimbsFirst
<1>3. j <= Len(r)
  <2> SUFFICES ASSUME j > Len(r) PROVE FALSE
    BY <1>2
  <2>1. j - Len(r) \in 1 .. Len(s) /\ (r \o s)[j] = s[j - Len(r)]
    BY <1>2
  <2> QED
    BY <1>1, <2>1
<1> QED
  BY <1>2, <1>3 DEF ClimbsFirst

-----------------------------------------------------------------------------
(* The two walks. *)

\* Every directory on the way to dir is one.
Directories(w, dir) == \A i \in 1 .. Len(dir) : Lookup(w, SubSeq(dir, 1, i)).kind = "dir"

LEMMA DirectoriesBehind ==
  ASSUME NEW w, NEW dir \in Seq(Names), dir # <<>>, Directories(w, dir)
  PROVE  Directories(w, Front(dir))
<1>1. Len(dir) \in Nat /\ Len(Front(dir)) = Len(dir) - 1 /\
      \A i \in 1 .. Len(dir) - 1 : SubSeq(Front(dir), 1, i) = SubSeq(dir, 1, i)
  BY FrontPrefix, LenProperties
<1> SUFFICES ASSUME NEW i \in 1 .. Len(Front(dir)) PROVE Lookup(w, SubSeq(Front(dir), 1, i)).kind = "dir"
  BY DEF Directories
<1>2. i \in 1 .. Len(dir) - 1 /\ i \in 1 .. Len(dir)
  BY <1>1
<1> QED
  BY <1>1, <1>2 DEF Directories

LEMMA DirectoriesAhead ==
  ASSUME NEW w, NEW dir \in Seq(Names), NEW e \in Names, Directories(w, dir),
         Lookup(w, Append(dir, e)).kind = "dir"
  PROVE  Directories(w, Append(dir, e))
<1>1. /\ Len(dir) \in Nat /\ Len(Append(dir, e)) = Len(dir) + 1
      /\ \A i \in 1 .. Len(dir) : SubSeq(Append(dir, e), 1, i) = SubSeq(dir, 1, i)
      /\ SubSeq(Append(dir, e), 1, Len(dir) + 1) = Append(dir, e)
  BY AppendPrefix, AppendProperties, LenProperties
<1> SUFFICES ASSUME NEW i \in 1 .. Len(Append(dir, e)) PROVE Lookup(w, SubSeq(Append(dir, e), 1, i)).kind = "dir"
  BY DEF Directories
<1>2. i \in 1 .. Len(dir) \/ i = Len(dir) + 1
  BY <1>1
<1> QED
  BY <1>1, <1>2 DEF Directories

\* After n parts the kernel has still to go where the name `at' leads, through
\* the links seen.
Beside(w, start, n, at, seen) ==
  LET k == Kernel(w, start)[n] IN
  /\ k.end = "walking"
  /\ Directories(w, k.dir)
  /\ ClimbsFirst(k.rest)
  /\ CleanFrom(k.dir, k.rest) = at
  /\ ToSet(k.links) = seen
  /\ IsInjective(k.links)
  /\ n + Len(k.rest) <= MaxParts * (Cardinality(seen) + 1)

\* The code has come no further than the kernel, or to a file in the kernel's way.
Level(w, at, p, dir) ==
  \/ p <= Len(dir)
  \/ /\ p = Len(dir) + 1
     /\ p < Len(at)
     /\ Lookup(w, SubSeq(at, 1, p)).kind \in {"file", "pipe"}

Together(w, start, n, at, p, seen) ==
  /\ Beside(w, start, n, at, seen)
  /\ Kernel(w, start)[n].rest \in Seq(Names)
  /\ Level(w, at, p, Kernel(w, start)[n].dir)

LEMMA StartsTogether ==
  ASSUME NEW w \in [Paths -> Entries], NEW start \in Starts
  PROVE  Clean(start) = start /\ Together(w, start, 0, start, 0, {})
<1>1. start \in Seq(Names) /\ Len(start) <= MaxParts /\ <<>> \in Seq(Names) /\ Len(<<>>) = 0 /\ start \in Seq(Parts)
  BY StartsAssumption, EmptySeq, SeqMonotonic DEF Parts
<1>2. CleanFrom(<<>>, start) = start
  BY <1>1, CleanNames, ConcatEmptySeq
<1>3. Clean(start) = start
  BY <1>1, <1>2, CleanIs, ConcatEmptySeq
<1> DEFINE k == Kernel(w, start)[0]
<1>4. k.dir = <<>> /\ k.rest = start /\ k.links = <<>> /\ k.end = "walking"
  <2>1. k = Walk(<<>>, start, <<>>, "walking")
    BY KernelSteps
  <2> HIDE DEF k
  <2> QED
    BY <2>1 DEF Walk
<1>5. Directories(w, <<>>) /\ ToSet(<<>>) = {} /\ IsInjective(<<>>)
  BY <1>1 DEF Directories, ToSet, IsInjective
<1>6. ClimbsFirst(start)
  BY <1>1, ElementOfSeq, OutsideIsNoName DEF ClimbsFirst
<1>7. 0 + Len(start) <= MaxParts * (Cardinality({}) + 1)
  BY <1>1, StepsAssumption, FS_EmptySet, LenProperties
<1> HIDE DEF k
<1>8. Level(w, start, 0, k.dir)
  BY <1>1, <1>4 DEF Level
<1> QED
  BY <1>1, <1>2, <1>3, <1>4, <1>5, <1>6, <1>7, <1>8 DEF Together, Beside, k

\* The fields of the kernel's walk, where the code's name has no climb left.
LEMMA WhereTogether ==
  ASSUME NEW w \in [Paths -> Entries], NEW start \in Starts, NEW n \in Nat,
         NEW at, NEW p, NEW seen, Together(w, start, n, at, p, seen)
  PROVE  LET k == Kernel(w, start)[n] IN
         /\ k \in Walks /\ k.dir \in Seq(Names) /\ k.rest \in Seq(Names) /\ k.links \in Seq(Paths)
         /\ k.end = "walking"
         /\ at = k.dir \o k.rest /\ at \in Seq(Names)
<1> DEFINE k == Kernel(w, start)[n]
<1>1. k \in Walks
  BY KernelSteps
<1>2. k.end = "walking" /\ k.rest \in Seq(Names) /\ CleanFrom(k.dir, k.rest) = at
  BY DEF Together, Beside
<1> HIDE DEF k
<1>3. k.dir \in Seq(Names) /\ k.links \in Seq(Paths)
  BY <1>1, WalkFields
<1>4. at = k.dir \o k.rest
  BY <1>2, <1>3, CleanNames
<1>5. at \in Seq(Names)
  BY <1>2, <1>3, <1>4, ConcatProperties
<1> QED
  BY <1>1, <1>2, <1>3, <1>4, <1>5 DEF k

\* The kernel comes to an end of this kind; it goes through a link twice.
Ends(w, start, end) == \E m \in Nat : Kernel(w, start)[m].end = end
Twice(w, start) == \E m \in Nat : ~IsInjective(Kernel(w, start)[m].links)

\* A walk of the code that goes on, p parts down the name `at'.
Going(w, start, at, p, seen) ==
  \/ \E m \in Nat : Together(w, start, m, at, p, seen)
  \/ at = Outside /\ Ends(w, start, "none")

\* Climbing is left to the kernel: what is left of a text has been cleaned.
LEMMA CatchesUp ==
  ASSUME NEW w \in [Paths -> Entries], NEW start \in Starts, NEW at, NEW seen
  PROVE  \A n \in Nat : Beside(w, start, n, at, seen) => Going(w, start, at, 0, seen)
<1> DEFINE Reached == Going(w, start, at, 0, seen)
           S == {l \in Nat : \A n \in Nat :
                   Beside(w, start, n, at, seen) /\ Len(Kernel(w, start)[n].rest) = l => Reached}
<1>1. ASSUME NEW n \in Nat, Beside(w, start, n, at, seen),
             Kernel(w, start)[n].rest = <<>> \/ Head(Kernel(w, start)[n].rest) # Up
      PROVE  Reached
  <2> DEFINE k == Kernel(w, start)[n]
  <2>1. k.dir \in Seq(Names) /\ k.rest \in Seq(Parts) /\ ClimbsFirst(k.rest) /\ Len(k.dir) \in Nat
    BY <1>1, KernelSteps, WalkFields, LenProperties DEF Beside
  <2>2. k.rest \in Seq(Names)
    BY <1>1, <2>1, ClimbsNoMore
  <2>3. Level(w, at, 0, k.dir)
    BY <2>1 DEF Level
  <2>4. Together(w, start, n, at, 0, seen)
    BY <1>1, <2>2, <2>3 DEF Together
  <2> QED
    BY <2>4 DEF Going
<1>2. 0 \in S
  <2> SUFFICES ASSUME NEW n \in Nat, Beside(w, start, n, at, seen), Len(Kernel(w, start)[n].rest) = 0
               PROVE  Reached
    OBVIOUS
  <2>1. Kernel(w, start)[n].rest = <<>>
    BY KernelSteps, WalkFields, EmptySeq
  <2> HIDE DEF Reached
  <2> QED
    BY <1>1, <2>1
<1>3. ASSUME NEW l \in Nat,
             \A n \in Nat : Beside(w, start, n, at, seen) /\ Len(Kernel(w, start)[n].rest) = l => Reached,
             NEW n \in Nat, Beside(w, start, n, at, seen), Len(Kernel(w, start)[n].rest) = l + 1
      PROVE  Reached
  <2> HIDE DEF S
  <2> DEFINE k == Kernel(w, start)[n]
             next == Kernel(w, start)[n + 1]
  <2>1. /\ k \in Walks /\ k.dir \in Seq(Names) /\ k.rest \in Seq(Parts) /\ k.links \in Seq(Paths)
        /\ next = Resolve(w)[k]
    BY KernelSteps, WalkFields
  <2>2. /\ k.rest # <<>> /\ Tail(k.rest) \in Seq(Parts) /\ Len(Tail(k.rest)) = l /\ ClimbsFirst(Tail(k.rest))
        /\ k.end = "walking"
    <3> DEFINE rest == k.rest
    <3>1. rest \in Seq(Parts) /\ Len(rest) = l + 1 /\ ClimbsFirst(rest) /\ k.end = "walking"
      BY <1>3, <2>1 DEF Beside
    <3> HIDE DEF rest
    <3>2. rest # <<>>
      BY <3>1, EmptySeq
    <3>3. Tail(rest) \in Seq(Parts) /\ Len(Tail(rest)) = l /\ ClimbsFirst(Tail(rest))
      BY <3>1, <3>2, Consing, ClimbsOn
    <3> QED
      BY <3>1, <3>2, <3>3 DEF rest
  <2>3. CASE Head(k.rest) # Up
    <3> HIDE DEF Reached
    <3> QED
      BY <1>1, <1>3, <2>3
  <2>4. CASE Head(k.rest) = Up
    <3>1. at = CleanFrom(Parent(k.dir), Tail(k.rest))
      BY <1>3, <2>1, <2>2, <2>4, CleanTakes DEF Beside, Taken, Places
    <3>2. CASE k.dir = <<>>
      <4>1. next.end = "none"
        <5>1. next = Walk(<<>>, k.rest, k.links, "none")
          BY <2>1, <2>2, <2>4, <3>2, KernelClimbs
        <5> HIDE DEF next
        <5> QED
          BY <5>1 DEF Walk
      <4>2. at = Outside
        BY <2>2, <3>1, <3>2, CleanStaysOut DEF Parent
      <4> QED
        BY <4>1, <4>2 DEF Going, Ends
    <3>3. CASE k.dir # <<>>
      <4>1. next = Walk(Front(k.dir), Tail(k.rest), k.links, "walking")
        BY <2>1, <2>2, <2>4, <3>3, KernelClimbs
      <4>2. next.dir = Front(k.dir) /\ next.rest = Tail(k.rest) /\ next.links = k.links /\ next.end = "walking"
        BY <4>1 DEF Walk
      <4>3. Directories(w, Front(k.dir))
        BY <1>3, <2>1, <3>3, DirectoriesBehind DEF Beside
      <4>4. CleanFrom(Front(k.dir), Tail(k.rest)) = at
        BY <2>1, <3>1, <3>3, OutsideIsNoName DEF Parent
      <4>5. n + 1 \in Nat /\ (n + 1) + l = n + (l + 1)
        OBVIOUS
      <4>6. Beside(w, start, n + 1, at, seen)
        <5>1. (n + 1) + Len(Tail(k.rest)) <= MaxParts * (Cardinality(seen) + 1)
          BY <1>3, <2>2, <4>5 DEF Beside
        <5> QED
          BY <1>3, <2>2, <4>2, <4>3, <4>4, <5>1 DEF Beside
      <4>7. Len(Kernel(w, start)[n + 1].rest) = l
        BY <2>2, <4>2
      <4> HIDE DEF Reached
      <4> QED
        BY <1>3, <4>5, <4>6, <4>7
    <3> QED
      BY <3>2, <3>3
  <2> QED
    BY <2>3, <2>4
<1> HIDE DEF Reached
<1>4. S = Nat
  <2>1. \A l \in S : l + 1 \in S
    BY <1>3
  <2> HIDE DEF S
  <2> QED
    BY <1>2, <2>1, Induction DEF S
<1>5. \A n \in Nat : Len(Kernel(w, start)[n].rest) \in Nat
  BY KernelSteps, WalkFields, LenProperties
<1> QED
  BY <1>4, <1>5 DEF Reached

LEMMA FrontOfPrefix ==
  ASSUME NEW S, NEW s \in Seq(S), NEW m \in 1 .. Len(s)
  PROVE  /\ Len(SubSeq(s, 1, m)) = m
         /\ Front(SubSeq(s, 1, m)) = SubSeq(s, 1, m - 1)
<1>1. /\ \A i \in 1 .. m : s[i] \in S
      /\ Len(s) \in Nat /\ m \in 1 .. m /\ 1 \in Int /\ m \in Int /\ m - 1 \in Int /\ 1 <= m
  BY ElementOfSeq, LenProperties
<1>2. Len(SubSeq(s, 1, m)) = m
  BY <1>1, SubSeqProperties
<1>3. SubSeq(s, 1, m - 1) \in Seq(S) /\ s[m] \in S
  <2>1. \A i \in 1 .. m - 1 : s[i] \in S
    BY <1>1
  <2> QED
    BY <1>1, <2>1, SubSeqProperties
<1>4. 1 \in 1 .. Len(s) /\ m \in 1 .. Len(s)
  BY <1>1
<1> DEFINE front == SubSeq(s, 1, m - 1)
<1>5. SubSeq(s, 1, m) = front \o <<s[m]>>
  BY <1>4, SubSeqRecursiveSecond
<1> HIDE DEF front
<1>6. SubSeq(s, 1, m) = Append(front, s[m]) /\ front \in Seq(S)
  BY <1>3, <1>5, AppendIsConcat DEF front
<1>7. Front(SubSeq(s, 1, m)) = front
  BY <1>3, <1>6, AppendPrefix
<1> QED
  BY <1>2, <1>7 DEF front

\* The next part of the code's name is the part the kernel takes next.
Ahead(dir, rest, at, p, cur) ==
  /\ p = Len(dir)
  /\ rest # <<>> /\ Head(rest) \in Names /\ Tail(rest) \in Seq(Names)
  /\ cur = Append(dir, Head(rest)) /\ Front(cur) = dir
  /\ SubSeq(at, p + 2, Len(at)) = Tail(rest)
  /\ (p + 1 = Len(at) <=> Tail(rest) = <<>>)

LEMMA Standing ==
  ASSUME NEW w \in [Paths -> Entries], WellFormed(w), NEW start \in Starts, NEW n \in Nat,
         NEW at, NEW p \in Nat, NEW seen, Together(w, start, n, at, p, seen), p < Len(at),
         NEW cur, cur = SubSeq(at, 1, p + 1)
  PROVE  LET k == Kernel(w, start)[n] IN
         \/ p < Len(k.dir) /\ Lookup(w, cur).kind = "dir"
         \/ Ahead(k.dir, k.rest, at, p, cur)
         \/ /\ p = Len(k.dir) + 1
            /\ Lookup(w, cur).kind = "none"
            /\ Kernel(w, start)[n + 1].end = "none"
<1> DEFINE k == Kernel(w, start)[n]
           next == Kernel(w, start)[n + 1]
           dir  == k.dir
           rest == k.rest
<1>1. /\ k \in Walks /\ dir \in Seq(Names) /\ rest \in Seq(Names) /\ k.end = "walking"
      /\ at = dir \o rest /\ at \in Seq(Names)
  BY WhereTogether
<1>2. Directories(w, dir) /\ Level(w, at, p, dir)
  BY DEF Together, Beside
<1>3. next = Resolve(w)[k]
  BY KernelSteps
<1>0. k.dir = dir /\ k.rest = rest
  OBVIOUS
<1> HIDE DEF k, next, dir, rest
<1>4. /\ Len(dir) \in Nat /\ Len(rest) \in Nat /\ Len(at) = Len(dir) + Len(rest)
      /\ Len(at) \in Nat /\ p + 1 \in 1 .. Len(at)
  BY <1>1, LenProperties, ConcatProperties
<1>5. CASE p < Len(dir)
  <2>1. p + 1 \in 1 .. Len(dir)
    BY <1>4, <1>5
  <2>2. cur = SubSeq(dir, 1, p + 1)
    BY <1>1, <2>1, PrefixBehind
  <2> QED
    BY <1>2, <1>5, <2>1, <2>2 DEF Directories, dir, k
<1>6. CASE p = Len(dir)
  <2>1. rest # <<>>
    BY <1>4, <1>6, EmptySeq
  <2>2. Head(rest) \in Names /\ Tail(rest) \in Seq(Names)
    BY <1>1, <2>1, Consing
  <2>3. /\ cur = Append(dir, Head(rest))
        /\ SubSeq(at, p + 2, Len(at)) = Tail(rest)
        /\ (p + 1 = Len(at) <=> Tail(rest) = <<>>)
    BY <1>1, <1>6, <2>1, NextPart
  <2>4. Front(cur) = dir
    BY <1>1, <2>2, <2>3, AppendPrefix
  <2>5. Ahead(dir, rest, at, p, cur)
    BY <1>6, <2>1, <2>2, <2>3, <2>4 DEF Ahead
  <2> QED
    BY <2>5 DEF dir, rest, k
<1>7. CASE p > Len(dir)
  <2>1. p = Len(dir) + 1 /\ Lookup(w, SubSeq(at, 1, p)).kind \in {"file", "pipe"}
    BY <1>2, <1>4, <1>7 DEF Level
  <2>2. rest # <<>> /\ p \in Nat /\ p \in 1 .. Len(at)
    BY <1>4, <2>1, EmptySeq
  <2>3. Head(rest) \in Names /\ Head(rest) # Up
    BY <1>1, <2>2, Consing, OutsideIsNoName
  <2>4. SubSeq(at, 1, p) = Append(dir, Head(rest)) /\ (p = Len(at) <=> Tail(rest) = <<>>)
    BY <1>1, <2>1, <2>2, NextPart
  <2>5. next.end = "none"
    <3>1. Tail(rest) # <<>>
      BY <1>4, <2>4
    <3>2. /\ k.rest # <<>> /\ Head(k.rest) # Up /\ Tail(k.rest) # <<>>
          /\ Lookup(w, Append(k.dir, Head(k.rest))).kind \notin {"link", "dir"}
      BY <1>0, <2>1, <2>2, <2>3, <2>4, <3>1
    <3> DEFINE path  == Append(k.dir, Head(k.rest))
               entry == Lookup(w, path)
    <3>3. next = Walk(path, Tail(k.rest), k.links, IF Tail(k.rest) = <<>> THEN entry.kind ELSE "none")
      <4>1. k \in Walks /\ k.end = "walking" /\ k.rest # <<>> /\ Head(k.rest) # Up /\ entry.kind \notin {"link", "dir"}
        BY <1>1, <3>2
      <4> QED
        BY <1>3, <4>1, KernelTakes
    <3> HIDE DEF path, entry
    <3> QED
      BY <3>2, <3>3 DEF Walk
  <2>6. Lookup(w, cur).kind = "none"
    <3> SUFFICES ASSUME Lookup(w, cur).kind # "none" PROVE FALSE
      OBVIOUS
    <3>1. cur \in Paths /\ w[cur].kind # "none"
      BY Lookups DEF Lookup
    <3>2. Len(cur) = p + 1 /\ Front(cur) = SubSeq(at, 1, p)
      <4>1. (p + 1) - 1 = p
        OBVIOUS
      <4> QED
        BY <1>1, <1>4, <4>1, FrontOfPrefix
    <3>3. Len(cur) > 1
      BY <2>2, <3>2
    <3>4. Front(cur) \in Paths /\ w[Front(cur)].kind = "dir"
      BY <3>1, <3>3 DEF WellFormed
    <3> QED
      BY <2>1, <3>2, <3>4 DEF Lookup
  <2> QED
    BY <2>1, <2>5, <2>6 DEF dir, k, next
<1> QED
  BY <1>4, <1>5, <1>6, <1>7

\* The kernel ends at cur, or there is nothing behind it to go to.
Stops(k, next, kind, cur) ==
  next.dir = cur /\ next.links = k.links /\ next.end = IF Tail(k.rest) = <<>> THEN kind ELSE "none"

LEMMA TakesAhead ==
  ASSUME NEW w \in [Paths -> Entries], NEW start \in Starts, NEW n \in Nat,
         NEW at, NEW p, NEW seen, Together(w, start, n, at, p, seen),
         NEW cur, Ahead(Kernel(w, start)[n].dir, Kernel(w, start)[n].rest, at, p, cur)
  PROVE  LET k     == Kernel(w, start)[n]
             next  == Kernel(w, start)[n + 1]
             entry == Lookup(w, cur) IN
         /\ entry.kind = "link" =>
              next = Walk(Against(entry.text, k.dir),
                          entry.text.parts \o Tail(k.rest), Append(k.links, cur), "walking")
         /\ entry.kind = "dir" => next = Walk(cur, Tail(k.rest), k.links, "walking")
         /\ entry.kind \notin {"link", "dir"} => Stops(k, next, entry.kind, cur)
<1> DEFINE k == Kernel(w, start)[n]
           entry == Lookup(w, cur)
           next == Kernel(w, start)[n + 1]
<1>1. k \in Walks /\ k.end = "walking" /\ next = Resolve(w)[k]
  BY KernelSteps, WhereTogether
<1>2. k.rest # <<>> /\ Head(k.rest) # Up /\ cur = Append(k.dir, Head(k.rest))
  BY OutsideIsNoName DEF Ahead
<1>3. entry = Lookup(w, cur)
  OBVIOUS
<1> HIDE DEF k, entry, next
<1>4. /\ entry.kind = "link" =>
           Resolve(w)[k] = Walk(Against(entry.text, k.dir),
                                entry.text.parts \o Tail(k.rest), Append(k.links, cur), "walking")
      /\ entry.kind = "dir" => Resolve(w)[k] = Walk(cur, Tail(k.rest), k.links, "walking")
      /\ entry.kind \notin {"link", "dir"} =>
           Resolve(w)[k] = Walk(cur, Tail(k.rest), k.links, IF Tail(k.rest) = <<>> THEN entry.kind ELSE "none")
  BY <1>1, <1>2, <1>3 DEF Resolve
<1>5. entry.kind \notin {"link", "dir"} => Stops(k, next, entry.kind, cur)
  BY <1>1, <1>4 DEF Walk, Stops
<1> QED
  BY <1>1, <1>4, <1>5 DEF k, entry, next

\* inputFiles.follow meets a missing name: so does the kernel.
LEMMA MissingToBoth ==
  ASSUME NEW w \in [Paths -> Entries], WellFormed(w), NEW start \in Starts, NEW n \in Nat,
         NEW at, NEW p \in Nat, NEW seen, Together(w, start, n, at, p, seen), p < Len(at),
         NEW cur, cur = SubSeq(at, 1, p + 1), Lookup(w, cur).kind = "none"
  PROVE  Ends(w, start, "none")
<1> DEFINE k == Kernel(w, start)[n]
           next == Kernel(w, start)[n + 1]
<1>1. n + 1 \in Nat
  OBVIOUS
<1>2. CASE Ahead(k.dir, k.rest, at, p, cur)
  <2>1. Lookup(w, cur).kind \notin {"link", "dir"}
    OBVIOUS
  <2>2. Stops(k, next, "none", cur)
    BY <1>2, <2>1, TakesAhead
  <2>3. next.end = "none"
    BY <2>2 DEF Stops
  <2> QED
    BY <1>1, <2>3 DEF Ends
<1>3. CASE next.end = "none"
  BY <1>1, <1>3 DEF Ends
<1> QED
  BY <1>2, <1>3, Standing

\* A name in the way is not its last part: both go on, or the kernel is at
\* the end of its walk and the code soon is.
LEMMA GoingOn ==
  ASSUME NEW w \in [Paths -> Entries], WellFormed(w), NEW start \in Starts, NEW n \in Nat,
         NEW at, NEW p \in Nat, NEW seen, Together(w, start, n, at, p, seen), p < Len(at),
         NEW cur, cur = SubSeq(at, 1, p + 1), Lookup(w, cur).kind \in {"file", "dir", "pipe"},
         p + 1 # Len(at)
  PROVE  Going(w, start, at, p + 1, seen)
<1> DEFINE k == Kernel(w, start)[n]
           next == Kernel(w, start)[n + 1]
<1>1. /\ k \in Walks /\ k.dir \in Seq(Names) /\ k.rest \in Seq(Names) /\ k.links \in Seq(Paths)
      /\ at = k.dir \o k.rest /\ at \in Seq(Names)
  BY WhereTogether
<1>2. Beside(w, start, n, at, seen) /\ k.rest \in Seq(Names)
  BY DEF Together
<1>3. n + 1 \in Nat /\ p + 1 < Len(at)
  <2>1. Len(at) \in Nat
    BY <1>1, LenProperties
  <2> HIDE DEF k, next
  <2> QED
    BY <2>1
<1>4. CASE p < Len(k.dir)
  <2>1. p + 1 <= Len(k.dir)
    <3>1. Len(k.dir) \in Nat
      BY <1>1, LenProperties
    <3> DEFINE l == Len(k.dir)
    <3> HIDE DEF l
    <3> QED
      BY <1>4, <3>1 DEF l
  <2>2. Level(w, at, p + 1, k.dir)
    BY <2>1 DEF Level
  <2> QED
    BY <1>2, <2>2 DEF Going, Together
<1>5. CASE Ahead(k.dir, k.rest, at, p, cur) /\ Lookup(w, cur).kind # "dir"
  <2>1. p = Len(k.dir)
    BY <1>5 DEF Ahead
  <2>2. Level(w, at, p + 1, k.dir)
    BY <1>3, <1>5, <2>1 DEF Level
  <2> QED
    BY <1>2, <2>2 DEF Going, Together
<1>6. CASE Ahead(k.dir, k.rest, at, p, cur) /\ Lookup(w, cur).kind = "dir"
  <2> DEFINE h == Head(k.rest)
             after == Tail(k.rest)
  <2>1. /\ p = Len(k.dir) /\ k.rest # <<>> /\ h \in Names /\ after \in Seq(Names)
        /\ cur = Append(k.dir, h)
    BY <1>6 DEF Ahead
  <2>2. next.dir = cur /\ next.rest = after /\ next.links = k.links /\ next.end = "walking"
    <3>1. next = Walk(cur, after, k.links, "walking")
      BY <1>6, TakesAhead
    <3> HIDE DEF next
    <3> QED
      BY <3>1 DEF Walk
  <2>3. Directories(w, cur)
    BY <1>1, <1>2, <1>6, <2>1, DirectoriesAhead DEF Beside
  <2>4. ClimbsFirst(after) /\ CleanFrom(cur, after) = at
    <3>1. k.rest \in Seq(Parts) /\ h # Up /\ k.dir \in Places /\ k.dir # Outside
      BY <1>1, <2>1, WalkFields, OutsideIsNoName DEF Places
    <3>2. ClimbsFirst(after)
      BY <1>2, <2>1, <3>1, ClimbsOn DEF Beside
    <3>3. CleanFrom(k.dir, k.rest) = CleanFrom(Taken(k.dir, h), after)
      BY <2>1, <3>1, CleanTakes
    <3> QED
      BY <1>2, <2>1, <3>1, <3>2, <3>3 DEF Beside, Taken
  <2>5. (n + 1) + Len(after) <= MaxParts * (Cardinality(seen) + 1)
    <3> DEFINE l == Len(k.rest)
               m == Len(after)
               bound == MaxParts * (Cardinality(seen) + 1)
    <3>1. l \in Nat /\ m = l - 1 /\ n + l <= bound
      BY <1>1, <1>2, <2>1, Consing DEF Beside
    <3> HIDE DEF l, m, bound
    <3>2. (n + 1) + m = n + l
      BY <3>1
    <3> QED
      BY <3>1, <3>2 DEF m, bound
  <2>6. Beside(w, start, n + 1, at, seen)
    BY <1>2, <2>2, <2>3, <2>4, <2>5 DEF Beside
  <2>7. Level(w, at, p + 1, next.dir)
    <3>1. Len(cur) = Len(k.dir) + 1
      BY <1>1, <2>1, AppendProperties
    <3> QED
      BY <2>1, <2>2, <3>1 DEF Level
  <2>8. Together(w, start, n + 1, at, p + 1, seen)
    BY <2>1, <2>2, <2>6, <2>7 DEF Together
  <2> QED
    BY <1>3, <2>8 DEF Going
<1> QED
  BY <1>4, <1>5, <1>6, Standing

\* Where a link leads to from dir, with `after' still to go.
LeadsTo(text, dir, after) == Clean(Against(text, dir) \o text.parts \o after)

\* The kernel goes through the link cur, whose text this is.
Through(k, next, text, cur) ==
  /\ next.dir = Against(text, k.dir) /\ next.rest = text.parts \o Tail(k.rest)
  /\ next.links = Append(k.links, cur) /\ next.end = "walking"

\* Only a directory has entries, so that the code meets a link where the
\* kernel does.
LEMMA LinksAreAhead ==
  ASSUME NEW w \in [Paths -> Entries], WellFormed(w), NEW start \in Starts, NEW n \in Nat,
         NEW at, NEW p \in Nat, NEW seen, Together(w, start, n, at, p, seen), p < Len(at),
         NEW cur, cur = SubSeq(at, 1, p + 1), Lookup(w, cur).kind = "link"
  PROVE  LET k     == Kernel(w, start)[n]
             next  == Kernel(w, start)[n + 1]
             text  == Lookup(w, cur).text IN
         /\ Ahead(k.dir, k.rest, at, p, cur)
         /\ Through(k, next, text, cur)
         /\ cur \in Paths
<1> DEFINE k == Kernel(w, start)[n]
           next == Kernel(w, start)[n + 1]
           entry == Lookup(w, cur)
<1>1. Ahead(k.dir, k.rest, at, p, cur)
  BY Standing
<1>2. next = Walk(Against(entry.text, k.dir), entry.text.parts \o Tail(k.rest), Append(k.links, cur), "walking")
  BY <1>1, TakesAhead
<1>3. cur \in Paths
  BY Lookups
<1> HIDE DEF next
<1>4. Through(k, next, entry.text, cur)
  BY <1>2 DEF Walk, Through
<1> QED
  BY <1>1, <1>3, <1>4 DEF next

\* A link met again: the kernel goes through it twice.
LEMMA CycleToBoth ==
  ASSUME NEW w \in [Paths -> Entries], WellFormed(w), NEW start \in Starts, NEW n \in Nat,
         NEW at, NEW p \in Nat, NEW seen, Together(w, start, n, at, p, seen), p < Len(at),
         NEW cur, cur = SubSeq(at, 1, p + 1), Lookup(w, cur).kind = "link", cur \in seen
  PROVE  Twice(w, start)
<1> DEFINE k == Kernel(w, start)[n]
           next == Kernel(w, start)[n + 1]
           text == Lookup(w, cur).text
<1>1. next.links = Append(k.links, cur)
  <2>1. Through(k, next, text, cur)
    BY LinksAreAhead
  <2> QED
    BY <2>1 DEF Through
<1>2. k.links \in Seq(Paths) /\ cur \in Paths /\ cur \in ToSet(k.links)
  BY LinksAreAhead, WhereTogether DEF Together, Beside
<1> HIDE DEF next
<1>3. ~IsInjective(next.links)
  BY <1>1, <1>2, AppendTwice
<1>4. n + 1 \in Nat
  OBVIOUS
<1> QED
  BY <1>3, <1>4 DEF Twice, next

LEMMA AppendOnce ==
  ASSUME NEW S, NEW s \in Seq(S), NEW e \in S, IsInjective(s), e \notin ToSet(s)
  PROVE  IsInjective(Append(s, e)) /\ ToSet(Append(s, e)) = ToSet(s) \cup {e}
<1>1. /\ Len(s) \in Nat /\ Len(Append(s, e)) = Len(s) + 1
      /\ \A i \in 1 .. Len(s) : Append(s, e)[i] = s[i]
      /\ Append(s, e)[Len(s) + 1] = e
  BY AppendProperties, LenProperties
<1>2. DOMAIN s = 1 .. Len(s) /\ DOMAIN Append(s, e) = 1 .. Len(s) + 1
  BY <1>1, LenProperties, AppendProperties
<1>3. \A i \in 1 .. Len(s) : s[i] # e
  BY <1>2 DEF ToSet
<1>4. \A i \in 1 .. Len(s) + 1 : i \in 1 .. Len(s) \/ i = Len(s) + 1
  BY <1>1
<1>5. IsInjective(Append(s, e))
  BY <1>1, <1>2, <1>3, <1>4 DEF IsInjective
<1>6. ToSet(Append(s, e)) = ToSet(s) \cup {e}
  <2>1. \A i \in 1 .. Len(s) : i \in 1 .. Len(s) + 1
    BY <1>1
  <2>2. Len(s) + 1 \in 1 .. Len(s) + 1
    BY <1>1
  <2> QED
    BY <1>1, <1>2, <1>4, <2>1, <2>2 DEF ToSet
<1> QED
  BY <1>5, <1>6

\* A link met for the first time: both go where it leads.
LEMMA ThroughBoth ==
  ASSUME TextsClimbFirst,
         NEW w \in [Paths -> Entries], WellFormed(w), NEW start \in Starts, NEW n \in Nat,
         NEW at, NEW p \in Nat, NEW seen, Together(w, start, n, at, p, seen), p < Len(at),
         NEW cur, cur = SubSeq(at, 1, p + 1), Lookup(w, cur).kind = "link", cur \notin seen
  PROVE  Going(w, start, LeadsTo(Lookup(w, cur).text, Front(cur), SubSeq(at, p + 2, Len(at))), 0, seen \cup {cur})
<1> DEFINE k == Kernel(w, start)[n]
           next == Kernel(w, start)[n + 1]
           text == Lookup(w, cur).text
           parts == text.parts
           base == Against(text, k.dir)
           after == Tail(k.rest)
           to == LeadsTo(text, Front(cur), SubSeq(at, p + 2, Len(at)))
           now == seen \cup {cur}
<1>1. Ahead(k.dir, k.rest, at, p, cur) /\ cur \in Paths
  BY LinksAreAhead
<1>2. /\ k \in Walks /\ k.dir \in Seq(Names) /\ k.rest \in Seq(Names) /\ k.links \in Seq(Paths)
      /\ Beside(w, start, n, at, seen)
  BY WhereTogether DEF Together
<1>3. /\ text \in Texts /\ parts \in Seq(Parts) /\ Len(parts) <= MaxParts /\ ClimbsFirst(parts)
  BY Lookups DEF TextsClimbFirst
<1>4. after \in Seq(Names) /\ after \in Seq(Parts) /\ k.rest # <<>>
  BY <1>1, SeqMonotonic DEF Ahead, Parts
<1>5. next.dir = base /\ next.rest = parts \o after /\ next.links = Append(k.links, cur) /\ next.end = "walking"
  <2>1. Through(k, next, text, cur)
    BY LinksAreAhead
  <2> QED
    BY <2>1 DEF Through
<1>6. base \in Seq(Names) /\ Directories(w, base)
  <2>1. <<>> \in Seq(Names) /\ Directories(w, <<>>)
    BY EmptySeq DEF Directories
  <2>2. Directories(w, k.dir)
    BY <1>2 DEF Beside
  <2> QED
    BY <1>2, <2>1, <2>2 DEF Against
<1>7. ClimbsFirst(parts \o after)
  BY <1>3, <1>4, ClimbsThenNames
<1>8. CleanFrom(base, parts \o after) = to
  <2>1. to = Clean(base \o parts \o after)
    BY <1>1 DEF Ahead, LeadsTo
  <2> HIDE DEF base, parts, after, to
  <2>2. parts \o after \in Seq(Parts) /\ base \in Seq(Parts)
    BY <1>3, <1>4, <1>6, ConcatProperties, SeqMonotonic DEF Parts
  <2>3. base \o parts \o after = base \o (parts \o after)
    BY <1>3, <1>4, <2>2, ConcatAssociative
  <2> QED
    BY <1>6, <2>1, <2>2, <2>3, CleanIs
<1>9. ToSet(next.links) = now /\ IsInjective(next.links)
  <2> DEFINE links == k.links
  <2>1. links \in Seq(Paths) /\ IsInjective(links) /\ ToSet(links) = seen
    BY <1>2 DEF Beside
  <2> HIDE DEF links
  <2>2. IsInjective(Append(links, cur)) /\ ToSet(Append(links, cur)) = now
    BY <1>1, <2>1, AppendOnce
  <2> QED
    BY <1>5, <2>2 DEF links
<1>10. seen \subseteq Paths /\ IsFiniteSet(seen) /\ Cardinality(seen) \in Nat
  <2>1. seen = ToSet(k.links) /\ DOMAIN k.links = 1 .. Len(k.links)
    BY <1>2, LenProperties DEF Beside
  <2>2. seen \subseteq Paths
    BY <1>2, <2>1, ElementOfSeq DEF ToSet
  <2> QED
    BY <2>2, PathsAssumption, FS_Subset, FS_CardinalityType
<1>11. Cardinality(now) = Cardinality(seen) + 1
  BY <1>10, FS_AddElement
<1>12. (n + 1) + Len(parts \o after) <= MaxParts * (Cardinality(now) + 1)
  <2> DEFINE l == Len(k.rest)
             m == Len(after)
             q == Len(parts)
             c == Cardinality(seen)
  <2>1. l \in Nat \ {0} /\ m = l - 1
    BY <1>2, <1>4, Consing
  <2>2. q \in Nat /\ q <= MaxParts /\ Len(parts \o after) = q + m
    BY <1>3, <1>4, ConcatProperties, LenProperties
  <2>3. n + l <= MaxParts * (c + 1)
    BY <1>2 DEF Beside
  <2>4. c \in Nat /\ Cardinality(now) = c + 1 /\ MaxParts \in Nat
    BY <1>10, <1>11, StepsAssumption
  <2> HIDE DEF l, m, q, c, now, parts, after
  <2>5. MaxParts * ((c + 1) + 1) = MaxParts * (c + 1) + MaxParts
    BY <2>4
  <2> DEFINE b == MaxParts * (c + 1)
  <2>6. b \in Nat
    BY <2>4
  <2> HIDE DEF b
  <2>7. (n + 1) + (q + m) <= b + MaxParts
    BY <2>1, <2>2, <2>3, <2>4, <2>6 DEF b
  <2> QED
    BY <2>2, <2>4, <2>5, <2>7 DEF b
<1>13. Beside(w, start, n + 1, to, now)
  <2> HIDE DEF base, parts, after, to, now
  <2> QED
    BY <1>5, <1>6, <1>7, <1>8, <1>9, <1>12 DEF Beside
<1>14. n + 1 \in Nat
  OBVIOUS
<1> HIDE DEF to, now
<1>15. Going(w, start, to, 0, now)
  BY <1>13, <1>14, CatchesUp
<1> QED
  BY <1>15 DEF to, now

LEMMA ArrivesAt ==
  ASSUME NEW w \in [Paths -> Entries], NEW start \in Starts, NEW n \in Nat,
         Kernel(w, start)[n].end = "walking", Kernel(w, start)[n].rest = <<>>
  PROVE  Ends(w, start, "dir")
<1> DEFINE k == Kernel(w, start)[n]
           next == Kernel(w, start)[n + 1]
<1>1. n + 1 \in Nat
  OBVIOUS
<1>2. next = Walk(k.dir, <<>>, k.links, "dir")
  BY KernelSteps, KernelArrives
<1> HIDE DEF next
<1>3. next.end = "dir"
  BY <1>2 DEF Walk
<1> QED
  BY <1>1, <1>3 DEF Ends, next

\* Within its bound the kernel opens the file `at', through the links seen.
Opens(w, start, at, seen) ==
  \E m \in 0 .. MaxSteps :
    LET k == Kernel(w, start)[m] IN k.end = "file" /\ k.dir = at /\ ToSet(k.links) = seen

\* The last part is no link: where the code is, the kernel ends.
LEMMA LeafToBoth ==
  ASSUME NEW w \in [Paths -> Entries], WellFormed(w), NEW start \in Starts, NEW n \in Nat,
         NEW at, NEW p \in Nat, NEW seen, Together(w, start, n, at, p, seen), p < Len(at),
         NEW cur, cur = SubSeq(at, 1, p + 1), Lookup(w, cur).kind \in {"file", "dir", "pipe"},
         p + 1 = Len(at)
  PROVE  /\ Lookup(w, cur).kind = "file" => Opens(w, start, at, seen)
         /\ Lookup(w, cur).kind # "file" => Ends(w, start, Lookup(w, cur).kind)
<1> DEFINE k == Kernel(w, start)[n]
           next == Kernel(w, start)[n + 1]
           kind == Lookup(w, cur).kind
           dir == k.dir
           rest == k.rest
<1>1. /\ k.dir = dir /\ k.rest = rest /\ dir \in Seq(Names) /\ rest \in Seq(Names)
      /\ k.links \in Seq(Paths) /\ k.end = "walking"
      /\ at = dir \o rest /\ at \in Seq(Names)
  BY WhereTogether
<1>2. Beside(w, start, n, at, seen) /\ n + 1 \in Nat
  BY DEF Together
<1>3. CASE p < Len(dir) /\ kind = "dir"
  <2>1. rest = <<>>
    <3> HIDE DEF dir, rest, k, kind
    <3>1. Len(at) = Len(dir) + Len(rest) /\ Len(dir) \in Nat /\ Len(rest) \in Nat
      BY <1>1, ConcatProperties, LenProperties
    <3> QED
      BY <1>1, <1>3, <3>1, EmptySeq
  <2>2. Ends(w, start, "dir")
    BY <1>1, <2>1, ArrivesAt
  <2> QED
    BY <1>3, <2>2
<1>4. CASE Ahead(k.dir, k.rest, at, p, cur)
  <2>1. Tail(k.rest) = <<>> /\ k.rest # <<>>
    BY <1>4 DEF Ahead
  <2>2. CASE kind = "dir"
    <3>1. next = Walk(cur, Tail(k.rest), k.links, "walking")
      BY <1>4, <2>2, TakesAhead
    <3>2. next.end = "walking" /\ next.rest = <<>>
      <4> HIDE DEF next
      <4> QED
        BY <2>1, <3>1 DEF Walk
    <3>3. Ends(w, start, "dir")
      BY <1>2, <3>2, ArrivesAt
    <3> QED
      BY <2>2, <3>3
  <2>3. CASE kind # "dir"
    <3>1. kind \notin {"link", "dir"}
      BY <2>3
    <3>2. next.end = kind /\ next.dir = cur /\ next.links = k.links
      <4>1. Stops(k, next, kind, cur)
        BY <1>4, <3>1, TakesAhead
      <4> QED
        BY <2>1, <4>1 DEF Stops
    <3>3. kind # "file" => Ends(w, start, kind)
      BY <1>2, <3>2 DEF Ends
    <3>4. cur = at
      BY <1>1, SubSeqFull
    <3>5. ToSet(k.links) = seen
      BY <1>2 DEF Beside
    <3>6. n + 1 <= MaxSteps
      <4> DEFINE l == Len(k.rest)
                 c == Cardinality(seen)
                 all == Cardinality(Paths)
      <4>1. l \in Nat \ {0}
        BY <1>1, <2>1, Consing
      <4>2. c \in Nat /\ all \in Nat /\ c <= all
        <5>1. DOMAIN k.links = 1 .. Len(k.links)
          BY <1>1, LenProperties
        <5>2. seen \in SUBSET Paths
          BY <1>1, <3>5, <5>1, ElementOfSeq DEF ToSet
        <5>3. IsFiniteSet(seen)
          BY <5>2, PathsAssumption, FS_Subset
        <5> QED
          BY <5>2, <5>3, PathsAssumption, FS_Subset, FS_CardinalityType
      <4>3. n + l <= MaxParts * (c + 1)
        BY <1>2 DEF Beside
      <4>4. MaxParts \in Nat /\ MaxSteps \in Nat /\ MaxSteps > MaxParts * (all + 1)
        BY StepsAssumption
      <4> HIDE DEF l, c, all
      <4> DEFINE less == MaxParts * (c + 1)
                 more == MaxParts * (all - c)
      <4>5. all - c \in Nat /\ less \in Nat /\ more \in Nat
        BY <4>2, <4>4
      <4>6. MaxParts * (all + 1) = less + more
        BY <4>2, <4>4
      <4> HIDE DEF less, more
      <4>7. n + l <= less
        BY <4>3 DEF less
      <4>8. MaxSteps > less + more
        BY <4>4, <4>6
      <4> QED
        BY <4>1, <4>4, <4>5, <4>7, <4>8
    <3>7. kind = "file" => Opens(w, start, at, seen)
      <4>1. n + 1 \in 0 .. MaxSteps
        BY <1>2, <3>6, StepsAssumption
      <4> QED
        BY <3>2, <3>4, <3>5, <4>1 DEF Opens
    <3> QED
      BY <3>3, <3>7
  <2> QED
    BY <2>2, <2>3
<1>5. CASE kind = "none"
  BY <1>5
<1> QED
  BY <1>3, <1>4, <1>5, Standing

\* What the kernel comes to within its bound.
LEMMA AsOpened ==
  ASSUME NEW w \in [Paths -> Entries], NEW start \in Starts, NEW at, NEW seen, Opens(w, start, at, seen)
  PROVE  LET k == Kernel(w, start)[MaxSteps] IN k.end = "file" /\ k.dir = at /\ ToSet(k.links) = seen
<1>1. PICK m \in 0 .. MaxSteps :
        LET k == Kernel(w, start)[m] IN k.end = "file" /\ k.dir = at /\ ToSet(k.links) = seen
  BY DEF Opens
<1>2. m \in Nat /\ MaxSteps \in Nat /\ MaxSteps >= m
  BY StepsAssumption
<1>3. Kernel(w, start)[MaxSteps] = Kernel(w, start)[m]
  BY <1>1, <1>2, EndStands
<1> QED
  BY <1>1, <1>3

LEMMA NotOpened ==
  ASSUME NEW w \in [Paths -> Entries], NEW start \in Starts,
         NEW end \in {"none", "dir", "pipe"}, Ends(w, start, end)
  PROVE  Kernel(w, start)[MaxSteps].end # "file"
<1>1. PICK m \in Nat : Kernel(w, start)[m].end = end
  BY DEF Ends
<1> SUFFICES ASSUME Kernel(w, start)[MaxSteps].end = "file" PROVE FALSE
  OBVIOUS
<1>2. Kernel(w, start)[m] = Kernel(w, start)[MaxSteps]
  BY <1>1, OneEnd, StepsAssumption
<1> QED
  BY <1>1, <1>2

LEMMA TwiceOpened ==
  ASSUME NEW w \in [Paths -> Entries], NEW start \in Starts, Twice(w, start),
         Kernel(w, start)[MaxSteps].end = "file"
  PROVE  ~IsInjective(Kernel(w, start)[MaxSteps].links)
<1>1. PICK m \in Nat : ~IsInjective(Kernel(w, start)[m].links)
  BY DEF Twice
<1> DEFINE last == m + MaxSteps
<1>2. last \in Nat /\ last >= m /\ last >= MaxSteps /\ MaxSteps \in Nat
  BY StepsAssumption
<1> HIDE DEF last
<1>3. ~IsInjective(Kernel(w, start)[last].links)
  BY <1>1, <1>2, TwiceStands
<1>4. Kernel(w, start)[last] = Kernel(w, start)[MaxSteps]
  BY <1>2, EndStands
<1> QED
  BY <1>3, <1>4

\* The name of the root: the kernel opens a directory.
LEMMA RootToBoth ==
  ASSUME NEW w \in [Paths -> Entries], NEW start \in Starts, NEW n \in Nat,
         NEW p, NEW seen, Together(w, start, n, <<>>, p, seen)
  PROVE  Ends(w, start, "dir")
<1> DEFINE k == Kernel(w, start)[n]
           dir == k.dir
           rest == k.rest
<1>1. /\ dir \in Seq(Names) /\ rest \in Seq(Names) /\ <<>> = dir \o rest /\ k.end = "walking"
  BY WhereTogether
<1> HIDE DEF dir, rest
<1>2. Len(dir) \in Nat /\ Len(rest) \in Nat /\ Len(dir \o rest) = Len(dir) + Len(rest) /\ Len(<<>>) = 0
  BY <1>1, LenProperties, ConcatProperties
<1>3. Len(dir \o rest) = 0
  BY <1>1, <1>2
<1>4. rest = <<>>
  BY <1>1, <1>2, <1>3, EmptySeq
<1> QED
  BY <1>1, <1>4, ArrivesAt DEF rest

\* A name the code cannot write is one the kernel has before it, and within its
\* bound, since it has not ended there.
LEMMA OddToBoth ==
  ASSUME fs \in [Paths -> Entries], asked \in Starts, NEW n \in Nat,
         NEW p, NEW seen, Together(fs, asked, n, name, p, seen), ~Written(name),
         Kernel(fs, asked)[MaxSteps].end = "file"
  PROVE  MeetsOdd
<1> DEFINE k == Kernel(fs, asked)[n]
<1>1. k.end = "walking" /\ name = k.dir \o k.rest
  BY WhereTogether
<1>2. ~Written(k.dir \o k.rest)
  BY <1>1
<1>3. CASE n <= MaxSteps
  BY <1>2, <1>3, StepsAssumption DEF MeetsOdd
<1>4. CASE n > MaxSteps
  <2>1. Kernel(fs, asked)[n] = Kernel(fs, asked)[MaxSteps]
    BY <1>4, EndStands, StepsAssumption
  <2> QED
    BY <1>1, <2>1
<1> QED
  BY <1>3, <1>4, StepsAssumption

-----------------------------------------------------------------------------
(* The invariant: while the code walks, the kernel is somewhere on its way to *)
(* the same name, through the same links.                                     *)

Workspace == fs \in [Paths -> Entries] /\ WellFormed(fs) /\ asked \in Starts

Inv ==
  /\ Workspace
  /\ pos \in Nat
  /\ outcome = "walking" => Going(fs, asked, name, pos, visiting)
  /\ IdentifiesConsumed
  /\ MissesNothing

LEMMA GoingTypes ==
  ASSUME NEW w \in [Paths -> Entries], NEW start \in Starts, NEW at, NEW p, NEW seen,
         Going(w, start, at, p, seen)
  PROVE  at = Outside \/ at \in Seq(Names)
BY WhereTogether DEF Going

LEMMA InitInv == Init => Inv
<1> SUFFICES ASSUME Init PROVE Inv
  OBVIOUS
<1>1. Workspace /\ pos = 0 /\ visiting = {} /\ outcome = "walking" /\ name = Clean(asked)
  BY DEF Init, Workspace
<1>2. Clean(asked) = asked /\ Together(fs, asked, 0, asked, 0, {})
  BY <1>1, StartsTogether DEF Workspace
<1>3. Going(fs, asked, name, pos, visiting)
  BY <1>1, <1>2 DEF Going
<1>4. TypeOK
  BY <1>1, <1>2, StartsAssumption DEF TypeOK, Workspace
<1> QED
  BY <1>1, <1>3, <1>4 DEF Inv, IdentifiesConsumed, MissesNothing

\* A walk that ends without a file: what is left to show of it.
LEMMA Concluding ==
  ASSUME Inv, NEW result \in {"external-filesystem", "filesystem-discovery", "non-regular-input"},
         Conclude(result), NEW end \in {"none", "dir", "pipe"}, Ends(fs, asked, end)
  PROVE  Inv'
<1>1. /\ fs' = fs /\ asked' = asked /\ name' = name /\ pos' = pos /\ visiting' = visiting
      /\ outcome' = result /\ outcome' \notin {"walking", "file"}
  BY DEF Conclude
<1>2. Workspace' /\ Consumed' = Consumed /\ TypeOK'
  BY <1>1 DEF Inv, Workspace, Consumed, IdentifiesConsumed, TypeOK
<1>3. Consumed.end # "file"
  BY NotOpened DEF Inv, Workspace, Consumed
<1> QED
  BY <1>1, <1>2, <1>3 DEF Inv, IdentifiesConsumed, MissesNothing

\* A step of a walk that goes on.
LEMMA WalkingOn ==
  ASSUME Inv, UNCHANGED <<fs, asked, outcome>>, outcome = "walking", pos' \in Nat,
         visiting' \subseteq Paths, Going(fs, asked, name', pos', visiting')
  PROVE  Inv'
<1>1. Workspace' /\ TypeOK'
  <2>1. name' = Outside \/ name' \in Seq(Names)
    BY GoingTypes DEF Inv, Workspace
  <2> QED
    BY <2>1 DEF Inv, Workspace, IdentifiesConsumed, TypeOK
<1> QED
  BY <1>1 DEF Inv, IdentifiesConsumed, MissesNothing

LEMMA NextInv ==
  ASSUME TextsClimbFirst, Inv, [Next]_vars
  PROVE  Inv'
<1>1. Workspace /\ fs \in [Paths -> Entries] /\ WellFormed(fs) /\ asked \in Starts /\ pos \in Nat /\ visiting \subseteq Paths
  BY DEF Inv, Workspace, IdentifiesConsumed, TypeOK
<1>2. ASSUME Walking
      PROVE  /\ outcome = "walking" /\ pos < Len(name)
             /\ \E n \in Nat : Together(fs, asked, n, name, pos, visiting)
  BY <1>2 DEF Walking, Inv, Going
<1>3. Entry(Current) = Lookup(fs, Current) /\ Current = SubSeq(name, 1, pos + 1)
  BY DEF Entry, Current
<1>4. CASE Escape
  <2>1. outcome = "walking" /\ name = Outside /\ Conclude("external-filesystem")
    BY <1>4 DEF Escape
  <2>2. Ends(fs, asked, "none")
    BY <1>1, <2>1, WhereTogether, OutsideIsNoName DEF Inv, Going
  <2> QED
    BY <2>1, <2>2, Concluding
<1>5. CASE NotFound
  <2>1. Walking /\ Entry(Current).kind = "none" /\ Conclude("filesystem-discovery")
    BY <1>5 DEF NotFound
  <2>2. PICK n \in Nat : Together(fs, asked, n, name, pos, visiting)
    BY <1>2, <2>1
  <2>3. Ends(fs, asked, "none")
    BY <1>1, <1>2, <1>3, <2>1, <2>2, MissingToBoth
  <2> QED
    BY <2>1, <2>3, Concluding
<1>6. CASE Link
  <2>1. /\ Walking /\ Entry(Current).kind = "link" /\ Current \notin visiting
        /\ visiting' = visiting \cup {Current} /\ name' = Target /\ pos' = 0
        /\ UNCHANGED <<fs, asked, outcome>>
    BY <1>6 DEF Link, Seen
  <2>2. PICK n \in Nat : Together(fs, asked, n, name, pos, visiting)
    BY <1>2, <2>1
  <2>3. Going(fs, asked, LeadsTo(Lookup(fs, Current).text, Front(Current), SubSeq(name, pos + 2, Len(name))),
              0, visiting \cup {Current})
    BY <1>1, <1>2, <1>3, <2>1, <2>2, ThroughBoth
  <2>4. Going(fs, asked, name', pos', visiting')
    BY <1>3, <2>1, <2>3 DEF Target, LeadsTo
  <2>5. visiting' \subseteq Paths /\ pos' \in Nat
    BY <1>1, <1>3, <2>1, Lookups
  <2> QED
    BY <1>2, <2>1, <2>4, <2>5, WalkingOn
<1>7. CASE Cycle
  <2>1. Walking /\ Entry(Current).kind = "link" /\ Current \in visiting /\ Conclude("symlink-cycle")
    BY <1>7 DEF Cycle, Seen
  <2>2. PICK n \in Nat : Together(fs, asked, n, name, pos, visiting)
    BY <1>2, <2>1
  <2>3. Twice(fs, asked)
    BY <1>1, <1>2, <1>3, <2>1, <2>2, CycleToBoth
  <2>4. /\ fs' = fs /\ asked' = asked /\ name' = name /\ pos' = pos /\ visiting' = visiting
        /\ outcome' = "symlink-cycle" /\ outcome' # "walking" /\ outcome' # "file"
    BY <2>1 DEF Conclude
  <2>5. Workspace' /\ Consumed' = Consumed /\ TypeOK'
    BY <2>4 DEF Inv, Workspace, Consumed, IdentifiesConsumed, TypeOK
  <2>6. Consumed.end = "file" => ~IsInjective(Consumed.links)
    BY <1>1, <2>3, TwiceOpened DEF Consumed
  <2> QED
    BY <1>1, <2>4, <2>5, <2>6 DEF Inv, IdentifiesConsumed, MissesNothing
<1>8. CASE Descend
  <2>1. /\ Walking /\ Entry(Current).kind \in {"file", "dir", "pipe"} /\ pos + 1 # Len(name)
        /\ pos' = pos + 1 /\ name' = name /\ visiting' = visiting /\ UNCHANGED <<fs, asked, outcome>>
    BY <1>8 DEF Descend, IsLast
  <2>2. PICK n \in Nat : Together(fs, asked, n, name, pos, visiting)
    BY <1>2, <2>1
  <2>3. Going(fs, asked, name, pos + 1, visiting)
    BY <1>1, <1>2, <1>3, <2>1, <2>2, GoingOn
  <2> QED
    BY <1>1, <1>2, <2>1, <2>3, WalkingOn
<1>9. CASE Leaf
  <2>1. /\ Walking /\ Entry(Current).kind \in {"file", "dir", "pipe"} /\ pos + 1 = Len(name)
        /\ Conclude(IF Entry(Current).kind = "file" THEN "file" ELSE "non-regular-input")
    BY <1>9 DEF Leaf, IsLast
  <2>2. PICK n \in Nat : Together(fs, asked, n, name, pos, visiting)
    BY <1>2, <2>1
  <2> DEFINE kind == Lookup(fs, Current).kind
  <2>3. /\ kind = "file" => Opens(fs, asked, name, visiting)
        /\ kind # "file" => Ends(fs, asked, kind)
    BY <1>1, <1>2, <1>3, <2>1, <2>2, LeafToBoth
  <2>4. CASE kind = "file"
    <3>1. /\ fs' = fs /\ asked' = asked /\ name' = name /\ pos' = pos /\ visiting' = visiting /\ outcome' = "file"
      BY <1>3, <2>1, <2>4 DEF Conclude
    <3>2. Consumed.end = "file" /\ Consumed.dir = name /\ ToSet(Consumed.links) = visiting
      BY <1>1, <2>3, <2>4, AsOpened DEF Consumed
    <3>3. Workspace' /\ Consumed' = Consumed /\ TypeOK'
      BY <3>1 DEF Inv, Workspace, Consumed, IdentifiesConsumed, TypeOK
    <3> QED
      BY <1>1, <2>3, <2>4, <3>1, <3>2, <3>3 DEF Inv, IdentifiesConsumed, MissesNothing
  <2>5. CASE kind # "file"
    <3>1. Conclude("non-regular-input") /\ Ends(fs, asked, kind) /\ kind \in {"dir", "pipe"}
      BY <1>3, <2>1, <2>3, <2>5
    <3> QED
      BY <3>1, Concluding
  <2> QED
    BY <2>4, <2>5
<1>10. CASE Root
  <2>1. outcome = "walking" /\ name = <<>> /\ Conclude("non-regular-input")
    BY <1>10 DEF Root
  <2>2. <<>> # Outside
    BY OutsideIsNoName, EmptySeq
  <2>3. Ends(fs, asked, "dir")
    BY <1>1, <2>1, <2>2, RootToBoth DEF Inv, Going
  <2> QED
    BY <2>1, <2>3, Concluding
<1>11. CASE NoName
  <2>1. outcome = "walking" /\ name # Outside /\ ~Written(name) /\ Conclude("unrepresentable-filesystem-path")
    BY <1>11 DEF NoName
  <2>2. PICK n \in Nat : Together(fs, asked, n, name, pos, visiting)
    BY <2>1 DEF Inv, Going
  <2>3. Kernel(fs, asked)[MaxSteps].end = "file" => MeetsOdd
    BY <1>1, <2>1, <2>2, OddToBoth
  <2>4. /\ fs' = fs /\ asked' = asked /\ name' = name /\ pos' = pos /\ visiting' = visiting
        /\ outcome' = "unrepresentable-filesystem-path" /\ outcome' # "walking" /\ outcome' # "file"
    BY <2>1 DEF Conclude
  <2>5. Workspace' /\ Consumed' = Consumed /\ TypeOK' /\ (MeetsOdd <=> MeetsOdd')
    BY <2>4 DEF Inv, Workspace, Consumed, IdentifiesConsumed, TypeOK, MeetsOdd
  <2>6. Consumed.end = "file" => MeetsOdd
    BY <2>3 DEF Consumed
  <2> QED
    BY <1>1, <2>4, <2>5, <2>6 DEF Inv, IdentifiesConsumed, MissesNothing
<1>12. CASE UNCHANGED vars
  BY <1>12 DEF Inv, Workspace, IdentifiesConsumed, MissesNothing, MeetsOdd, TypeOK, Consumed, vars
<1> QED
  BY <1>4, <1>5, <1>6, <1>7, <1>8, <1>9, <1>10, <1>11, <1>12 DEF Next

LEMMA Invariant == ASSUME TextsClimbFirst PROVE Spec => []Inv
<1>1. Init => Inv
  BY InitInv
<1>2. Inv /\ [Next]_vars => Inv'
  BY NextInv
<1> QED
  BY <1>1, <1>2, PTL DEF Spec

\* What inputFiles.follow identifies is what the process reads, and the links
\* recorded are the links its name goes through, in a workspace of any size
\* whose links climb, if at all, before they name anything.
THEOREM FollowIdentifiesConsumed == ASSUME TextsClimbFirst PROVE Spec => []IdentifiesConsumed
<1>1. Inv => IdentifiesConsumed
  BY DEF Inv
<1> QED
  BY <1>1, Invariant, PTL

\* Under the same hypothesis inputFiles.follow gives up on a file the process
\* can open only where the kernel itself passes through one link twice, or comes
\* by a name no answer can carry.
THEOREM FollowMissesNothing == ASSUME TextsClimbFirst PROVE Spec => []MissesNothing
<1>1. Inv => MissesNothing
  BY DEF Inv
<1> QED
  BY <1>1, Invariant, PTL

-----------------------------------------------------------------------------
(***************************************************************************)
(* The walk comes nearer to its end at every step, whatever the texts of   *)
(* the links: no hypothesis is needed here.                                *)
(***************************************************************************)

\* Clean drops parts and adds none.
LEMMA CleanFromNoLonger ==
  \A dir \in Seq(Names), rest \in Seq(Parts) :
    \/ CleanFrom(dir, rest) = Outside
    \/ CleanFrom(dir, rest) \in Seq(Names) /\ Len(CleanFrom(dir, rest)) <= Len(dir) + Len(rest)
<1> DEFINE Fits(dir, rest) ==
             \/ CleanFrom(dir, rest) = Outside
             \/ CleanFrom(dir, rest) \in Seq(Names) /\ Len(CleanFrom(dir, rest)) <= Len(dir) + Len(rest)
           S == {n \in Nat : \A dir \in Seq(Names), rest \in Seq(Parts) : Len(rest) = n => Fits(dir, rest)}
<1>1. 0 \in S
  <2> SUFFICES ASSUME NEW dir \in Seq(Names), NEW rest \in Seq(Parts), Len(rest) = 0 PROVE Fits(dir, rest)
    OBVIOUS
  <2>1. rest = <<>> /\ Len(dir) \in Nat
    BY EmptySeq, LenProperties
  <2> QED
    BY <2>1, CleanNothing
<1>2. ASSUME NEW n \in S PROVE n + 1 \in S
  <2> SUFFICES ASSUME NEW dir \in Seq(Names), NEW rest \in Seq(Parts), Len(rest) = n + 1
               PROVE  Fits(dir, rest)
    OBVIOUS
  <2> DEFINE next == Taken(dir, Head(rest))
  <2>1. rest # <<>> /\ Head(rest) \in Parts /\ Tail(rest) \in Seq(Parts) /\ Len(Tail(rest)) = n /\ Len(dir) \in Nat
    BY EmptySeq, Consing, LenProperties
  <2>2. CleanFrom(dir, rest) = CleanFrom(next, Tail(rest))
    BY <2>1, CleanTakes DEF Places
  <2>3. next = Outside \/ (next \in Seq(Names) /\ Len(next) <= Len(dir) + 1)
    <3>1. dir # <<>> => Front(dir) \in Seq(Names) /\ Len(Front(dir)) = Len(dir) - 1
      BY FrontPrefix
    <3>2. Head(rest) \in Names => Append(dir, Head(rest)) \in Seq(Names) /\ Len(Append(dir, Head(rest))) = Len(dir) + 1
      BY AppendProperties
    <3> QED
      BY <2>1, <3>1, <3>2 DEF Taken, Parent, Parts
  <2> HIDE DEF next
  <2>4. CASE next = Outside
    BY <2>1, <2>2, <2>4, CleanStaysOut
  <2>5. CASE next \in Seq(Names) /\ Len(next) <= Len(dir) + 1
    <3> DEFINE to == CleanFrom(next, Tail(rest))
    <3>1. Fits(next, Tail(rest))
      BY <2>1, <2>5
    <3>2. Len(next) \in Nat /\ (to \in Seq(Names) => Len(to) \in Nat)
      BY <2>5, LenProperties
    <3> QED
      BY <2>1, <2>2, <2>5, <3>1, <3>2
  <2> QED
    BY <2>3, <2>4, <2>5
<1> HIDE DEF S
<1>3. S = Nat
  BY <1>1, <1>2, Induction DEF S
<1> QED
  BY <1>3, LenProperties DEF S

LEMMA CleanNoLonger ==
  ASSUME NEW parts \in Seq(Parts)
  PROVE  Clean(parts) = Outside \/ (Clean(parts) \in Seq(Names) /\ Len(Clean(parts)) <= Len(parts))
<1>1. <<>> \in Seq(Names) /\ Len(<<>>) = 0 /\ Len(parts) \in Nat
  BY EmptySeq, LenProperties
<1>2. Clean(parts) = CleanFrom(<<>>, parts)
  BY <1>1, CleanIs, ConcatEmptySeq
<1> DEFINE to == CleanFrom(<<>>, parts)
<1>3. to = Outside \/ (to \in Seq(Names) /\ Len(to) <= Len(<<>>) + Len(parts))
  BY <1>1, CleanFromNoLonger
<1> HIDE DEF to
<1>4. Len(<<>>) + Len(parts) = Len(parts)
  BY <1>1
<1> QED
  BY <1>2, <1>3, <1>4 DEF to

\* The name has grown by one text for each link met.
Reach(seen) == MaxParts * (Cardinality(seen) + 1)
Spans(at, p, reach) ==
  \/ at = Outside /\ p = 0
  \/ at \in Seq(Names) /\ p <= Len(at) /\ Len(at) <= reach
Short ==
  /\ fs \in [Paths -> Entries]
  /\ visiting \subseteq Paths
  /\ pos \in Nat
  /\ Spans(name, pos, Reach(visiting))

LEMMA Counting ==
  ASSUME NEW seen, seen \subseteq Paths
  PROVE  /\ IsFiniteSet(seen) /\ IsFiniteSet(Paths \ seen)
         /\ Cardinality(seen) \in Nat /\ Cardinality(Paths \ seen) \in Nat
         /\ Cardinality(seen) <= Cardinality(Paths) /\ Cardinality(Paths) \in Nat
         /\ MaxParts \in Nat /\ Reach(seen) \in Nat /\ LongestName \in Nat /\ Reach(seen) <= LongestName
<1>1. /\ IsFiniteSet(seen) /\ Cardinality(seen) <= Cardinality(Paths)
      /\ IsFiniteSet(Paths \ seen)
  BY PathsAssumption, FS_Subset
<1>2. /\ Cardinality(seen) \in Nat /\ Cardinality(Paths \ seen) \in Nat
      /\ Cardinality(Paths) \in Nat
  BY <1>1, PathsAssumption, FS_CardinalityType
<1>3. MaxParts \in Nat
  BY StepsAssumption
<1> DEFINE v == Cardinality(seen)
           a == Cardinality(Paths)
<1>4. v \in Nat /\ a \in Nat /\ v <= a
  BY <1>1, <1>2
<1> HIDE DEF v, a
<1>5. MaxParts * (v + 1) \in Nat /\ MaxParts * (a + 1) \in Nat
  BY <1>3, <1>4
<1>6. MaxParts * (v + 1) <= MaxParts * (a + 1)
  <2>1. PICK d \in Nat : a = v + d
    <3>1. a - v \in Nat /\ a = v + (a - v)
      BY <1>4
    <3> QED
      BY <3>1
  <2>2. MaxParts * (a + 1) = MaxParts * (v + 1) + MaxParts * d /\ MaxParts * d \in Nat
    BY <1>3, <1>4, <2>1
  <2> QED
    BY <1>5, <2>2
<1> QED
  BY <1>1, <1>2, <1>3, <1>5, <1>6 DEF Reach, LongestName, v, a

\* The name a link leads to is longer by the link's text at most.
LEMMA TargetNoLonger ==
  ASSUME Short, Walking, Entry(Current).kind = "link"
  PROVE  \/ Target = Outside
         \/ Target \in Seq(Names) /\ Len(Target) <= Len(name) + MaxParts
<1>1. name \in Seq(Names) /\ pos \in Nat /\ Len(name) \in Nat /\ pos < Len(name)
  BY LenProperties DEF Short, Spans, Walking
<1>2. Current \in Seq(Names) /\ Len(Current) = pos + 1
  BY <1>1, SubSeqProperties, ElementOfSeq DEF Current
<1>3. Front(Current) \in Seq(Names) /\ Len(Front(Current)) = pos
  <2>1. Current # <<>>
    BY <1>1, <1>2, EmptySeq
  <2> QED
    BY <1>1, <1>2, <2>1, FrontPrefix
<1> DEFINE text == Entry(Current).text
           base == Against(text, Front(Current))
           rest == SubSeq(name, pos + 2, Len(name))
<1>4. text.parts \in Seq(Parts) /\ Len(text.parts) <= MaxParts /\ Len(text.parts) \in Nat
  BY Lookups, LenProperties DEF Short, Entry
<1>5. base \in Seq(Parts) /\ Len(base) <= pos /\ Len(base) \in Nat
  <2>1. base \in Seq(Names) /\ Len(base) <= pos
    BY <1>1, <1>3, EmptySeq DEF Against
  <2> QED
    BY <2>1, SeqMonotonic, LenProperties DEF Parts
<1>6. rest \in Seq(Parts) /\ Len(rest) = Len(name) - pos - 1
  <2>1. \A i \in pos + 2 .. Len(name) : name[i] \in Parts
    BY <1>1, ElementOfSeq DEF Parts
  <2>2. rest \in Seq(Parts) /\ Len(rest) = IF pos + 2 <= Len(name) THEN Len(name) - (pos + 2) + 1 ELSE 0
    BY <1>1, <2>1, SubSeqProperties
  <2> QED
    BY <1>1, <2>2
<1>7. Target = Clean(base \o text.parts \o rest)
  BY DEF Target
<1> HIDE DEF base, rest, text
<1>8. MaxParts \in Nat
  BY StepsAssumption
<1>9. base \o text.parts \in Seq(Parts) /\ Len(base \o text.parts) = Len(base) + Len(text.parts)
  BY <1>4, <1>5, ConcatProperties
<1> DEFINE front == base \o text.parts
<1>10. /\ base \o text.parts \o rest \in Seq(Parts)
       /\ Len(base \o text.parts \o rest) = Len(base) + Len(text.parts) + Len(rest)
  <2>1. front \in Seq(Parts) /\ Len(front) = Len(base) + Len(text.parts)
    BY <1>9
  <2> HIDE DEF front
  <2>2. front \o rest \in Seq(Parts) /\ Len(front \o rest) = Len(front) + Len(rest)
    BY <1>6, <2>1, ConcatProperties
  <2> QED
    BY <2>1, <2>2 DEF front
<1>11. Len(base \o text.parts \o rest) <= Len(name) + MaxParts
  BY <1>1, <1>4, <1>5, <1>6, <1>8, <1>10
<1>12. Target = Outside \/ (Target \in Seq(Names) /\ Len(Target) <= Len(base \o text.parts \o rest))
  BY <1>7, <1>10, CleanNoLonger
<1>13. Target \in Seq(Names) => Len(Target) \in Nat
  BY LenProperties
<1> QED
  BY <1>1, <1>8, <1>10, <1>11, <1>12, <1>13, LenProperties

\* What is left of a name, whichever side of the workspace root it is on.
LEMMA NameLeft ==
  ASSUME NEW seen, seen \subseteq Paths, NEW at, NEW p \in Nat, Spans(at, p, Reach(seen))
  PROVE  /\ Len(at) - p \in Nat /\ Len(at) - p <= LongestName + 1
         /\ at # Outside /\ p < Len(at) => Len(at) - p >= 1
<1>1. LongestName \in Nat /\ Reach(seen) \in Nat /\ Reach(seen) <= LongestName
  BY Counting
<1>2. CASE at = Outside /\ p = 0
  <2>1. Len(at) = 1
    BY <1>2 DEF Outside
  <2> QED
    BY <1>1, <1>2, <2>1
<1>3. CASE at \in Seq(Names) /\ p <= Len(at) /\ Len(at) <= Reach(seen)
  <2>1. Len(at) \in Nat
    BY <1>3, LenProperties
  <2> QED
    BY <1>1, <1>3, <2>1
<1> QED
  BY <1>2, <1>3 DEF Spans

LEMMA LinkShortens ==
  ASSUME Short, Link
  PROVE  Short' /\ Left' \in Nat /\ Left' < Left
<1>1. /\ Walking /\ outcome = "walking" /\ Entry(Current).kind = "link" /\ Current \notin visiting
      /\ visiting' = visiting \cup {Current} /\ name' = Target /\ pos' = 0
      /\ fs' = fs /\ outcome' = outcome
  BY DEF Link, Seen, Walking
<1>2. Current \in Paths /\ visiting \subseteq Paths
  BY <1>1, Lookups DEF Short, Entry
<1>3. Cardinality(visiting') = Cardinality(visiting) + 1
  BY <1>1, <1>2, Counting, FS_AddElement
<1>4. Cardinality(Paths \ visiting') = Cardinality(Paths \ visiting) - 1
  <2>1. Paths \ visiting' = (Paths \ visiting) \ {Current}
    BY <1>1
  <2> QED
    BY <1>1, <1>2, <2>1, Counting, FS_RemoveElement
<1>5. visiting' \subseteq Paths
  BY <1>1, <1>2
<1>6. Reach(visiting') = Reach(visiting) + MaxParts
  <2> DEFINE v == Cardinality(visiting)
  <2>1. v \in Nat /\ MaxParts \in Nat
    BY <1>2, Counting
  <2> HIDE DEF v
  <2>2. MaxParts * ((v + 1) + 1) = MaxParts * (v + 1) + MaxParts
    BY <2>1
  <2> QED
    BY <1>3, <2>2 DEF Reach, v
<1>7. Short'
  <2>1. CASE Target = Outside
    BY <1>1, <1>5, <2>1 DEF Short, Spans
  <2>2. CASE Target \in Seq(Names) /\ Len(Target) <= Len(name) + MaxParts
    <3>1. name \in Seq(Names) /\ Len(name) <= Reach(visiting) /\ Len(name) \in Nat
      BY <1>1, LenProperties DEF Short, Spans, Walking
    <3>2. Len(Target) \in Nat /\ Reach(visiting) \in Nat /\ MaxParts \in Nat
      BY <1>2, <2>2, Counting, LenProperties
    <3>3. Len(Target) <= Reach(visiting')
      BY <1>6, <2>2, <3>1, <3>2
    <3>4. Spans(name', pos', Reach(visiting'))
      BY <1>1, <2>2, <3>2, <3>3 DEF Spans
    <3> QED
      BY <1>1, <1>5, <3>4 DEF Short
  <2> QED
    BY <1>1, <2>1, <2>2, TargetNoLonger
<1> DEFINE r == Cardinality(Paths \ visiting)
           l == Len(name) - pos
           m == Len(name') - pos'
<1>8. l \in Nat /\ l >= 1
  BY <1>1, NameLeft DEF Short, Walking
<1>9. LongestName' = LongestName
  BY DEF LongestName
<1>10. m \in Nat /\ m <= LongestName + 1
  BY <1>5, <1>7, NameLeft DEF Short
<1>11. r \in Nat /\ LongestName \in Nat /\ r - 1 \in Nat
  <2>1. Cardinality(Paths \ visiting') \in Nat
    BY <1>1, <1>2, <1>5, Counting, FS_Subset, FS_CardinalityType, PathsAssumption
  <2> QED
    BY <1>2, <1>4, <2>1, Counting
<1>12. Left = r * (LongestName + 2) + l + 1
  BY <1>1 DEF Left
<1>13. Left' = (r - 1) * (LongestName + 2) + m + 1
  BY <1>1, <1>4, <1>9 DEF Left
<1> HIDE DEF r, l, m
<1> DEFINE q == (r - 1) * (LongestName + 2)
<1>14. r * (LongestName + 2) = q + (LongestName + 2) /\ q \in Nat
  BY <1>11
<1> HIDE DEF q
<1>15. Left = q + (LongestName + 2) + l + 1 /\ Left' = q + m + 1
  BY <1>12, <1>13, <1>14 DEF q
<1>16. Left' \in Nat /\ Left' < Left
  BY <1>8, <1>10, <1>11, <1>14, <1>15
<1> QED
  BY <1>7, <1>16

\* A step that meets no new link takes a part of the name, or ends the walk.
LEMMA OtherShortens ==
  ASSUME Short, UNCHANGED <<fs, name, visiting>>, outcome = "walking",
         \/ outcome' = "walking" /\ pos' = pos + 1 /\ Walking
         \/ outcome' # "walking" /\ pos' = pos
  PROVE  Short' /\ Left' \in Nat /\ Left' < Left
<1> DEFINE c == Cardinality(Paths \ visiting) * (LongestName + 2)
           l == Len(name) - pos
<1>1. c \in Nat
  <2>1. Cardinality(Paths \ visiting) \in Nat /\ LongestName \in Nat
    BY Counting DEF Short
  <2> QED
    BY <2>1
<1>2. l \in Nat /\ (Walking => l >= 1)
  BY NameLeft DEF Short, Walking
<1>3. Left = c + l + 1
  BY DEF Left
<1>4. LongestName' = LongestName
  BY DEF LongestName
<1>5. CASE outcome' = "walking" /\ pos' = pos + 1 /\ Walking
  <2>1. name \in Seq(Names) /\ Len(name) \in Nat /\ pos \in Nat /\ pos < Len(name)
    BY <1>5, LenProperties DEF Short, Spans, Walking
  <2>2. Left' = c + (Len(name) - (pos + 1)) + 1
    BY <1>4, <1>5 DEF Left
  <2>3. Short'
    <3>1. Spans(name, pos + 1, Reach(visiting))
      BY <1>5, <2>1 DEF Short, Spans, Walking
    <3> QED
      BY <1>5, <2>1, <3>1 DEF Short
  <2> HIDE DEF c
  <2> QED
    BY <1>1, <1>3, <2>1, <2>2, <2>3
<1>6. CASE outcome' # "walking" /\ pos' = pos
  <2>1. Left' = c + l + 0
    BY <1>4, <1>6 DEF Left
  <2>2. Short'
    BY <1>6 DEF Short
  <2> HIDE DEF c, l
  <2> QED
    BY <1>1, <1>2, <1>3, <2>1, <2>2
<1> QED
  BY <1>5, <1>6

LEMMA ShortInit == Init => Short
<1> SUFFICES ASSUME Init PROVE Short
  OBVIOUS
<1>1. fs \in [Paths -> Entries] /\ asked \in Starts /\ pos = 0 /\ visiting = {} /\ name = Clean(asked)
  BY DEF Init
<1>2. asked \in Seq(Names) /\ asked \in Seq(Parts) /\ Len(asked) <= MaxParts /\ Len(asked) \in Nat
  BY <1>1, StartsAssumption, SeqMonotonic, LenProperties DEF Parts
<1>3. Reach(visiting) = MaxParts * (0 + 1) /\ MaxParts \in Nat
  BY <1>1, FS_EmptySet, StepsAssumption DEF Reach
<1>4. name = Outside \/ (name \in Seq(Names) /\ Len(name) <= Len(asked))
  BY <1>1, <1>2, CleanNoLonger
<1>5. name \in Seq(Names) => Len(name) \in Nat
  BY LenProperties
<1> QED
  BY <1>1, <1>2, <1>3, <1>4, <1>5 DEF Short, Spans

LEMMA ShortStep == Short /\ Next => Short' /\ Left' \in Nat /\ Left' < Left
<1> SUFFICES ASSUME Short, Next PROVE Short' /\ Left' \in Nat /\ Left' < Left
  OBVIOUS
<1>1. CASE Link
  BY <1>1, LinkShortens
<1>2. CASE Descend
  BY <1>2, OtherShortens DEF Descend, Walking
<1>3. CASE Escape \/ NoName \/ NotFound \/ Cycle \/ Leaf \/ Root
  <2>1. /\ outcome = "walking" /\ outcome' # "walking" /\ pos' = pos
        /\ UNCHANGED <<fs, name, visiting>>
    BY <1>3 DEF Escape, NoName, NotFound, Cycle, Leaf, Root, Conclude, Walking
  <2> QED
    BY <2>1, OtherShortens
<1> QED
  BY <1>1, <1>2, <1>3 DEF Next

\* Whatever the links of a workspace and their texts, every step of
\* inputFiles.follow leaves less to do, so that no cycle and no chain of links
\* that lengthen the name keeps it walking.
THEOREM FollowNearsItsEnd == Spec => NearsItsEnd
<1>1. Short /\ [Next]_vars => Short'
  BY ShortStep DEF Short, vars
<1>2. Short /\ [Next]_vars => [Left' \in Nat /\ Left' < Left]_vars
  BY ShortStep
<1> QED
  BY <1>1, <1>2, ShortInit, PTL DEF Spec, NearsItsEnd
=============================================================================
