---------------------------- MODULE Discovery_proofs ----------------------------
(***************************************************************************)
(* Proofs about Discovery, for any current directory, file system and      *)
(* lists of search paths: the settings file that is used is the nearest    *)
(* one, and plugins come from the search paths by their precedence.        *)
(***************************************************************************)
EXTENDS Discovery, TLAPS

-----------------------------------------------------------------------------
(* The invariant *)

WorldType ==
  /\ world.cwd \in CurrentPaths
  /\ world.files \in SettingsIn
  /\ asked.commandLine \in PathLists
  /\ asked.settings \in PathLists \cup {NotSet}

\* part is what is left of whole when the first elements are taken off.
IsRestOf(part, whole) ==
  /\ part \in Seq(Range(whole))
  /\ Len(part) <= Len(whole)
  /\ \A i \in 1..Len(part) : part[i] = whole[Len(whole) - Len(part) + i]

\* path has the first elements of ranked, the last of them first.
IsBackwards(path, ranked) ==
  /\ path \in Seq(Range(ranked))
  /\ Len(path) <= Len(ranked)
  /\ \A i \in 1..Len(path) : path[i] = ranked[Len(path) + 1 - i]

\* The first names of a directory are one of those above it, or itself.
Above(dir, number) == SubSeq(dir, 1, number)

\* The directories between the current one and another above it are listed,
\* nearest first.
WalkedTo(dir, paths, whole, cwd) ==
  /\ dir \in Seq(Range(cwd))
  /\ Len(dir) \in 0..Len(cwd)
  /\ dir = Above(cwd, Len(dir))
  /\ paths \in Seq(Range(whole))
  /\ Len(paths) = Len(cwd) - Len(dir)
  /\ \A i \in 1..Len(paths) : paths[i] = whole[i]

WalkInv ==
  phase = "walking" =>
    settingsFile = NotSet /\ WalkedTo(at, searchPaths, Preferred, world.cwd)

\* The directories that were tried have no settings file.
SearchInv ==
  phase = "searching" =>
    /\ settingsFile = NotSet
    /\ IsRestOf(searchPaths, Preferred)
    /\ \A i \in 1..(Len(Preferred) - Len(searchPaths)) :
         Preferred[i] \notin world.files

\* The search paths that are left are the best ones, the worst of them first.
PathInv ==
  phase \in {"discovering", "reading", "done"} =>
    IsBackwards(pluginPath, Ranked)

\* While a directory is read, what was read of it has its plugins there.
ReadInv ==
  phase = "reading" =>
    /\ pluginPath # <<>>
    /\ Head(pluginPath) \in DOMAIN Content
    /\ unread \subseteq Content[Head(pluginPath)]
    /\ \A entry \in Content[Head(pluginPath)] \ unread :
         IsPlugin(entry) => /\ entry.stem \in DOMAIN plugins
                            /\ plugins[entry.stem] = Head(pluginPath)

\* A plugin of the search path at a position is from there or from a better one.
Provided(i, name) ==
  name \in DOMAIN plugins /\ plugins[name] \in {Ranked[j] : j \in 1..i}

\* The directories that were read have given what they have.
DoneInv ==
  phase \in {"discovering", "reading", "done"} =>
    \A i \in (Len(pluginPath) + 1)..Len(Ranked) :
      (i \notin failed /\ Ranked[i] \in DOMAIN Content) =>
        \A name \in ScriptsOf(Ranked[i]) : Provided(i, name)

Inv ==
  /\ WorldType
  /\ WalkInv
  /\ SearchInv
  /\ NearestSettingsFile
  /\ PathInv
  /\ ReadInv
  /\ DoneInv
  /\ phase = "done" => pluginPath = <<>>
  /\ phase \in Phases

-----------------------------------------------------------------------------
(* Sequences and functions *)

LEMMA RangeSeq ==
  ASSUME NEW S, NEW s \in Seq(S)
  PROVE  /\ s \in Seq(Range(s)) /\ Len(s) \in Nat /\ DOMAIN s = 1..Len(s)
         /\ \A i \in 1..Len(s) : s[i] \in Range(s) /\ s[i] \in S
BY DEF Range

\* What is left after the first element is left of the whole as well.
LEMMA RestOfTail ==
  ASSUME NEW part, NEW whole, IsRestOf(part, whole), part # <<>>,
         Len(whole) \in Nat
  PROVE  /\ Head(part) = whole[Len(whole) - Len(part) + 1]
         /\ IsRestOf(Tail(part), whole)
         /\ Len(Tail(part)) = Len(part) - 1
         /\ Len(part) \in 1..Len(whole)
<1>1. /\ part \in Seq(Range(whole)) /\ Len(part) <= Len(whole)
      /\ \A i \in 1..Len(part) : part[i] = whole[Len(whole) - Len(part) + i]
  BY DEF IsRestOf
<1>2. Len(part) \in Nat \ {0}
  BY <1>1
<1>3. /\ Tail(part) \in Seq(Range(whole)) /\ Len(Tail(part)) = Len(part) - 1
      /\ \A i \in 1..(Len(part) - 1) : Tail(part)[i] = part[i + 1]
      /\ Head(part) = part[1]
  BY <1>1, <1>2
<1>4. \A i \in 1..Len(Tail(part)) :
        Tail(part)[i] = whole[Len(whole) - Len(Tail(part)) + i]
  <2> TAKE i \in 1..Len(Tail(part))
  <2>1. i + 1 \in 1..Len(part) /\ i \in 1..(Len(part) - 1)
    BY <1>2, <1>3
  <2>2. Len(whole) - Len(part) + (i + 1) = Len(whole) - Len(Tail(part)) + i
    BY <1>2, <1>3
  <2> QED
    BY <1>1, <1>3, <2>1, <2>2
<1> QED
  BY <1>1, <1>2, <1>3, <1>4 DEF IsRestOf

\* The parent of a directory has one name less.
LEMMA AboveFacts ==
  ASSUME NEW S, NEW dir \in Seq(S), NEW number \in 0..Len(dir)
  PROVE  /\ Above(dir, number) \in Seq(S)
         /\ Len(Above(dir, number)) = number
         /\ number # 0 => /\ Front(Above(dir, number)) = Above(dir, number - 1)
                          /\ Len(Above(dir, number - 1)) = number - 1
                          /\ Above(dir, number - 1) \in Seq(S)
         /\ Above(dir, Len(dir)) = dir
<1>1. \A m \in 0..Len(dir) :
        /\ Above(dir, m) \in Seq(S) /\ Len(Above(dir, m)) = m
        /\ \A i \in 1..m : Above(dir, m)[i] = dir[i]
  BY DEF Above
<1>2. Len(dir) \in Nat
  OBVIOUS
<1>3. Above(dir, Len(dir)) = dir
  BY <1>1, <1>2
<1>4. ASSUME number # 0
      PROVE  /\ Front(Above(dir, number)) = Above(dir, number - 1)
             /\ Len(Above(dir, number - 1)) = number - 1
             /\ Above(dir, number - 1) \in Seq(S)
  <2>1. number - 1 \in 0..Len(dir)
    BY <1>2, <1>4
  <2> DEFINE s == Above(dir, number)
             t == Above(dir, number - 1)
  <2>2. /\ s \in Seq(S) /\ Len(s) = number /\ \A i \in 1..number : s[i] = dir[i]
        /\ t \in Seq(S) /\ Len(t) = number - 1
        /\ \A i \in 1..(number - 1) : t[i] = dir[i]
    BY <1>1, <2>1
  <2> HIDE DEF s, t
  <2>3. /\ Front(s) \in Seq(S) /\ Len(Front(s)) = number - 1
        /\ \A i \in 1..(number - 1) : Front(s)[i] = s[i]
    BY <1>4, <2>1, <2>2 DEF Front
  <2>4. Front(s) = t
    BY <1>2, <1>4, <2>1, <2>2, <2>3
  <2> QED
    BY <2>2, <2>4 DEF s, t
<1> QED
  BY <1>1, <1>3, <1>4

\* Search paths in the order of the documentation, and in that of the code.
Listed(A, B, x) == A \o B \o <<x>>
Added(A, B, x) == (<<x>> \o Reverse(B)) \o Reverse(A)

\* Search paths that are added list by list, each reversed, are in the opposite
\* order of the lists one after the other.
LEMMA AddedReversed ==
  ASSUME NEW S, NEW A \in Seq(S), NEW B \in Seq(S), NEW x \in S
  PROVE  /\ Listed(A, B, x) \in Seq(S)
         /\ Len(Added(A, B, x)) = Len(Listed(A, B, x))
         /\ IsBackwards(Added(A, B, x), Listed(A, B, x))
<1> DEFINE R == Listed(A, B, x)
           P == Added(A, B, x)
<1> HIDE DEF R, P
<1>1. Len(A) \in Nat /\ Len(B) \in Nat
  OBVIOUS
<1>2. /\ Reverse(A) \in Seq(S) /\ Len(Reverse(A)) = Len(A)
      /\ \A i \in 1..Len(A) : Reverse(A)[i] = A[Len(A) - i + 1]
      /\ Reverse(B) \in Seq(S) /\ Len(Reverse(B)) = Len(B)
      /\ \A i \in 1..Len(B) : Reverse(B)[i] = B[Len(B) - i + 1]
  BY <1>1 DEF Reverse
<1>3. /\ R \in Seq(S) /\ Len(R) = Len(A) + Len(B) + 1
      /\ \A i \in 1..Len(A) : R[i] = A[i]
      /\ \A i \in 1..Len(B) : R[Len(A) + i] = B[i]
      /\ R[Len(A) + Len(B) + 1] = x
  BY <1>1 DEF Listed, R
<1> DEFINE C == <<x>> \o Reverse(B)
<1>4. /\ C \in Seq(S) /\ Len(C) = Len(B) + 1
      /\ C[1] = x
      /\ \A i \in 1..Len(B) : C[1 + i] = Reverse(B)[i]
  BY <1>1, <1>2
<1> HIDE DEF C
<1>5. /\ P \in Seq(S) /\ Len(P) = Len(B) + 1 + Len(A)
      /\ \A i \in 1..(Len(B) + 1) : P[i] = C[i]
      /\ \A i \in 1..Len(A) : P[Len(B) + 1 + i] = Reverse(A)[i]
  <2> DEFINE D == Reverse(A)
  <2>1. P = C \o D
    BY DEF C, Added, P
  <2>2. D \in Seq(S) /\ Len(D) = Len(A)
    BY <1>2
  <2> HIDE DEF D
  <2>3. C \in Seq(S) /\ Len(C) \in Nat /\ Len(D) \in Nat
    BY <1>4, <2>2
  <2>4. /\ P \in Seq(S) /\ Len(P) = Len(C) + Len(D)
        /\ \A i \in 1..Len(C) : P[i] = C[i]
        /\ \A i \in 1..Len(D) : P[Len(C) + i] = D[i]
    BY <2>1, <2>2, <2>3
  <2> QED
    BY <1>1, <1>4, <2>2, <2>4 DEF D
<1>6. \A i \in 1..Len(P) : P[i] = R[Len(P) + 1 - i]
  <2> SUFFICES ASSUME NEW i \in 1..Len(P)
               PROVE  P[i] = R[Len(P) + 1 - i]
    OBVIOUS
  <2>1. CASE i = 1
    BY <1>1, <1>3, <1>4, <1>5, <2>1
  <2>2. CASE i \in 2..(Len(B) + 1)
    <3> DEFINE j == i - 1
    <3>1. /\ j \in 1..Len(B) /\ i = 1 + j /\ i \in 1..(Len(B) + 1)
          /\ Len(B) - j + 1 \in 1..Len(B)
          /\ Len(P) + 1 - i = Len(A) + (Len(B) - j + 1)
      BY <1>1, <1>5, <2>2
    <3>2. P[i] = Reverse(B)[j]
      BY <1>4, <1>5, <3>1
    <3>3. Reverse(B)[j] = B[Len(B) - j + 1]
      BY <1>2, <3>1
    <3> HIDE DEF j
    <3> QED
      BY <1>3, <3>1, <3>2, <3>3
  <2>3. CASE i \in (Len(B) + 2)..Len(P)
    <3> DEFINE j == i - Len(B) - 1
    <3>1. /\ j \in 1..Len(A) /\ i = Len(B) + 1 + j
          /\ Len(A) - j + 1 \in 1..Len(A)
          /\ Len(P) + 1 - i = Len(A) - j + 1
      BY <1>1, <1>5, <2>3
    <3>2. P[i] = Reverse(A)[j]
      BY <1>5, <3>1
    <3>3. Reverse(A)[j] = A[Len(A) - j + 1]
      BY <1>2, <3>1
    <3> HIDE DEF j
    <3> QED
      BY <1>3, <3>1, <3>2, <3>3
  <2> QED
    BY <1>1, <1>5, <2>1, <2>2, <2>3
<1>7. P \in Seq(Range(R))
  <2>1. \A i \in 1..Len(P) : P[i] \in Range(R)
    <3> TAKE i \in 1..Len(P)
    <3>1. Len(P) + 1 - i \in DOMAIN R
      BY <1>1, <1>3, <1>5
    <3> QED
      BY <1>6, <3>1 DEF Range
  <2> QED
    BY <1>5, <2>1
<1>8. Len(R) \in Nat /\ Len(P) = Len(R)
  BY <1>1, <1>3, <1>5
<1> QED
  BY <1>3, <1>6, <1>7, <1>8 DEF IsBackwards, R, P

-----------------------------------------------------------------------------
(* The directories in the order the documentation gives them *)

\* The directories for the settings file: from the current one to the root, and
\* the home directory.
FromHere(whole, cwd, home) ==
  /\ cwd \in Seq(Range(cwd)) /\ Len(cwd) \in Nat
  /\ whole \in Seq(Range(whole)) /\ Len(whole) \in Nat
  /\ \A i \in 1..(Len(cwd) + 1) : whole[i] = Above(cwd, Len(cwd) + 1 - i)
  /\ home = NotSet => Len(whole) = Len(cwd) + 1
  /\ home # NotSet => Len(whole) = Len(cwd) + 2 /\ whole[Len(cwd) + 2] = home

LEMMA PreferredFacts ==
  ASSUME WorldType
  PROVE  FromHere(Preferred, world.cwd, world.home)
<1>1. world.cwd \in Seq(Range(world.cwd)) /\ Len(world.cwd) \in Nat
  BY DiscoveryAssumption DEF WorldType
<1> DEFINE n == Len(world.cwd)
           up == [i \in 1..(n + 1) |-> Above(world.cwd, n + 1 - i)]
           home == IF world.home = NotSet THEN <<>> ELSE <<world.home>>
           S == {up[i] : i \in 1..(n + 1)} \cup {world.home}
<1>2. Preferred = up \o home
  BY DEF Preferred, Above
<1>3. up \in Seq(S) /\ Len(up) = n + 1
  <2>1. up \in [1..(n + 1) -> S] /\ n + 1 \in Nat
    BY <1>1
  <2> HIDE DEF up, S, n
  <2> QED
    BY <2>1
<1>4. home \in Seq(S) /\ Len(home) = (IF world.home = NotSet THEN 0 ELSE 1)
      /\ (world.home # NotSet => home[1] = world.home)
  <2>1. world.home \in S
    OBVIOUS
  <2> HIDE DEF S
  <2> QED
    BY <2>1
<1>5. \A i \in 1..(n + 1) : up[i] = Above(world.cwd, n + 1 - i)
  OBVIOUS
<1>6. n \in Nat
  BY <1>1
<1> HIDE DEF n, up, home, S
<1>7. /\ Preferred \in Seq(S) /\ Len(Preferred) = Len(up) + Len(home)
      /\ \A i \in 1..Len(up) : Preferred[i] = up[i]
      /\ \A i \in 1..Len(home) : Preferred[Len(up) + i] = home[i]
  BY <1>2, <1>3, <1>4
<1>8. Preferred \in Seq(Range(Preferred)) /\ Len(Preferred) \in Nat
  BY <1>7, RangeSeq
<1>9. world.home # NotSet => Preferred[n + 2] = world.home
  BY <1>3, <1>4, <1>6, <1>7
<1>10. /\ world.home = NotSet => Len(Preferred) = n + 1
       /\ world.home # NotSet => Len(Preferred) = n + 2
  BY <1>3, <1>4, <1>6, <1>7
<1>11. \A i \in 1..(n + 1) : Preferred[i] = Above(world.cwd, n + 1 - i)
  BY <1>3, <1>5, <1>7
<1> QED
  BY <1>1, <1>8, <1>9, <1>10, <1>11 DEF n, FromHere

\* The walk starts at the current directory.
LEMMA WalkFromHere ==
  ASSUME NEW whole, NEW cwd, NEW home, FromHere(whole, cwd, home)
  PROVE  WalkedTo(cwd, <<>>, whole, cwd)
<1>1. cwd \in Seq(Range(cwd)) /\ Len(cwd) \in Nat
  BY DEF FromHere
<1>2. Above(cwd, Len(cwd)) = cwd
  BY <1>1, AboveFacts
<1> QED
  BY <1>1, <1>2 DEF WalkedTo

\* The directory the walk is at is the next one of the list.
LEMMA WalkIsAt ==
  ASSUME NEW whole, NEW cwd, NEW home, FromHere(whole, cwd, home),
         NEW dir, NEW paths, WalkedTo(dir, paths, whole, cwd)
  PROVE  /\ Len(paths) + 1 \in 1..Len(whole)
         /\ dir = whole[Len(paths) + 1] /\ dir \in Range(whole)
         /\ Append(paths, dir) \in Seq(Range(whole))
         /\ Len(Append(paths, dir)) = Len(paths) + 1
         /\ \A i \in 1..(Len(paths) + 1) : Append(paths, dir)[i] = whole[i]
<1> DEFINE n == Len(cwd)
           m == Len(dir)
           k == Len(paths)
<1>1. /\ n \in Nat /\ m \in 0..n /\ k = n - m
      /\ dir = Above(cwd, m)
  BY DEF FromHere, WalkedTo
<1>2. Len(whole) \in Nat /\ n + 1 <= Len(whole)
  BY <1>1 DEF FromHere
<1>3. \A i \in 1..(n + 1) : whole[i] = Above(cwd, n + 1 - i)
  BY DEF FromHere
<1> HIDE DEF n, m
<1>4. k + 1 \in 1..Len(whole) /\ k + 1 \in 1..(n + 1) /\ n + 1 - (k + 1) = m
  BY <1>1, <1>2
<1>5. dir = whole[k + 1]
  BY <1>1, <1>3, <1>4
<1>6. dir \in Range(whole)
  <2>1. k + 1 \in DOMAIN whole
    BY <1>4 DEF FromHere
  <2> QED
    BY <1>5, <2>1 DEF Range
<1>7. paths \in Seq(Range(whole)) /\ \A i \in 1..k : paths[i] = whole[i]
  BY DEF WalkedTo
<1>8. /\ Append(paths, dir) \in Seq(Range(whole))
      /\ Len(Append(paths, dir)) = k + 1
      /\ Append(paths, dir)[k + 1] = dir
      /\ \A i \in 1..k : Append(paths, dir)[i] = paths[i]
  BY <1>6, <1>7
<1>9. \A i \in 1..(k + 1) : Append(paths, dir)[i] = whole[i]
  <2> DEFINE list == Append(paths, dir)
  <2> HIDE DEF list
  <2>1. k \in Nat
    BY <1>7
  <2> QED
    BY <1>5, <1>7, <1>8, <2>1 DEF list
<1> QED
  BY <1>4, <1>5, <1>6, <1>8, <1>9

\* One step up is a step of the walk.
LEMMA WalkOn ==
  ASSUME NEW whole, NEW cwd, NEW home, FromHere(whole, cwd, home),
         NEW dir, NEW paths, WalkedTo(dir, paths, whole, cwd),
         dir # ParentPath(dir)
  PROVE  WalkedTo(ParentPath(dir), Append(paths, dir), whole, cwd)
<1>1. dir # <<>> /\ ParentPath(dir) = Front(dir)
  BY DEF ParentPath
<1>2. /\ cwd \in Seq(Range(cwd)) /\ Len(cwd) \in Nat
      /\ dir \in Seq(Range(cwd)) /\ Len(dir) \in 0..Len(cwd)
      /\ dir = Above(cwd, Len(dir)) /\ Len(paths) = Len(cwd) - Len(dir)
  BY DEF FromHere, WalkedTo
<1>3. Len(dir) # 0
  BY <1>1, <1>2
<1> DEFINE up == Front(dir)
           list == Append(paths, dir)
<1>4. /\ up = Above(cwd, Len(dir) - 1)
      /\ Len(up) = Len(dir) - 1
      /\ up \in Seq(Range(cwd))
  BY <1>2, <1>3, AboveFacts
<1>5. /\ list \in Seq(Range(whole))
      /\ Len(list) = Len(paths) + 1
      /\ \A i \in 1..(Len(paths) + 1) : list[i] = whole[i]
  BY WalkIsAt
<1> HIDE DEF up, list
<1>6. Len(up) \in 0..Len(cwd) /\ Len(list) = Len(cwd) - Len(up)
  <2>1. Len(cwd) \in Nat /\ Len(dir) \in 1..Len(cwd)
    BY <1>2, <1>3
  <2>2. /\ Len(up) = Len(dir) - 1 /\ Len(list) = Len(paths) + 1
        /\ Len(paths) = Len(cwd) - Len(dir)
    BY <1>2, <1>4, <1>5
  <2> QED
    BY <2>1, <2>2
<1>7. WalkedTo(up, list, whole, cwd)
  BY <1>4, <1>5, <1>6 DEF WalkedTo
<1> QED
  BY <1>1, <1>7 DEF up, list

\* At the root, all directories are listed but the home directory.
LEMMA WalkEnds ==
  ASSUME NEW whole, NEW cwd, NEW home, FromHere(whole, cwd, home),
         NEW dir, NEW paths, WalkedTo(dir, paths, whole, cwd),
         dir = ParentPath(dir)
  PROVE  Append(paths, dir) \o (IF home = NotSet THEN <<>> ELSE <<home>>) = whole
<1>1. /\ dir \in Seq(Range(cwd)) /\ Len(cwd) \in Nat
      /\ Len(paths) = Len(cwd) - Len(dir)
  BY DEF WalkedTo, FromHere
<1>2. Len(dir) = 0
  <2>1. CASE dir # <<>>
    <3>1. Len(Front(dir)) = Len(dir) - 1
      <4>1. /\ cwd \in Seq(Range(cwd)) /\ Len(dir) \in 0..Len(cwd)
            /\ dir = Above(cwd, Len(dir))
        BY DEF WalkedTo, FromHere
      <4>2. Len(dir) # 0
        BY <1>1, <2>1
      <4> QED
        BY <4>1, <4>2, AboveFacts
    <3> QED
      BY <1>1, <2>1, <3>1 DEF ParentPath
  <2> QED
    BY <2>1
<1> DEFINE walked == Append(paths, dir)
           n == Len(cwd)
<1>3. /\ walked \in Seq(Range(whole)) /\ Len(walked) = n + 1
      /\ \A i \in 1..(n + 1) : walked[i] = whole[i]
  <2>1. Len(paths) = n
    BY <1>1, <1>2
  <2> QED
    BY <2>1, WalkIsAt
<1>4. /\ n \in Nat /\ whole \in Seq(Range(whole))
      /\ home = NotSet => Len(whole) = n + 1
      /\ home # NotSet => Len(whole) = n + 2 /\ whole[n + 2] = home
  BY DEF FromHere
<1> HIDE DEF walked, n
<1>5. CASE home = NotSet
  <2>1. walked \o <<>> = walked
    BY <1>3
  <2>2. walked = whole
    BY <1>3, <1>4, <1>5
  <2> QED
    BY <1>5, <2>1, <2>2 DEF walked
<1>6. CASE home # NotSet
  <2>1. home \in Range(whole)
    <3>1. n + 2 \in DOMAIN whole
      BY <1>4, <1>6
    <3> QED
      BY <1>4, <1>6, <3>1 DEF Range
  <2>2. /\ walked \o <<home>> \in Seq(Range(whole))
        /\ Len(walked \o <<home>>) = n + 2
        /\ \A i \in 1..(n + 1) : (walked \o <<home>>)[i] = walked[i]
        /\ (walked \o <<home>>)[n + 2] = home
    BY <1>3, <1>4, <2>1
  <2> DEFINE list == walked \o <<home>>
  <2> HIDE DEF list
  <2>3. list = whole
    BY <1>3, <1>4, <1>6, <2>2 DEF list
  <2> QED
    BY <1>6, <2>3 DEF walked, list
<1> QED
  BY <1>5, <1>6

\* The first directory of a list of candidates that has the file is the one that
\* FirstOf finds, when none before it has one.
LEMMA FirstIsNext ==
  ASSUME NEW S, NEW s \in Seq(S), NEW files, NEW k \in Nat, k <= Len(s),
         \A i \in 1..k : s[i] \notin files
  PROVE  /\ k < Len(s) /\ s[k + 1] \in files
              => FirstOf(s, files) = k + 1
         /\ k = Len(s) => FirstOf(s, files) = 0
<1> DEFINE I == {i \in 1..Len(s) : s[i] \in files}
<1>1. FirstOf(s, files) = IF I # {} THEN Min(I) ELSE 0
  BY DEF FirstOf, SelectInSeq
<1>2. Len(s) \in Nat
  OBVIOUS
<1>3. CASE k < Len(s) /\ s[k + 1] \in files
  <2>1. k + 1 \in I
    BY <1>2, <1>3
  <2>2. \A i \in I : k + 1 <= i /\ i \in Nat
    BY <1>2
  <2> HIDE DEF I
  <2>3. Min(I) = k + 1
    BY <2>1, <2>2 DEF Min
  <2> QED
    BY <1>1, <1>3, <2>1, <2>3
<1>4. CASE k = Len(s)
  BY <1>1, <1>2, <1>4
<1> QED
  BY <1>3, <1>4

LEMMA NoneIsFirst ==
  ASSUME NEW S, NEW s \in Seq(S), NEW files,
         \A i \in 1..Len(s) : s[i] \notin files
  PROVE  FirstOf(s, files) = 0
<1>1. Len(s) \in Nat /\ Len(s) <= Len(s)
  OBVIOUS
<1> QED
  BY <1>1, FirstIsNext

\* What getAdditionalSearchPaths returns is the documented list backwards.
LEMMA SearchPathsBackwards ==
  ASSUME WorldType, NEW settings \in PathLists \cup {NotSet}, NEW base
  PROVE  /\ IsBackwards(GetAdditionalSearchPaths(settings, base),
                        RankedFrom(settings, base))
         /\ Len(GetAdditionalSearchPaths(settings, base))
              = Len(RankedFrom(settings, base))
         /\ Len(RankedFrom(settings, base)) \in Nat
<1> DEFINE listed == IF settings = NotSet THEN <<>> ELSE settings
           All(paths) == [i \in DOMAIN paths |-> Resolve(paths[i], base)]
           A == All(asked.commandLine)
           B == All(listed)
           S == {A[i] : i \in DOMAIN A} \cup {B[i] : i \in DOMAIN B}
                  \cup {InstallPath}
           ranked == RankedFrom(settings, base)
           path == GetAdditionalSearchPaths(settings, base)
<1>1. asked.commandLine \in Seq(Range(asked.commandLine))
  BY DiscoveryAssumption DEF WorldType
<1>2. \E T : listed \in Seq(T)
  <2>1. CASE settings = NotSet
    BY <2>1
  <2>2. CASE settings # NotSet
    BY <2>2, DiscoveryAssumption
  <2> QED
    BY <2>1, <2>2
<1> HIDE DEF listed
<1>3. A \in Seq(S)
  <2>1. Len(asked.commandLine) \in Nat
        /\ DOMAIN asked.commandLine = 1..Len(asked.commandLine)
    BY <1>1
  <2>2. DOMAIN A = DOMAIN asked.commandLine /\ \A i \in DOMAIN A : A[i] \in S
    OBVIOUS
  <2>3. A \in [1..Len(asked.commandLine) -> S]
    BY <2>1, <2>2
  <2> HIDE DEF A, S
  <2> QED
    BY <2>1, <2>3
<1>4. B \in Seq(S)
  <2>1. Len(listed) \in Nat /\ DOMAIN listed = 1..Len(listed)
    BY <1>2
  <2>2. DOMAIN B = DOMAIN listed /\ \A i \in DOMAIN B : B[i] \in S
    OBVIOUS
  <2>3. B \in [1..Len(listed) -> S]
    BY <2>1, <2>2
  <2> HIDE DEF B, S
  <2> QED
    BY <2>1, <2>3
<1>5. InstallPath \in S
  OBVIOUS
<1>6. ranked = Listed(A, B, InstallPath)
  BY DEF RankedFrom, Listed, listed
<1>7. path = Added(A, B, InstallPath)
  <2>1. CASE settings = NotSet
    <3>1. B = <<>>
      BY <2>1 DEF listed
    <3>2. <<InstallPath>> \o Reverse(B) = <<InstallPath>>
      <4>1. Reverse(B) = <<>>
        BY <3>1 DEF Reverse
      <4> HIDE DEF B
      <4> QED
        BY <4>1
    <3>3. path = <<InstallPath>> \o Reverse(A)
      BY <2>1 DEF GetAdditionalSearchPaths, AddAdditionalSearchPaths
    <3> HIDE DEF path, A, B
    <3> QED
      BY <3>2, <3>3 DEF Added
  <2>2. CASE settings # NotSet
    BY <2>2 DEF GetAdditionalSearchPaths, AddAdditionalSearchPaths, Added, listed
  <2> QED
    BY <2>1, <2>2
<1> HIDE DEF A, B, S, ranked, path
<1>8. /\ ranked \in Seq(S) /\ Len(path) = Len(ranked)
      /\ IsBackwards(path, ranked)
  BY <1>3, <1>4, <1>5, <1>6, <1>7, AddedReversed
<1>9. Len(ranked) \in Nat
  BY <1>8
<1> QED
  BY <1>8, <1>9 DEF ranked, path

-----------------------------------------------------------------------------
(* Each action keeps the invariant *)

LEMMA InitInv == Init => Inv
<1> SUFFICES ASSUME Init
             PROVE  Inv
  OBVIOUS
<1>1. WorldType
  BY DEF Init, WorldType
<1>2. WalkedTo(world.cwd, <<>>, Preferred, world.cwd)
  BY <1>1, PreferredFacts, WalkFromHere
<1>3. WalkInv
  BY <1>2 DEF WalkInv, Init
<1> QED
  BY <1>1, <1>3
  DEF Inv, Init, SearchInv, NearestSettingsFile, PathInv, ReadInv, DoneInv, Phases

\* What is outside, and what was asked for, stays as it is.
LEMMA Frame ==
  ASSUME WorldType, world' = world, asked' = asked
  PROVE  WorldType' /\ Preferred' = Preferred
BY DEF WorldType, Preferred

LEMMA RankedFrame ==
  ASSUME world' = world, asked' = asked, settingsFile' = settingsFile
  PROVE  Ranked' = Ranked
BY DEF Ranked, RankedFrom

LEMMA WalkUpStep ==
  ASSUME Inv, WalkUp
  PROVE  Inv'
<1>1. /\ phase = "walking" /\ phase' = "walking" /\ settingsFile = NotSet
      /\ world' = world /\ asked' = asked /\ settingsFile' = settingsFile
      /\ WalkedTo(at, searchPaths, Preferred, world.cwd)
      /\ at # ParentPath(at)
      /\ searchPaths' = Append(searchPaths, at) /\ at' = ParentPath(at)
  BY DEF WalkUp, Inv, WalkInv
<1>2. WorldType' /\ Preferred' = Preferred
  BY <1>1, Frame DEF Inv
<1>3. WalkedTo(at', searchPaths', Preferred, world.cwd)
  BY <1>1, PreferredFacts, WalkOn DEF Inv
<1>4. WalkInv'
  BY <1>1, <1>2, <1>3 DEF WalkInv
<1> QED
  BY <1>1, <1>2, <1>4
  DEF Inv, SearchInv, NearestSettingsFile, PathInv, ReadInv, DoneInv, Phases

LEMMA ReachRootStep ==
  ASSUME Inv, ReachRoot
  PROVE  Inv'
<1>1. /\ phase = "walking" /\ phase' = "searching" /\ settingsFile = NotSet
      /\ world' = world /\ asked' = asked /\ settingsFile' = settingsFile
      /\ WalkedTo(at, searchPaths, Preferred, world.cwd)
      /\ at = ParentPath(at)
      /\ searchPaths' = Append(searchPaths, at)
           \o (IF world.home = NotSet THEN <<>> ELSE <<world.home>>)
  BY DEF ReachRoot, Inv, WalkInv
<1>2. WorldType' /\ Preferred' = Preferred
  BY <1>1, Frame DEF Inv
<1>3. searchPaths' = Preferred
  BY <1>1, PreferredFacts, WalkEnds DEF Inv
<1>4. Preferred \in Seq(Range(Preferred)) /\ Len(Preferred) \in Nat
  BY PreferredFacts DEF Inv, FromHere
<1>5. SearchInv'
  <2>1. IsRestOf(Preferred, Preferred)
    BY <1>4 DEF IsRestOf
  <2>2. 1..(Len(Preferred) - Len(Preferred)) = {}
    BY <1>4
  <2> QED
    BY <1>1, <1>2, <1>3, <2>1, <2>2 DEF SearchInv
<1> QED
  BY <1>1, <1>2, <1>5
  DEF Inv, WalkInv, NearestSettingsFile, PathInv, ReadInv, DoneInv, Phases

\* What was found stays found while plugins are discovered.
LEMMA FoundFrame ==
  ASSUME Inv, phase \in {"discovering", "reading", "done"},
         world' = world, asked' = asked, settingsFile' = settingsFile
  PROVE  WorldType' /\ NearestSettingsFile' /\ Ranked' = Ranked
<1>1. WorldType' /\ Preferred' = Preferred
  BY Frame DEF Inv
<1>2. NearestSettingsFile'
  BY <1>1 DEF Inv, NearestSettingsFile
<1> QED
  BY <1>1, <1>2, RankedFrame

\* There are so many search paths.
LEMMA RankedLength ==
  ASSUME WorldType
  PROVE  Len(Ranked) \in Nat
BY SearchPathsBackwards DEF Ranked, WorldType

LEMMA RankedIsSeq ==
  ASSUME WorldType
  PROVE  DOMAIN Ranked = 1..Len(Ranked)
BY SearchPathsBackwards DEF Ranked, WorldType

\* The list of search paths that the discovery starts with.
LEMMA PathStart ==
  ASSUME WorldType, phase' = "discovering", world' = world, asked' = asked,
         NEW settings \in PathLists \cup {NotSet}, NEW base,
         pluginPath' = GetAdditionalSearchPaths(settings, base),
         Ranked' = RankedFrom(settings, base)
  PROVE  PathInv' /\ DoneInv'
<1>1. /\ IsBackwards(pluginPath', Ranked') /\ Len(pluginPath') = Len(Ranked')
      /\ Len(Ranked') \in Nat
  BY SearchPathsBackwards
<1>2. PathInv'
  BY <1>1 DEF PathInv
<1>3. (Len(pluginPath') + 1)..Len(Ranked') = {}
  BY <1>1
<1> QED
  BY <1>2, <1>3 DEF DoneInv

LEMMA FindSettingsFileStep ==
  ASSUME Inv, FindSettingsFile
  PROVE  Inv'
<1> DEFINE k == Len(Preferred) - Len(searchPaths)
<1>1. /\ phase = "searching" /\ phase' = "discovering"
      /\ searchPaths # <<>> /\ Head(searchPaths) \in world.files
      /\ world' = world /\ asked' = asked
      /\ settingsFile' = Head(searchPaths)
      /\ pluginPath' = GetAdditionalSearchPaths(asked.settings, settingsFile')
  BY DEF FindSettingsFile
<1>2. WorldType /\ WorldType' /\ Preferred' = Preferred
  BY <1>1, Frame DEF Inv
<1>3. /\ IsRestOf(searchPaths, Preferred)
      /\ \A i \in 1..k : Preferred[i] \notin world.files
  BY <1>1 DEF Inv, SearchInv
<1>4. Preferred \in Seq(Range(Preferred)) /\ Len(Preferred) \in Nat
  BY <1>2, PreferredFacts DEF FromHere
<1>5. /\ Head(searchPaths) = Preferred[k + 1]
      /\ Len(searchPaths) \in 1..Len(Preferred)
  BY <1>1, <1>3, <1>4, RestOfTail
<1>6. k \in Nat /\ k < Len(Preferred)
  BY <1>4, <1>5
<1> HIDE DEF k
<1>7. FirstOf(Preferred, world.files) = k + 1
  BY <1>1, <1>3, <1>4, <1>5, <1>6, FirstIsNext, SMTT(30)
<1>8. NearestSettingsFile'
  <2>1. k + 1 # 0
    BY <1>6
  <2> QED
    BY <1>1, <1>2, <1>5, <1>7, <2>1 DEF NearestSettingsFile
<1>9. settingsFile' # NotSet
  BY <1>1, <1>2, DiscoveryAssumption DEF WorldType
<1>10. Ranked' = RankedFrom(asked.settings, settingsFile')
  BY <1>1, <1>9 DEF Ranked, RankedFrom
<1>11. PathInv' /\ DoneInv'
  <2>1. asked.settings \in PathLists \cup {NotSet}
    BY <1>2 DEF WorldType
  <2> QED
    BY <1>1, <1>2, <1>10, <2>1, PathStart
<1> QED
  BY <1>1, <1>2, <1>8, <1>11 DEF Inv, WalkInv, SearchInv, ReadInv, Phases

LEMMA TryNextStep ==
  ASSUME Inv, TryNext
  PROVE  Inv'
<1> DEFINE k == Len(Preferred) - Len(searchPaths)
<1>1. /\ phase = "searching" /\ phase' = "searching"
      /\ searchPaths # <<>> /\ Head(searchPaths) \notin world.files
      /\ world' = world /\ asked' = asked /\ settingsFile' = settingsFile
      /\ searchPaths' = Tail(searchPaths)
  BY DEF TryNext
<1>2. WorldType /\ WorldType' /\ Preferred' = Preferred
  BY <1>1, Frame DEF Inv
<1>3. /\ IsRestOf(searchPaths, Preferred) /\ settingsFile = NotSet
      /\ \A i \in 1..k : Preferred[i] \notin world.files
  BY <1>1 DEF Inv, SearchInv
<1>4. Len(Preferred) \in Nat
  BY <1>2, PreferredFacts DEF FromHere
<1>5. /\ Head(searchPaths) = Preferred[k + 1]
      /\ IsRestOf(Tail(searchPaths), Preferred)
      /\ Len(Tail(searchPaths)) = Len(searchPaths) - 1
      /\ Len(searchPaths) \in 1..Len(Preferred)
  BY <1>1, <1>3, <1>4, RestOfTail
<1>6. /\ Len(Preferred) - Len(Tail(searchPaths)) = k + 1
      /\ k \in Nat
  <2> DEFINE all == Len(Preferred)
             left == Len(searchPaths)
             next == Len(Tail(searchPaths))
  <2>1. all \in Nat /\ left \in 1..all /\ next = left - 1
    BY <1>4, <1>5
  <2> HIDE DEF all, left, next
  <2>2. all - next = all - left + 1 /\ all - left \in Nat
    BY <2>1
  <2> QED
    BY <2>2 DEF all, left, next
<1> HIDE DEF k
<1>7. \A i \in 1..(k + 1) : Preferred[i] \notin world.files
  BY <1>1, <1>3, <1>5, <1>6
<1>8. SearchInv'
  BY <1>1, <1>2, <1>3, <1>5, <1>6, <1>7 DEF SearchInv
<1> QED
  BY <1>1, <1>2, <1>8
  DEF Inv, WalkInv, NearestSettingsFile, PathInv, ReadInv, DoneInv, Phases

LEMMA MayNotSearchStep ==
  ASSUME Inv, MayNotSearch
  PROVE  Inv'
<1>1. phase' = "terminated" /\ world' = world /\ asked' = asked
  BY DEF MayNotSearch
<1>2. WorldType'
  BY <1>1, Frame DEF Inv
<1> QED
  BY <1>1, <1>2 DEF Inv, WalkInv, SearchInv, NearestSettingsFile, PathInv,
                    ReadInv, DoneInv, Phases

LEMMA FindNothingStep ==
  ASSUME Inv, FindNothing
  PROVE  Inv'
<1>1. /\ phase = "searching" /\ phase' = "discovering" /\ searchPaths = <<>>
      /\ world' = world /\ asked' = asked /\ settingsFile' = settingsFile
      /\ pluginPath' = GetAdditionalSearchPaths(NotSet, world.cwd)
  BY DEF FindNothing
<1>2. WorldType /\ WorldType' /\ Preferred' = Preferred
  BY <1>1, Frame DEF Inv
<1>3. Preferred \in Seq(Range(Preferred)) /\ Len(Preferred) \in Nat
  BY <1>2, PreferredFacts DEF FromHere
<1>4. /\ settingsFile = NotSet
      /\ \A i \in 1..Len(Preferred) : Preferred[i] \notin world.files
  <2>1. Len(Preferred) - Len(searchPaths) = Len(Preferred)
    BY <1>1, <1>3
  <2> QED
    BY <1>1, <2>1 DEF Inv, SearchInv
<1>5. FirstOf(Preferred, world.files) = 0
  BY <1>3, <1>4, NoneIsFirst
<1>6. NearestSettingsFile'
  BY <1>1, <1>2, <1>4, <1>5 DEF NearestSettingsFile
<1>7. Ranked' = RankedFrom(NotSet, world.cwd)
  BY <1>1, <1>4 DEF Ranked, RankedFrom
<1>8. PathInv' /\ DoneInv'
  BY <1>1, <1>2, <1>7, PathStart
<1> QED
  BY <1>1, <1>2, <1>6, <1>8 DEF Inv, WalkInv, SearchInv, ReadInv, Phases

LEMMA OpenDirectoryStep ==
  ASSUME Inv, OpenDirectory
  PROVE  Inv'
<1>1. /\ phase = "discovering" /\ phase' = "reading"
      /\ pluginPath # <<>> /\ Head(pluginPath) \in DOMAIN Content
      /\ world' = world /\ asked' = asked /\ settingsFile' = settingsFile
      /\ pluginPath' = pluginPath /\ plugins' = plugins /\ failed' = failed
      /\ unread' = Content[Head(pluginPath)]
  BY DEF OpenDirectory
<1>2. WorldType' /\ NearestSettingsFile' /\ Ranked' = Ranked
  BY <1>1, FoundFrame
<1>3. ReadInv'
  BY <1>1 DEF ReadInv
<1>4. PathInv' /\ DoneInv'
  BY <1>1, <1>2 DEF Inv, PathInv, DoneInv, Provided
<1> QED
  BY <1>1, <1>2, <1>3, <1>4 DEF Inv, WalkInv, SearchInv, Phases

\* The best of the search paths that are left is read now.
LEMMA NowRead ==
  ASSUME Inv, phase \in {"discovering", "reading"}, pluginPath # <<>>
  PROVE  /\ Len(pluginPath) \in 1..Len(Ranked)
         /\ Len(Ranked) \in Nat
         /\ Head(pluginPath) = Ranked[Len(pluginPath)]
         /\ IsBackwards(Tail(pluginPath), Ranked)
         /\ Len(Tail(pluginPath)) = Len(pluginPath) - 1
<1>1. IsBackwards(pluginPath, Ranked)
  BY DEF Inv, PathInv
<1> DEFINE n == Len(pluginPath)
           rest == Tail(pluginPath)
<1>2. /\ pluginPath \in Seq(Range(Ranked)) /\ n <= Len(Ranked)
      /\ \A i \in 1..n : pluginPath[i] = Ranked[n + 1 - i]
  BY <1>1 DEF IsBackwards
<1>3. n \in Nat \ {0} /\ Head(pluginPath) = pluginPath[1]
  BY <1>2
<1>4. /\ rest \in Seq(Range(Ranked)) /\ Len(rest) = n - 1
      /\ \A i \in 1..(n - 1) : rest[i] = pluginPath[i + 1]
  BY <1>2, <1>3
<1>5. Len(Ranked) \in Nat
  BY RankedLength DEF Inv
<1> HIDE DEF n, rest
<1>6. n \in 1..Len(Ranked) /\ n - 1 <= Len(Ranked)
  BY <1>2, <1>3, <1>5
<1>7. \A i \in 1..(n - 1) : rest[i] = Ranked[n - 1 + 1 - i]
  <2> TAKE i \in 1..(n - 1)
  <2>1. i + 1 \in 1..n /\ n + 1 - (i + 1) = n - 1 + 1 - i
    BY <1>3
  <2> QED
    BY <1>2, <1>4, <2>1
<1>8. IsBackwards(rest, Ranked)
  BY <1>4, <1>6, <1>7 DEF IsBackwards
<1>9. Head(pluginPath) = Ranked[n]
  <2>1. 1 \in 1..n /\ n + 1 - 1 = n
    BY <1>3
  <2> QED
    BY <1>2, <1>3, <2>1
<1> QED
  BY <1>4, <1>5, <1>6, <1>8, <1>9 DEF n, rest

LEMMA ReadEntryStep ==
  ASSUME Inv, ReadEntry
  PROVE  Inv'
<1> DEFINE n == Len(pluginPath)
           dir == Head(pluginPath)
<1>1. PICK entry \in unread :
        /\ unread' = unread \ {entry}
        /\ plugins' = IF IsPlugin(entry) THEN WithPlugin(entry.stem) ELSE plugins
  BY DEF ReadEntry
<1>2. /\ phase = "reading" /\ phase' = "reading"
      /\ world' = world /\ asked' = asked /\ settingsFile' = settingsFile
      /\ pluginPath' = pluginPath /\ failed' = failed
  BY DEF ReadEntry
<1>3. /\ pluginPath # <<>> /\ dir \in DOMAIN Content
      /\ unread \subseteq Content[dir]
      /\ \A e \in Content[dir] \ unread :
           IsPlugin(e) => e.stem \in DOMAIN plugins /\ plugins[e.stem] = dir
  BY <1>2 DEF Inv, ReadInv
<1>4. WorldType' /\ NearestSettingsFile' /\ Ranked' = Ranked
  BY <1>2, FoundFrame
<1>5. n \in 1..Len(Ranked) /\ dir = Ranked[n] /\ Len(Ranked) \in Nat
  BY <1>2, <1>3, NowRead
<1>6. /\ DOMAIN plugins \subseteq DOMAIN plugins'
      /\ \A name \in DOMAIN plugins :
           plugins'[name] = plugins[name] \/ plugins'[name] = dir
      /\ IsPlugin(entry) => /\ entry.stem \in DOMAIN plugins'
                            /\ plugins'[entry.stem] = dir
  BY <1>1 DEF WithPlugin
<1> HIDE DEF n, dir
<1>7. ReadInv'
  <2>1. ASSUME NEW e \in Content[dir] \ unread', IsPlugin(e)
        PROVE  e.stem \in DOMAIN plugins' /\ plugins'[e.stem] = dir
    <3>1. CASE e = entry
      BY <1>6, <2>1, <3>1
    <3>2. CASE e # entry
      <4>1. e.stem \in DOMAIN plugins /\ plugins[e.stem] = dir
        BY <1>1, <1>3, <2>1, <3>2
      <4> QED
        BY <1>6, <4>1
    <3> QED
      BY <3>1, <3>2
  <2>2. unread' \subseteq Content[dir]
    BY <1>1, <1>3
  <2>3. dir' = dir
    BY <1>2 DEF dir
  <2> QED
    BY <1>2, <1>3, <2>1, <2>2, <2>3 DEF ReadInv, dir
<1>8. DoneInv'
  <2> SUFFICES ASSUME NEW i \in (n + 1)..Len(Ranked),
                      i \notin failed, Ranked[i] \in DOMAIN Content,
                      NEW name \in ScriptsOf(Ranked[i])
               PROVE  /\ name \in DOMAIN plugins'
                      /\ plugins'[name] \in {Ranked[j] : j \in 1..i}
    BY <1>2, <1>4 DEF DoneInv, Provided, n
  <2>1. name \in DOMAIN plugins /\ plugins[name] \in {Ranked[j] : j \in 1..i}
    BY <1>2 DEF Inv, DoneInv, Provided, n
  <2>2. dir \in {Ranked[j] : j \in 1..i}
    <3>1. n \in 1..i
      BY <1>5
    <3> QED
      BY <1>5, <3>1
  <2> QED
    BY <1>6, <2>1, <2>2
<1>9. PathInv'
  BY <1>2, <1>4 DEF Inv, PathInv
<1> QED
  BY <1>2, <1>4, <1>7, <1>8, <1>9 DEF Inv, WalkInv, SearchInv, Phases

\* The next directory is turned to when this one has given what it has, or has
\* failed.
LEMMA LeaveDirectory ==
  ASSUME Inv, phase \in {"discovering", "reading"}, phase' = "discovering",
         world' = world, asked' = asked, settingsFile' = settingsFile,
         plugins' = plugins, pluginPath # <<>>, pluginPath' = Tail(pluginPath),
         failed \subseteq failed',
         \/ Len(pluginPath) \in failed'
         \/ \A name \in ScriptsOf(Head(pluginPath)) :
              name \in DOMAIN plugins /\ plugins[name] = Head(pluginPath)
  PROVE  Inv'
<1> DEFINE n == Len(pluginPath)
<1>1. WorldType' /\ NearestSettingsFile' /\ Ranked' = Ranked
  BY FoundFrame
<1>2. /\ n \in 1..Len(Ranked) /\ Head(pluginPath) = Ranked[n]
      /\ IsBackwards(Tail(pluginPath), Ranked)
      /\ Len(Tail(pluginPath)) = n - 1
  BY NowRead
<1> HIDE DEF n
<1>3. PathInv'
  BY <1>1, <1>2 DEF PathInv
<1>4. DoneInv'
  <2> SUFFICES ASSUME NEW i \in n..Len(Ranked),
                      i \notin failed', Ranked[i] \in DOMAIN Content,
                      NEW name \in ScriptsOf(Ranked[i])
               PROVE  /\ name \in DOMAIN plugins
                      /\ plugins[name] \in {Ranked[j] : j \in 1..i}
    BY <1>1, <1>2 DEF DoneInv, Provided
  <2>1. CASE i = n
    BY <1>2, <2>1 DEF n
  <2>2. CASE i # n
    <3>1. i \in (n + 1)..Len(Ranked) /\ i \notin failed
      BY <1>2, <2>2
    <3> QED
      BY <3>1 DEF Inv, DoneInv, Provided, n
  <2> QED
    BY <2>1, <2>2
<1> QED
  BY <1>1, <1>3, <1>4 DEF Inv, WalkInv, SearchInv, ReadInv, Phases

LEMMA CloseDirectoryStep ==
  ASSUME Inv, CloseDirectory
  PROVE  Inv'
<1>1. /\ phase = "reading" /\ phase' = "discovering" /\ unread = {}
      /\ world' = world /\ asked' = asked /\ settingsFile' = settingsFile
      /\ plugins' = plugins /\ failed' = failed
      /\ pluginPath' = Tail(pluginPath)
  BY DEF CloseDirectory
<1>2. /\ pluginPath # <<>>
      /\ \A entry \in Content[Head(pluginPath)] :
           IsPlugin(entry) => /\ entry.stem \in DOMAIN plugins
                              /\ plugins[entry.stem] = Head(pluginPath)
  BY <1>1 DEF Inv, ReadInv
<1>3. \A name \in ScriptsOf(Head(pluginPath)) :
        name \in DOMAIN plugins /\ plugins[name] = Head(pluginPath)
  BY <1>2 DEF ScriptsOf
<1> QED
  BY <1>1, <1>2, <1>3, LeaveDirectory

LEMMA SkipDirectoryStep ==
  ASSUME Inv, SkipDirectory
  PROVE  Inv'
<1>1. /\ phase \in {"discovering", "reading"} /\ phase' = "discovering"
      /\ world' = world /\ asked' = asked /\ settingsFile' = settingsFile
      /\ plugins' = plugins /\ failed' = failed \cup {Len(pluginPath)}
      /\ pluginPath' = Tail(pluginPath)
  BY DEF SkipDirectory
<1>2. pluginPath # <<>>
  BY DEF SkipDirectory, Inv, ReadInv
<1> QED
  BY <1>1, <1>2, LeaveDirectory

LEMMA FinishDiscoveryStep ==
  ASSUME Inv, FinishDiscovery
  PROVE  Inv'
<1>1. /\ phase = "discovering" /\ phase' = "done" /\ pluginPath = <<>>
      /\ world' = world /\ asked' = asked /\ settingsFile' = settingsFile
      /\ plugins' = plugins /\ failed' = failed /\ pluginPath' = pluginPath
  BY DEF FinishDiscovery
<1>2. WorldType' /\ NearestSettingsFile' /\ Ranked' = Ranked
  BY <1>1, FoundFrame
<1>3. PathInv' /\ DoneInv'
  BY <1>1, <1>2 DEF Inv, PathInv, DoneInv, Provided
<1> QED
  BY <1>1, <1>2, <1>3 DEF Inv, WalkInv, SearchInv, ReadInv, Phases

LEMMA StutterStep ==
  ASSUME Inv, UNCHANGED vars
  PROVE  Inv'
<1>1. /\ world' = world /\ asked' = asked /\ phase' = phase /\ at' = at
      /\ searchPaths' = searchPaths /\ settingsFile' = settingsFile
      /\ pluginPath' = pluginPath /\ unread' = unread /\ plugins' = plugins
      /\ failed' = failed
  BY DEF vars
<1>2. WorldType' /\ Preferred' = Preferred /\ Ranked' = Ranked
  BY <1>1, Frame, RankedFrame DEF Inv
<1>3. WalkInv' /\ SearchInv' /\ NearestSettingsFile'
  BY <1>1, <1>2 DEF Inv, WalkInv, SearchInv, NearestSettingsFile
<1>4. PathInv' /\ ReadInv' /\ DoneInv'
  BY <1>1, <1>2 DEF Inv, PathInv, ReadInv, DoneInv, Provided
<1> QED
  BY <1>1, <1>2, <1>3, <1>4 DEF Inv

LEMMA NextInv == Inv /\ [Next]_vars => Inv'
BY WalkUpStep, ReachRootStep, FindSettingsFileStep, TryNextStep,
   MayNotSearchStep, FindNothingStep, OpenDirectoryStep, ReadEntryStep,
   CloseDirectoryStep, SkipDirectoryStep, FinishDiscoveryStep, StutterStep
DEF Next, Done

\* Only scripts of the directory that is read become plugins.
LEMMA ScriptsInv == Inv /\ PluginsAreScripts /\ [Next]_vars => PluginsAreScripts'
<1> SUFFICES ASSUME Inv, PluginsAreScripts, [Next]_vars
             PROVE  PluginsAreScripts'
  OBVIOUS
<1>1. CASE plugins' = plugins
  BY <1>1 DEF PluginsAreScripts
<1>2. CASE ReadEntry
  <2>1. PICK entry \in unread :
          plugins' = IF IsPlugin(entry) THEN WithPlugin(entry.stem) ELSE plugins
    BY <1>2 DEF ReadEntry
  <2>2. CASE IsPlugin(entry)
    <3>1. entry \in Content[Head(pluginPath)]
      BY <1>2 DEF Inv, ReadInv, ReadEntry
    <3>2. entry.stem \in ScriptsOf(Head(pluginPath))
      BY <2>2, <3>1 DEF ScriptsOf
    <3>3. /\ DOMAIN plugins' = DOMAIN plugins \cup {entry.stem}
          /\ plugins'[entry.stem] = Head(pluginPath)
          /\ \A name \in DOMAIN plugins :
               name # entry.stem => plugins'[name] = plugins[name]
      BY <2>1, <2>2 DEF WithPlugin
    <3>4. ASSUME NEW name \in DOMAIN plugins'
          PROVE  \/ name \in BuiltIn /\ plugins'[name] = "built in"
                 \/ name \in ScriptsOf(plugins'[name])
      <4>1. CASE name = entry.stem
        BY <3>2, <3>3, <4>1
      <4>2. CASE name # entry.stem
        BY <3>3, <4>2 DEF PluginsAreScripts
      <4> QED
        BY <4>1, <4>2
    <3> QED
      BY <3>3, <3>4 DEF PluginsAreScripts
  <2>3. CASE ~IsPlugin(entry)
    BY <1>1, <2>1, <2>3
  <2> QED
    BY <2>2, <2>3
<1> QED
  BY <1>1, <1>2
  DEF Next, WalkUp, ReachRoot, FindSettingsFile, TryNext, MayNotSearch,
      FindNothing, OpenDirectory, CloseDirectory, SkipDirectory,
      FinishDiscovery, Done, vars

-----------------------------------------------------------------------------
(* The theorems *)

\* exec-helper reads the settings file of the nearest directory that has one:
\* of the current directory, those above it up to the root, and the home
\* directory after them; and none when none of them has one.
THEOREM SettingsFileIsNearest == Spec => []NearestSettingsFile
<1>1. Inv => NearestSettingsFile
  BY DEF Inv
<1> QED
  BY InitInv, NextInv, <1>1, PTL DEF Spec

\* When the discovery is over, every script of a search path that did not fail
\* is a plugin, from that path or from one the documentation puts before it,
\* in whatever order the entries of the directories came, and whichever other
\* directories could not be read.
THEOREM PrecedenceIsDocumented == Spec => []PluginsByPrecedence
<1>1. Inv => PluginsByPrecedence
  <2> SUFFICES ASSUME Inv, phase = "done",
                      NEW i \in DOMAIN Ranked,
                      i \notin failed, Ranked[i] \in DOMAIN Content,
                      NEW name \in ScriptsOf(Ranked[i])
               PROVE  /\ name \in DOMAIN plugins
                      /\ plugins[name] \in {Ranked[j] : j \in 1..i}
    BY DEF PluginsByPrecedence
  <2>1. Len(pluginPath) = 0
    BY DEF Inv
  <2>2. i \in 1..Len(Ranked)
    BY RankedIsSeq DEF Inv
  <2>3. Provided(i, name)
    BY <2>1, <2>2 DEF Inv, DoneInv
  <2> QED
    BY <2>3 DEF Provided
<1> QED
  BY InitInv, NextInv, <1>1, PTL DEF Spec

\* A plugin is a regular file of the directory it is said to come from, with
\* the name and the extension of a plugin, and no plugin that is built in is
\* ever lost.
THEOREM PluginsComeFromScripts == Spec => []PluginsAreScripts
<1>1. Init => PluginsAreScripts
  BY DEF Init, PluginsAreScripts
<1> QED
  BY InitInv, NextInv, ScriptsInv, <1>1, PTL DEF Spec

=============================================================================
