--------------------------- MODULE Startup_proofs ----------------------------
(***************************************************************************)
(* For any paths and any first state of the file system: when mkpath       *)
(* answers true, the whole path is there.                                  *)
(***************************************************************************)
EXTENDS Startup, SequenceTheorems, WellFoundedInduction, TLAPS

(* A set of numbers that is not empty has a least element. *)
LEMMA Least ==
    ASSUME NEW T, T \subseteq Nat, T # {}
    PROVE  \E i \in T : \A j \in T : i <= j
<1> DEFINE R == OpToRel(<, Nat)
<1>1. IsWellFoundedOn(R, Nat)
  BY NatLessThanWellFounded
<1>2. \A i, j \in Nat : <<j, i>> \in R <=> j < i
  BY DEF OpToRel
<1> HIDE DEF R
<1>3. PICK i \in T : \A j \in T : ~(<<j, i>> \in R)
  BY <1>1, WFMin
<1>4. \A j \in T : ~(j < i)
  BY <1>2, <1>3
<1>5. \A j \in T : i <= j
  BY <1>4
<1>6. QED
  BY <1>5

(* What is left of a path after wordexp is a path. *)
LEMMA WordexpType == ASSUME NEW s \in Seq(PathName) PROVE wordexp(s) \in Seq(PathName)
<1> DEFINE T == {i \in 1 .. Len(s) : firstWord[s[i]] # s[i]}
<1>1. Len(s) \in Nat /\ DOMAIN s = 1 .. Len(s) /\ \A i \in 1 .. Len(s) : s[i] \in PathName
  BY LenProperties
<1>2. CASE T = {}
  BY <1>1, <1>2 DEF wordexp
<1>3. CASE T # {}
  <2>1. PICK i \in T : \A j \in T : i <= j
    <3>1. T \subseteq Nat
      BY <1>1
    <3> HIDE DEF T
    <3>2. QED
      BY <1>3, <3>1, Least
  <2>2. i \in DOMAIN s /\ blankAt(s, i)
    BY <1>1, <2>1 DEF blankAt
  <2> DEFINE c == CHOOSE k \in DOMAIN s : blankAt(s, k)
  <2>3. c \in 1 .. Len(s)
    BY <1>1, <2>2
  <2>4. ~\A k \in DOMAIN s : firstWord[s[k]] = s[k]
    BY <1>1, <2>1
  <2>5. SubSeq(s, 1, c - 1) \in Seq(PathName)
    <3> HIDE DEF c
    <3>1. c - 1 \in Int /\ \A k \in 1 .. c - 1 : s[k] \in PathName
      BY <1>1, <2>3
    <3>2. QED
      BY <3>1, SubSeqProperties
  <2>6. <<firstWord[s[c]]>> \in Seq(PathName)
    BY <1>1, <2>3, PathAssumption
  <2>7. SubSeq(s, 1, c - 1) \o <<firstWord[s[c]]>> \in Seq(PathName)
    BY <2>5, <2>6, ConcatProperties
  <2>8. QED
    BY <2>4, <2>7 DEF wordexp
<1>4. QED
  BY <1>2, <1>3

LEMMA AbspathType == ASSUME NEW p \in Path PROVE abspath(p) \in Path
<1>1. p.names \in Seq(PathName) /\ wordexp(p.names) \in Seq(PathName)
  BY WordexpType DEF Path
<1>2. HomeNames \o wordexp(p.names) \in Seq(PathName)
  BY <1>1, PathAssumption, ConcatProperties
<1>3. QED
  BY <1>1, <1>2 DEF abspath, Path

(* A path up to one of its names, and what basedir makes of it. *)
LEMMA PrefixFacts ==
    ASSUME NEW p \in Path, NEW n \in 0 .. Len(p.names)
    PROVE  /\ prefix(p, n) \in Path
           /\ prefix(p, n).from = p.from
           /\ Len(prefix(p, n).names) = n
           /\ prefix(p, Len(p.names)) = p
           /\ \A m \in 0 .. n : prefix(prefix(p, n), m) = prefix(p, m)
<1> DEFINE s == p.names
<1>1. s \in Seq(PathName) /\ Len(s) \in Nat /\ \A i \in 1 .. Len(s) : s[i] \in PathName
  BY LenProperties DEF Path
<1>2. \A k \in 0 .. Len(s) : /\ SubSeq(s, 1, k) \in Seq(PathName)
                             /\ Len(SubSeq(s, 1, k)) = k
                             /\ \A i \in 1 .. k : SubSeq(s, 1, k)[i] = s[i]
  <2> TAKE k \in 0 .. Len(s)
  <2>1. \A i \in 1 .. k : s[i] \in PathName
    BY <1>1
  <2>2. /\ SubSeq(s, 1, k) \in Seq(PathName)
        /\ Len(SubSeq(s, 1, k)) = IF 1 <= k THEN k - 1 + 1 ELSE 0
        /\ \A i \in 1 .. k - 1 + 1 : SubSeq(s, 1, k)[i] = s[1 + i - 1]
    BY <1>1, <2>1, SubSeqProperties
  <2>3. QED
    BY <2>2
<1>3. SubSeq(s, 1, Len(s)) = s
  BY <1>1, SubSeqFull
<1>4. \A m \in 0 .. n : SubSeq(SubSeq(s, 1, n), 1, m) = SubSeq(s, 1, m)
  <2> TAKE m \in 0 .. n
  <2> DEFINE u == SubSeq(s, 1, n)
  <2>1. u \in Seq(PathName) /\ Len(u) = n /\ \A i \in 1 .. n : u[i] = s[i]
    BY <1>2
  <2>2. \A i \in 1 .. m : u[i] \in PathName
    BY <1>1, <2>1
  <2> HIDE DEF u
  <2>3. /\ SubSeq(u, 1, m) \in Seq(PathName)
        /\ Len(SubSeq(u, 1, m)) = IF 1 <= m THEN m - 1 + 1 ELSE 0
        /\ \A i \in 1 .. m - 1 + 1 : SubSeq(u, 1, m)[i] = u[1 + i - 1]
    BY <2>2, SubSeqProperties
  <2>4. /\ SubSeq(u, 1, m) \in Seq(PathName)
        /\ Len(SubSeq(u, 1, m)) = m
        /\ \A i \in 1 .. m : SubSeq(u, 1, m)[i] = u[i]
    BY <2>3
  <2>5. /\ SubSeq(s, 1, m) \in Seq(PathName)
        /\ Len(SubSeq(s, 1, m)) = m
        /\ \A i \in 1 .. m : SubSeq(s, 1, m)[i] = s[i]
    BY <1>1, <1>2
  <2>6. SubSeq(u, 1, m) = SubSeq(s, 1, m)
    BY <2>1, <2>4, <2>5, SeqEqual
  <2>7. QED
    BY <2>6 DEF u
<1>5. QED
  BY <1>2, <1>3, <1>4 DEF prefix, Path

LEMMA WholePath == \A p \in Path : Len(p.names) \in Nat /\ prefix(p, Len(p.names)) = p
<1> TAKE p \in Path
<1>1. Len(p.names) \in Nat
  BY LenProperties DEF Path
<1>2. QED
  BY <1>1, PrefixFacts

(* The directories above a path are itself and those above its parent. *)
LEMMA PrefixesOf ==
    ASSUME NEW p \in Path, NEW n \in 1 .. Len(p.names)
    PROVE  prefixes(prefix(p, n)) = {prefix(p, n)} \cup prefixes(prefix(p, n - 1))
<1>1. Len(p.names) \in Nat
  BY WholePath
<1>2. Len(prefix(p, n).names) = n /\ \A m \in 0 .. n : prefix(prefix(p, n), m) = prefix(p, m)
  BY <1>1, PrefixFacts
<1>3. n - 1 \in 0 .. Len(p.names)
  BY <1>1
<1>4. /\ Len(prefix(p, n - 1).names) = n - 1
      /\ \A m \in 0 .. n - 1 : prefix(prefix(p, n - 1), m) = prefix(p, m)
  BY <1>3, PrefixFacts
<1>5. prefixes(prefix(p, n)) = {prefix(p, m) : m \in 1 .. n}
  BY <1>1, <1>2 DEF prefixes
<1>6. prefixes(prefix(p, n - 1)) = {prefix(p, m) : m \in 1 .. n - 1}
  BY <1>1, <1>4 DEF prefixes
<1>7. \A m \in 1 .. n : m = n \/ m \in 1 .. n - 1
  BY <1>1
<1>8. n \in 1 .. n /\ \A m \in 1 .. n - 1 : m \in 1 .. n
  BY <1>1
<1>9. QED
  BY <1>5, <1>6, <1>7, <1>8

LEMMA PrefixZero == ASSUME NEW p \in Path PROVE prefixes(prefix(p, 0)) = {}
<1>1. Len(p.names) \in Nat
  BY WholePath
<1>2. Len(prefix(p, 0).names) = 0
  BY <1>1, PrefixFacts
<1>3. QED
  BY <1>2 DEF prefixes

LEMMA ParentOf ==
    ASSUME NEW p \in Path, NEW n \in 0 .. Len(p.names), basedir(prefix(p, n)) # prefix(p, n)
    PROVE  n > 0 /\ basedir(prefix(p, n)) = prefix(p, n - 1)
<1>1. Len(p.names) \in Nat
  BY WholePath
<1>2. /\ Len(prefix(p, n).names) = n
      /\ prefix(p, n).from = p.from
      /\ \A m \in 0 .. n : prefix(prefix(p, n), m) = prefix(p, m)
  BY PrefixFacts
<1>3. p.from = "/" => prefix(p, 0) = Root
  <2>1. SubSeq(p.names, 1, 0) = <<>>
    BY SubSeqEmpty
  <2>2. QED
    BY <2>1 DEF prefix, Root
<1>4. CASE n > 1
  BY <1>1, <1>2, <1>4 DEF basedir
<1>5. CASE n = 1
  BY <1>1, <1>2, <1>3, <1>5 DEF basedir
<1>6. CASE n = 0
  BY <1>2, <1>3, <1>6 DEF basedir
<1>7. QED
  BY <1>1, <1>4, <1>5, <1>6
-----------------------------------------------------------------------------
(*   - what is above a directory that exists exists                        *)
(*   - the innermost call of mkpath is for a path on the way to its goal   *)
(*   - on the way back that path exists                                    *)
OnTheWay == \E n \in 0 .. Len(goal.names) : cur = prefix(goal, n)

MkInv ==
    /\ PathTypeOK
    /\ closed(dirs)
    /\ mk \in {"down", "up"} => OnTheWay
    /\ mk = "up" => cur \in dirs /\ cur # goal
    /\ mk = "true" => goal \in dirs

(* A directory made below one that exists keeps the file system closed. *)
LEMMA MakeClosed ==
    ASSUME closed(dirs), NEW p \in Path, NEW n \in 1 .. Len(p.names),
           n > 1 => prefix(p, n - 1) \in dirs
    PROVE  closed(dirs \cup {prefix(p, n)})
<1>1. prefixes(prefix(p, n)) = {prefix(p, n)} \cup prefixes(prefix(p, n - 1))
  BY PrefixesOf
<1>2. CASE n = 1
  BY <1>1, <1>2, PrefixZero DEF closed
<1>3. CASE n > 1
  BY <1>1, <1>3 DEF closed
<1>4. QED
  BY <1>2, <1>3, WholePath

LEMMA DescendStep == ASSUME MkInv, Descend PROVE MkInv'
<1> USE DEF MkInv, PathTypeOK
<1>1. PICK n \in 0 .. Len(goal.names) : cur = prefix(goal, n)
  BY DEF Descend, OnTheWay
<1>2. CASE exists(cur)
  BY <1>2 DEF Descend, exists, OnTheWay
<1>3. CASE ~exists(cur) /\ basedir(cur) = cur
  BY <1>3 DEF Descend
<1>4. CASE ~exists(cur) /\ basedir(cur) # cur
  <2>1. n > 0 /\ basedir(cur) = prefix(goal, n - 1)
    BY <1>1, <1>4, ParentOf
  <2>2. n - 1 \in 0 .. Len(goal.names)
    BY <2>1, WholePath
  <2>3. basedir(cur) \in Path
    BY <2>1, <2>2, PrefixFacts
  <2>4. QED
    BY <1>4, <2>1, <2>2, <2>3 DEF Descend, OnTheWay
<1>5. QED
  BY <1>2, <1>3, <1>4

LEMMA MakeStep == ASSUME MkInv, Make PROVE MkInv'
<1> USE DEF MkInv, PathTypeOK
<1>1. PICK n \in 0 .. Len(goal.names) : cur = prefix(goal, n)
  BY DEF Make, OnTheWay
<1>2. Len(goal.names) \in Nat /\ prefix(goal, Len(goal.names)) = goal /\ Len(cur.names) = n
  BY <1>1, PrefixFacts, WholePath
<1>3. n # Len(goal.names)
  BY <1>1, <1>2 DEF Make
<1>4. n + 1 \in 1 .. Len(goal.names) /\ child = prefix(goal, n + 1)
  BY <1>2, <1>3 DEF child
<1>5. child \in Path
  BY <1>2, <1>4, PrefixFacts
<1>6. n + 1 > 1 => prefix(goal, (n + 1) - 1) \in dirs
  BY <1>1, <1>2 DEF Make
<1>7. closed(dirs')
  BY <1>4, <1>6, MakeClosed DEF Make
<1>8. QED
  BY <1>2, <1>4, <1>5, <1>7 DEF Make, OnTheWay

LEMMA OthersStep == ASSUME MkInv, OthersMake PROVE MkInv'
<1> USE DEF MkInv, PathTypeOK
<1>1. PICK d \in Shared : ~exists(d) /\ exists(basedir(d)) /\ dirs' = dirs \cup {d}
  BY DEF OthersMake
<1>2. d \in Path /\ Len(d.names) \in Nat
  BY PathAssumption, WholePath
<1>3. prefix(d, Len(d.names)) = d
  BY <1>2, WholePath
<1>4. Len(d.names) > 0 /\ prefix(d, Len(d.names) - 1) \in dirs
  <2>1. basedir(d) # d
    BY <1>1 DEF exists
  <2>2. QED
    BY <1>1, <1>2, <1>3, <2>1, ParentOf DEF exists
<1>5. closed(dirs')
  BY <1>1, <1>2, <1>3, <1>4, MakeClosed
<1>6. QED
  BY <1>1, <1>2, <1>5 DEF OthersMake, OnTheWay

(* A call of mkpath, from where the caller stands. *)
LEMMA CallStep == ASSUME MkInv, NEW p \in Path, mkpath(p) PROVE MkInv'
<1>1. goal' \in Path /\ cur' = goal' /\ mk' = "down" /\ dirs' = dirs
  BY AbspathType DEF mkpath
<1>2. Len(goal'.names) \in Nat /\ goal' = prefix(goal', Len(goal'.names))
  BY <1>1, WholePath
<1>3. QED
  BY <1>1, <1>2 DEF MkInv, PathTypeOK, OnTheWay
-----------------------------------------------------------------------------
LEMMA DefaultPathType ==
    ASSUME StartupTypeOK, xdg # <<>>
    PROVE  defaultPath \in Path
<1> DEFINE home == abspath([from |-> "~", names |-> DataNames])
           dataDir == IF xdg[1] = {} THEN home ELSE CHOOSE d \in xdg[1] : TRUE
<1>1. home \in Path
  <2>1. [from |-> "~", names |-> DataNames] \in Path
    BY StartupAssumption DEF Path
  <2>2. QED
    BY <2>1, AbspathType
<1>2. dataDir \in Path
  <2> HIDE DEF home
  <2>1. CASE xdg = <<{}>>
    BY <1>1, <2>1
  <2>2. ASSUME NEW d \in DataDirs, xdg = <<{d}>> PROVE dataDir \in Path
    BY <2>2, StartupAssumption
  <2>3. QED
    BY <2>1, <2>2 DEF StartupTypeOK
<1>3. dataDir.from \in {"/", "~", ""} /\ dataDir.names \in Seq(PathName)
  <2> HIDE DEF dataDir
  <2>1. QED
    BY <1>2 DEF Path
<1>4. dataDir.names \o ServiceNames \in Seq(PathName)
  <2> HIDE DEF dataDir
  <2>1. QED
    BY <1>3, StartupAssumption, ConcatProperties
<1>5. defaultPath = [from |-> dataDir.from, names |-> dataDir.names \o ServiceNames]
  BY DEF defaultPath
<1> HIDE DEF dataDir
<1>6. QED
  BY <1>3, <1>4, <1>5 DEF Path

ParserRecord == [path : Path, isReadOnly : BOOLEAN]

(* What AccountManager::Init has the parsers constructed from. *)
LEMMA ParsersMade ==
    ASSUME NEW ps \in Seq(Path)
    PROVE  LET all == userParsers(ps) \o [i \in DOMAIN ReadonlyPaths |-> parser(ReadonlyPaths[i], TRUE)]
           IN  /\ all \in Seq(ParserRecord)
               /\ \A i \in DOMAIN ps : i \in DOMAIN all /\ all[i] = parser(ps[i], FALSE)
<1> DEFINE u == userParsers(ps)
           r == [i \in DOMAIN ReadonlyPaths |-> parser(ReadonlyPaths[i], TRUE)]
<1>1. Len(ps) \in Nat /\ DOMAIN ps = 1 .. Len(ps) /\ \A i \in 1 .. Len(ps) : ps[i] \in Path
  BY LenProperties
<1>2. /\ Len(ReadonlyPaths) \in Nat /\ DOMAIN ReadonlyPaths = 1 .. Len(ReadonlyPaths)
      /\ \A i \in 1 .. Len(ReadonlyPaths) : ReadonlyPaths[i] \in Path
  BY StartupAssumption, LenProperties
<1>3. u \in Seq(ParserRecord) /\ Len(u) = Len(ps) /\ \A i \in 1 .. Len(ps) : u[i] = parser(ps[i], FALSE)
  BY <1>1 DEF userParsers, parser, ParserRecord
<1>4. r \in Seq(ParserRecord)
  BY <1>2 DEF parser, ParserRecord
<1> HIDE DEF u, r
<1>5. /\ u \o r \in Seq(ParserRecord)
      /\ Len(u \o r) = Len(u) + Len(r)
      /\ \A i \in 1 .. Len(u) + Len(r) : (u \o r)[i] = IF i <= Len(u) THEN u[i] ELSE r[i - Len(u)]
  BY <1>3, <1>4, ConcatProperties
<1>6. Len(r) \in Nat /\ DOMAIN (u \o r) = 1 .. Len(u \o r)
  BY <1>4, <1>5, LenProperties
<1>7. \A i \in DOMAIN ps : i \in DOMAIN (u \o r) /\ (u \o r)[i] = parser(ps[i], FALSE)
  <2> TAKE i \in DOMAIN ps
  <2>1. i \in 1 .. Len(u) + Len(r) /\ i <= Len(u) /\ i \in 1 .. Len(ps)
    BY <1>1, <1>3, <1>6
  <2>2. (u \o r)[i] = u[i]
    BY <1>5, <2>1
  <2>3. u[i] = parser(ps[i], FALSE)
    BY <1>3, <2>1
  <2>4. QED
    BY <1>5, <1>6, <2>1, <2>2, <2>3
<1>8. QED
  BY <1>5, <1>7 DEF u, r
-----------------------------------------------------------------------------
(* What the call for the goal has found missing is still missing, when     *)
(* nobody else makes directories on the way to it.                         *)
Unmade ==
    mk \in {"down", "up"} /\ plain(goal) =>
        \A m \in 1 .. Len(goal.names) : m > Len(cur.names) => prefix(goal, m) \notin dirs

LEMMA UnmadeDescend == ASSUME MkInv, Unmade, Descend PROVE Unmade'
<1> USE DEF MkInv, PathTypeOK
<1>1. PICK n \in 0 .. Len(goal.names) : cur = prefix(goal, n)
  BY DEF Descend, OnTheWay
<1>2. goal' = goal /\ dirs' = dirs /\ mk = "down"
  BY DEF Descend
<1>3. Len(goal.names) \in Nat /\ Len(cur.names) = n
  BY <1>1, PrefixFacts, WholePath
<1>4. CASE exists(cur) \/ basedir(cur) = cur
  BY <1>2, <1>4 DEF Descend, Unmade, plain
<1>5. CASE ~exists(cur) /\ basedir(cur) # cur
  <2>1. n > 0 /\ cur' = prefix(goal, n - 1)
    BY <1>1, <1>5, ParentOf DEF Descend
  <2>2. n - 1 \in 0 .. Len(goal.names)
    BY <1>3, <2>1
  <2>3. Len(cur'.names) = n - 1
    BY <2>1, <2>2, PrefixFacts
  <2>4. \A m \in 1 .. Len(goal.names) : m > n - 1 => m = n \/ m > n
    BY <1>3
  <2>5. QED
    BY <1>1, <1>2, <1>3, <1>5, <2>3, <2>4 DEF Unmade, plain, exists
<1>6. QED
  BY <1>4, <1>5

LEMMA UnmadeMake == ASSUME MkInv, Unmade, Make PROVE Unmade'
<1> USE DEF MkInv, PathTypeOK
<1>1. PICK n \in 0 .. Len(goal.names) : cur = prefix(goal, n)
  BY DEF Make, OnTheWay
<1>2. Len(goal.names) \in Nat /\ Len(cur.names) = n
  BY <1>1, PrefixFacts, WholePath
<1>3. n + 1 \in 1 .. Len(goal.names)
  BY <1>1, <1>2, WholePath DEF Make
<1>4. child = prefix(goal, n + 1) /\ Len(child.names) = n + 1
  BY <1>2, <1>3, PrefixFacts DEF child
<1>5. \A m \in 1 .. Len(goal.names) : Len(prefix(goal, m).names) = m
  BY <1>2, PrefixFacts
<1>6. \A m \in 1 .. Len(goal.names) : m > n + 1 => m > n /\ prefix(goal, m) # child
  BY <1>2, <1>4, <1>5
<1>7. goal' = goal /\ dirs' = dirs \cup {child} /\ cur' = child /\ mk = "up"
  BY DEF Make
<1>8. QED
  BY <1>2, <1>4, <1>6, <1>7 DEF Unmade, plain

LEMMA UnmadeOthers == ASSUME MkInv, Unmade, OthersMake PROVE Unmade'
<1>1. PICK d \in Shared : dirs' = dirs \cup {d}
  BY DEF OthersMake
<1>2. plain(goal) => \A m \in 1 .. Len(goal.names) : prefix(goal, m) # d
  BY <1>1 DEF plain, prefixes
<1>3. QED
  BY <1>1, <1>2 DEF OthersMake, Unmade, plain

(* Then making a directory does not fail. *)
LEMMA NoFailure ==
    ASSUME MkInv, Unmade, MakeFails, ~MkdirFails
    PROVE  ~plain(goal)
<1> USE DEF MkInv, PathTypeOK
<1>1. PICK n \in 0 .. Len(goal.names) : cur = prefix(goal, n)
  BY DEF MakeFails, OnTheWay
<1>2. Len(goal.names) \in Nat /\ Len(cur.names) = n
  BY <1>1, PrefixFacts, WholePath
<1>3. n + 1 \in 1 .. Len(goal.names) /\ n + 1 > n
  BY <1>1, <1>2, WholePath DEF MakeFails
<1>4. QED
  BY <1>2, <1>3 DEF MakeFails, child, exists, Unmade
-----------------------------------------------------------------------------
(* A user directory is there, or its parser is still to be constructed, or *)
(* the call that makes it is under way.                                    *)
Coming(p) ==
    \/ p \in dirs
    \/ \E j \in DOMAIN parsers : parsers[j] = parser(p, FALSE)
    \/ goal = p /\ mk \in {"down", "up", "overflow"}

AllComing ==
    ~MkdirFails /\ phase \in {"accounts", "listen", "serve"} =>
        \A i \in DOMAIN userPaths : plain(userPaths[i]) => Coming(userPaths[i])

StartupInv ==
    /\ StartupTypeOK /\ MkInv /\ Unmade /\ AllComing
    /\ phase \in {"listen", "serve"} => parsers = <<>> /\ mk = "idle"
    /\ phase = "options" => mk = "idle"

LEMMA StartupInitInv == StartupInit => StartupInv
<1> SUFFICES ASSUME StartupInit PROVE StartupInv
  OBVIOUS
<1>1. Root \in Path
  BY EmptySeq DEF Root, Path
<1>2. PathTypeOK /\ closed(dirs)
  BY <1>1, StartupAssumption DEF StartupInit, PathTypeOK
<1>3. StartupTypeOK
  <2>1. userPaths \in Seq(Path) /\ parsers \in Seq(ParserRecord)
    BY StartupAssumption, EmptySeq DEF StartupInit
  <2>2. QED
    BY <1>2, <2>1 DEF StartupInit, StartupTypeOK, Phase, ParserRecord
<1>4. QED
  BY <1>2, <1>3 DEF StartupInit, StartupInv, MkInv, Unmade, AllComing

(* A call of mkpath starts with nothing found missing. *)
LEMMA UnmadeCall == ASSUME NEW p \in Path, mkpath(p) PROVE Unmade'
<1>1. goal' \in Path /\ cur' = goal'
  BY AbspathType DEF mkpath
<1>2. Len(goal'.names) \in Nat
  BY <1>1, WholePath
<1>3. \A m \in 1 .. Len(goal'.names) : ~(m > Len(goal'.names))
  BY <1>2
<1>4. QED
  BY <1>1, <1>3 DEF Unmade

LEMMA PlainAbspath == ASSUME NEW p \in Path, plain(p) PROVE abspath(p) = p
BY DEF plain, abspath, Path

(* mkpath returns to its caller. *)
LEMMA ReturnMk ==
    ASSUME MkInv, Unmade, mkpathReturns
    PROVE  MkInv' /\ Unmade' /\ dirs' = dirs
BY DEF MkInv, PathTypeOK, Unmade, mkpathReturns, closed, OnTheWay

LEMMA UnchangedMk ==
    ASSUME MkInv, Unmade, UNCHANGED pathVars
    PROVE  MkInv' /\ Unmade' /\ dirs' = dirs
BY DEF MkInv, PathTypeOK, Unmade, pathVars, closed, OnTheWay, plain

LEMMA RpcStep == ASSUME StartupInv, RpcDirectory \/ RpcDirectoryMade PROVE StartupInv'
<1> USE DEF StartupInv
<1>1. UNCHANGED <<settings, parsers>> /\ phase = "rpc" /\ phase' \in {"rpc", "options", "dead"}
  BY DEF RpcDirectory, RpcDirectoryMade
<1>2. MkInv' /\ Unmade'
  BY StartupAssumption, CallStep, UnmadeCall, UnchangedMk, ReturnMk DEF RpcDirectory, RpcDirectoryMade
<1>3. phase' = "options" => mk' = "idle"
  BY DEF RpcDirectory, RpcDirectoryMade, mkpathReturns, pathVars
<1>4. StartupTypeOK'
  BY <1>1, <1>2 DEF StartupTypeOK, settings, MkInv, Phase
<1>5. QED
  BY <1>1, <1>2, <1>3, <1>4 DEF AllComing

LEMMA OptionsStep == ASSUME StartupInv, Options PROVE StartupInv'
<1> USE DEF StartupInv
<1>1. MkInv' /\ Unmade' /\ PathTypeOK'
  BY UnchangedMk DEF Options, MkInv
<1>2. CASE userPaths = <<>> /\ xdg = <<>>
  BY <1>1, <1>2 DEF Options, StartupTypeOK, Phase, AllComing
<1>3. CASE ~(userPaths = <<>> /\ xdg = <<>>)
  <2>1. userPaths' \in Seq(Path)
    <3>1. CASE userPaths = <<>>
      <4>1. defaultPath \in Path
        BY <1>3, <3>1, DefaultPathType
      <4>2. userPaths' = <<defaultPath>>
        BY <1>3, <3>1 DEF Options
      <4>3. QED
        BY <4>1, <4>2
    <3>2. CASE userPaths # <<>>
      BY <1>3, <3>2 DEF Options, StartupTypeOK
    <3>3. QED
      BY <3>1, <3>2
  <2>2. /\ parsers' \in Seq(ParserRecord)
        /\ \A i \in DOMAIN userPaths' : i \in DOMAIN parsers' /\ parsers'[i] = parser(userPaths'[i], FALSE)
    BY <1>3, <2>1, ParsersMade DEF Options
  <2>3. phase' = "accounts" /\ UNCHANGED <<ndebug, xdg>>
    BY <1>3 DEF Options
  <2>4. StartupTypeOK'
    BY <1>1, <2>1, <2>2, <2>3 DEF StartupTypeOK, Phase, ParserRecord
  <2>5. AllComing'
    BY <2>2 DEF AllComing, Coming, parser
  <2>6. QED
    BY <1>1, <2>3, <2>4, <2>5
<1>4. QED
  BY <1>2, <1>3

(* What is coming before a parser is constructed still is afterwards. *)
LEMMA ConstructStep == ASSUME StartupInv, ConstructParser PROVE StartupInv'
<1> USE DEF StartupInv
<1>1. /\ parsers \in Seq(ParserRecord) /\ parsers # <<>> /\ parsers' = Tail(parsers)
      /\ phase = "accounts" /\ mk = "idle" /\ UNCHANGED <<settings, phase>>
  BY DEF ConstructParser, StartupTypeOK, ParserRecord
<1>2. /\ Head(parsers) = parsers[1] /\ parsers[1] \in ParserRecord
      /\ parsers' \in Seq(ParserRecord)
      /\ Len(parsers) \in Nat /\ DOMAIN parsers = 1 .. Len(parsers)
      /\ DOMAIN parsers' = 1 .. Len(parsers) - 1
      /\ \A i \in 1 .. Len(parsers) - 1 : parsers'[i] = parsers[i + 1]
  BY <1>1, HeadTailProperties, LenProperties
<1>3. parsers[1].path \in Path
  BY <1>2 DEF ParserRecord
<1>4. MkInv' /\ Unmade' /\ dirs' = dirs
  BY <1>2, <1>3, CallStep, UnmadeCall, UnchangedMk DEF ConstructParser, mkpath
<1>5. StartupTypeOK'
  BY <1>1, <1>2, <1>4 DEF StartupTypeOK, settings, MkInv, ParserRecord
<1>6. ASSUME NEW p \in Path, plain(p), Coming(p) PROVE Coming(p)'
  <2>1. CASE p \in dirs
    BY <1>4, <2>1 DEF Coming
  <2>2. CASE p \notin dirs
    <3>1. PICK j \in DOMAIN parsers : parsers[j] = parser(p, FALSE)
      BY <1>1, <1>6, <2>2 DEF Coming
    <3>2. CASE j = 1
      <4>1. Head(parsers).path = p /\ Head(parsers).isReadOnly = FALSE
        BY <1>2, <3>1, <3>2 DEF parser
      <4>2. mkpath(p)
        BY <2>2, <4>1 DEF ConstructParser, exists
      <4>3. goal' = p /\ mk' = "down"
        BY <1>6, <4>2, PlainAbspath DEF mkpath
      <4>4. QED
        BY <4>3 DEF Coming
    <3>3. CASE j # 1
      <4>1. j - 1 \in DOMAIN parsers' /\ parsers'[j - 1] = parsers[j]
        BY <1>2, <3>3
      <4>2. QED
        BY <3>1, <4>1 DEF Coming, parser
    <3>4. QED
      BY <3>2, <3>3
  <2>3. QED
    BY <2>1, <2>2
<1>7. \A i \in DOMAIN userPaths : userPaths[i] \in Path
  BY LenProperties DEF StartupTypeOK
<1>8. AllComing'
  BY <1>1, <1>6, <1>7 DEF AllComing, settings, plain
<1>9. QED
  BY <1>1, <1>4, <1>5, <1>8

LEMMA ConstructedStep == ASSUME StartupInv, ParserConstructed PROVE StartupInv'
<1> USE DEF StartupInv
<1>1. MkInv' /\ Unmade' /\ dirs' = dirs /\ mk' = "idle" /\ UNCHANGED <<settings, parsers>>
  BY ReturnMk DEF ParserConstructed, mkpathReturns
<1>2. StartupTypeOK' /\ phase' \in {"accounts", "dead"}
  BY <1>1 DEF StartupTypeOK, settings, MkInv, Phase, ParserConstructed
<1>3. phase' = "accounts" => mk \in {"true", "false"} /\ phase = "accounts"
  BY DEF ParserConstructed
<1>4. AllComing'
  BY <1>1, <1>2, <1>3 DEF AllComing, Coming, settings, plain
<1>5. QED
  BY <1>1, <1>2, <1>4

LEMMA ReadyStep == ASSUME StartupInv, AccountsReady \/ Listen PROVE StartupInv'
<1> USE DEF StartupInv
<1>1. MkInv' /\ Unmade' /\ UNCHANGED <<dirs, goal, mk>> /\ UNCHANGED <<settings, parsers>>
  BY UnchangedMk DEF AccountsReady, Listen, pathVars
<1>2. /\ phase \in {"accounts", "listen"} /\ phase' \in {"listen", "serve", "dead"}
      /\ mk = "idle" /\ parsers = <<>>
  BY DEF AccountsReady, Listen
<1>3. StartupTypeOK'
  BY <1>1, <1>2 DEF StartupTypeOK, settings, MkInv, Phase
<1>4. AllComing'
  BY <1>1, <1>2 DEF AllComing, Coming, settings, plain
<1>5. QED
  BY <1>1, <1>2, <1>3, <1>4

(* The steps of mkpath and of other processes leave the settings alone. *)
LEMMA MkpathStep ==
    ASSUME StartupInv, Mkpath \/ OthersMake, UNCHANGED <<settings, parsers, phase>>
    PROVE  StartupInv'
<1> USE DEF StartupInv
<1>1. MkInv'
  BY DescendStep, MakeStep, OthersStep DEF Mkpath, MakeFails, failed, MkInv, PathTypeOK
<1>2. Unmade'
  BY UnmadeDescend, UnmadeMake, UnmadeOthers DEF Mkpath, MakeFails, failed, Unmade
<1>3. StartupTypeOK'
  BY <1>1 DEF StartupTypeOK, settings, MkInv
<1>4. phase \in {"options", "listen", "serve"} => mk' = mk
  BY DEF Mkpath, Descend, Make, MakeFails, OthersMake
<1>5. goal' = goal /\ dirs \subseteq dirs'
  BY DEF Mkpath, Descend, Make, MakeFails, OthersMake
<1>6. ASSUME NEW p, plain(p), Coming(p), ~MkdirFails PROVE Coming(p)'
  <2>1. CASE p \in dirs \/ \E j \in DOMAIN parsers : parsers[j] = parser(p, FALSE)
    BY <1>5, <2>1 DEF Coming, parser
  <2>2. CASE goal = p /\ mk \in {"down", "up", "overflow"}
    <3>1. ~MakeFails
      BY <1>6, <2>2, NoFailure
    <3>2. mk' \in {"down", "up", "overflow", "true"}
      BY <2>2, <3>1 DEF Mkpath, Descend, Make, OthersMake
    <3>3. QED
      BY <1>1, <1>5, <2>2, <3>2 DEF Coming, MkInv
  <2>3. QED
    BY <1>6, <2>1, <2>2 DEF Coming
<1>7. AllComing'
  BY <1>6 DEF AllComing, settings, plain
<1>8. QED
  BY <1>1, <1>2, <1>3, <1>4, <1>7
-----------------------------------------------------------------------------
LEMMA StartupInvariant == StartupSpec => []StartupInv
<1>1. ASSUME StartupInv, [StartupNext]_startupVars PROVE StartupInv'
  <2>1. CASE UNCHANGED startupVars
    <3>1. MkInv' /\ Unmade' /\ UNCHANGED <<dirs, goal, mk, parsers, phase, userPaths, xdg, ndebug>>
      BY <1>1, <2>1, UnchangedMk DEF startupVars, pathVars, StartupInv
    <3>2. QED
      BY <1>1, <3>1 DEF StartupInv, StartupTypeOK, MkInv, AllComing, Coming, plain
  <2>2. QED
    BY <1>1, <2>1, RpcStep, OptionsStep, ConstructStep, ConstructedStep, ReadyStep, MkpathStep
       DEF StartupNext, Main, Mkpath
<1>2. QED
  BY <1>1, StartupInitInv, PTL DEF StartupSpec

(* Every variable of the start-up stays within its type. *)
THEOREM StartupTypeCorrect == StartupSpec => []StartupTypeOK
<1>1. StartupInv => StartupTypeOK
  BY DEF StartupInv
<1>2. QED
  BY <1>1, StartupInvariant, PTL

(* When mkpath answers true the whole path is there, whatever other        *)
(* processes make at the same time (FILE::mkpath).                         *)
THEOREM MkpathMakesAll == StartupSpec => []MkpathMakes
<1>1. StartupInv => MkpathMakes
  BY DEF StartupInv, MkInv, MkpathMakes, closed
<1>2. QED
  BY <1>1, StartupInvariant, PTL

(* A service that takes requests has made the directories it was told to   *)
(* write to, where the path is one wordexp leaves alone, nobody else makes *)
(* directories on it and mkdir works (AccountManager::Init, AccountParser).*)
THEOREM PlainDirsAreMade == StartupSpec => []PlainDirsMade
<1>1. StartupInv => PlainDirsMade
  <2> SUFFICES ASSUME StartupInv, phase \in {"listen", "serve"}, ~MkdirFails,
                      NEW i \in DOMAIN userPaths, plain(userPaths[i])
               PROVE  userPaths[i] \in dirs
    BY DEF PlainDirsMade, exists
  <2>1. parsers = <<>> /\ mk = "idle" /\ Coming(userPaths[i])
    BY DEF StartupInv, AllComing
  <2>2. QED
    BY <2>1 DEF Coming
<1>2. QED
  BY <1>1, StartupInvariant, PTL
=============================================================================
