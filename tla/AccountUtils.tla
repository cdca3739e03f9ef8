---------------------------- MODULE AccountUtils -----------------------------
(***************************************************************************)
(* Paths and their creation (PXUTILS::FILE in Accounts/AccountUtils.cpp).  *)
(* A path is where it starts, at the root, in the home directory or        *)
(* nowhere (a relative path), and the names it goes through.  mkpath calls *)
(* itself for the parent until it meets a directory that exists, and then  *)
(* creates one directory per return; other processes create directories at *)
(* the same time.                                                          *)
(***************************************************************************)
EXTENDS Naturals, Sequences

CONSTANTS
    PathName,
    HomeNames,  \* the names on the way to the home directory
    firstWord,  \* what is left of a name when the shell splits it at a blank
    MkdirFails, \* mkdir may fail although the directory could be made
    Shared      \* the directories that other processes may create

Path == [from : {"/", "~", ""}, names : Seq(PathName)]

ASSUME PathAssumption ==
    /\ HomeNames \in Seq(PathName)
    /\ firstWord \in [PathName -> PathName]
    /\ MkdirFails \in BOOLEAN
    /\ Shared \subseteq Path

VARIABLES
    dirs,       \* the directories that exist
    goal,       \* the path mkpath was called with, expanded
    cur,        \* the path of the innermost call
    mk          \* "down" the recursion or "up" again, or its outcome

pathVars == <<dirs, goal, cur, mk>>

Root == [from |-> "/", names |-> <<>>]

prefix(p, n) == [from |-> p.from, names |-> SubSeq(p.names, 1, n)]
prefixes(p) == {prefix(p, n) : n \in 1 .. Len(p.names)}

(* The directories above one that exists exist. *)
closed(D) == \A d \in D : prefixes(d) \subseteq D

PathTypeOK ==
    /\ dirs \subseteq Path /\ goal \in Path /\ cur \in Path
    /\ mk \in {"idle", "down", "up", "true", "false", "overflow"}
-----------------------------------------------------------------------------
(* wordexp: a leading ~ becomes the home directory, and of what a blank    *)
(* separates only the first word is used.                                  *)
blankAt(s, i) == firstWord[s[i]] # s[i] /\ \A j \in 1 .. i - 1 : firstWord[s[j]] = s[j]

wordexp(s) ==
    IF \A i \in DOMAIN s : firstWord[s[i]] = s[i] THEN s
    ELSE LET i == CHOOSE i \in DOMAIN s : blankAt(s, i)
         IN SubSeq(s, 1, i - 1) \o <<firstWord[s[i]]>>

abspath(p) ==
    IF p.from = "~" THEN [from |-> "/", names |-> HomeNames \o wordexp(p.names)]
                    ELSE [from |-> p.from, names |-> wordexp(p.names)]

(* The parent of "/a" is "/"; a relative path of one name is its own.      *)
MutantNoRoot(p) == IF Len(p.names) > 1 THEN prefix(p, Len(p.names) - 1) ELSE p
basedir(p) ==
    IF Len(p.names) > 1 THEN prefix(p, Len(p.names) - 1)
    ELSE IF p.from = "/" THEN Root ELSE p

exists(p) == p \in dirs
-----------------------------------------------------------------------------
mkpath(p) == goal' = abspath(p) /\ cur' = goal' /\ mk' = "down" /\ UNCHANGED dirs

(* The call for cur finds it, or calls itself for its parent: for a parent *)
(* that is the same path until the stack is used up.                       *)
Descend ==
    /\ mk = "down"
    /\ IF exists(cur)
       THEN mk' = (IF cur = goal THEN "true" ELSE "up") /\ UNCHANGED cur
       ELSE cur' = basedir(cur) /\ mk' = IF basedir(cur) = cur THEN "overflow" ELSE "down"
    /\ UNCHANGED <<dirs, goal>>

child == prefix(goal, Len(cur.names) + 1)

(* The call for the child of cur makes its directory, unless another       *)
(* process has done so since.                                              *)
Make ==
    /\ mk = "up" /\ ~exists(child)
    /\ dirs' = dirs \cup {child} /\ cur' = child
    /\ mk' = IF child = goal THEN "true" ELSE "up"
    /\ UNCHANGED goal

MutantNoErrno == "true"
failed == "false"

MakeFails ==
    /\ mk = "up" /\ (exists(child) \/ MkdirFails)
    /\ mk' = failed
    /\ UNCHANGED <<dirs, goal, cur>>

OthersMake ==
    /\ \E d \in Shared : ~exists(d) /\ exists(basedir(d)) /\ dirs' = dirs \cup {d}
    /\ UNCHANGED <<goal, cur, mk>>

mkpathReturns == mk' = "idle" /\ UNCHANGED <<dirs, goal, cur>>
-----------------------------------------------------------------------------
(* When mkpath answers true, the directory and all those above it exist,   *)
(* also when other processes create some of them at the same time (the     *)
(* unwinding of mkpath's recursion).                                       *)
MkpathMakes == mk = "true" => prefixes(goal) \subseteq dirs

(* mkpath of an absolute path returns: the way up ends at the root, which  *)
(* exists (basedir).                                                       *)
MkpathReturns == mk = "down" /\ goal.from = "/" ~> mk \in {"true", "false"}
=============================================================================
