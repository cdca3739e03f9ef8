--------------------------- MODULE Loading_proofs ---------------------------
(***************************************************************************)
(* For any plugins, providers, paths and directories, and any order in     *)
(* which the file system lists their files: which plugin serves a title,   *)
(* and where the provider of a title comes from.                           *)
(***************************************************************************)
EXTENDS PluginLoading, ProviderHandler, WellFoundedInduction, TLAPS

LEMMA LeastNumber ==
    ASSUME NEW T, T \subseteq Nat, T # {}
    PROVE  \E i \in T : \A j \in T : i <= j
<1> DEFINE R == OpToRel(<, Nat)
<1>1. IsWellFoundedOn(R, Nat)
  BY NatLessThanWellFounded
<1>2. \A i, j \in Nat : <<j, i>> \in R <=> j < i
  BY DEF OpToRel
<1> HIDE DEF R
<1>3. PICK i \in T : \A j \in T : ~(<<j, i>> \in R)
  BY <1>1, WFMin
<1>4. \A j \in T : ~(j < i)
  BY <1>2, <1>3
<1>5. \A j \in T : i <= j
  BY <1>4
<1> QED
  BY <1>5
-----------------------------------------------------------------------------
(* Providers. *)

(* What is known while the directories are read.                           *)
(*   - what is still to be listed is of the directory being read           *)
(*   - a provider that was listed, of a directory without bad files, is    *)
(*     known, from its directory or a later one                            *)
(*   - what is known was found in a directory that has been entered        *)
Listed(d, f) == f \in available[d] /\ (d < directory \/ (d = directory /\ f \notin unlisted))

KnownIfListed ==
    \A d \in Directory : Bad \notin available[d] =>
        \A f \in Provider : Listed(d, f) => providers[f.title] # Unknown /\ providers[f.title][1] >= d

KnownWasFound ==
    \A t \in ProviderTitle : providers[t] # Unknown =>
        /\ providers[t] \in Directory \X Provider
        /\ providers[t][1] <= directory /\ providers[t][2] \in available[providers[t][1]]

ProviderInv ==
    /\ ProviderTypeOK
    /\ directory \in Directory => unlisted \subseteq available[directory]
    /\ KnownIfListed /\ KnownWasFound

LEMMA ProviderInitially == ProviderInit => ProviderInv
<1> SUFFICES ASSUME ProviderInit PROVE ProviderInv
  OBVIOUS
<1>1. DirectoryContents \subseteq SUBSET (Provider \cup {Bad})
  <2> SUFFICES ASSUME NEW f \in [1 .. MaxProviders -> Provider \cup {Bad}]
               PROVE  {f[i] : i \in 1 .. MaxProviders} \subseteq Provider \cup {Bad}
    BY DEF DirectoryContents
  <2>1. \A i \in 1 .. MaxProviders : f[i] \in Provider \cup {Bad}
    OBVIOUS
  <2> QED
    BY <2>1
<1>2. available \in [Directory -> SUBSET (Provider \cup {Bad})]
  BY <1>1 DEF ProviderInit
<1>3. directory = 1 /\ unlisted = available[1] /\ \A t \in ProviderTitle : providers[t] = Unknown
  BY DEF ProviderInit
<1>4. providers \in [ProviderTitle -> (Directory \X Provider) \cup {Unknown}]
  BY DEF ProviderInit
<1> QED
  BY <1>2, <1>3, <1>4 DEF ProviderInv, ProviderTypeOK, KnownIfListed, KnownWasFound, Listed, Directory

(* Entering the next directory, from one that is read or has a bad file. *)
LEMMA EnterStep ==
    ASSUME ProviderInv, directory \in Directory, enter(directory + 1), UNCHANGED <<available, providers>>,
           unlisted = {} \/ Bad \in unlisted
    PROVE  ProviderInv'
<1> USE DEF ProviderInv, ProviderTypeOK, Directory
<1>1. directory' = directory + 1 /\ directory' \in 1 .. 4
  BY DEF enter
<1>2. directory' \in Directory => unlisted' = available[directory']
  BY DEF enter
<1>3. directory' \notin Directory => unlisted' = {}
  BY DEF enter
<1>4. ProviderTypeOK'
  BY <1>1, <1>2, <1>3
<1>5. KnownIfListed'
  <2> SUFFICES ASSUME NEW d \in Directory, Bad \notin available[d], NEW f \in Provider, Listed(d, f)'
               PROVE  providers[f.title] # Unknown /\ providers[f.title][1] >= d
    BY DEF KnownIfListed
  <2>1. d < directory' /\ f \in available[d]
    BY <1>1, <1>2 DEF Listed
  <2>2. d <= directory
    BY <1>1, <2>1
  <2>3. d = directory => unlisted = {}
    OBVIOUS
  <2> QED
    BY <2>1, <2>2, <2>3 DEF KnownIfListed, Listed
<1>6. KnownWasFound'
  BY <1>1 DEF KnownWasFound
<1> QED
  BY <1>2, <1>4, <1>5, <1>6

LEMMA ProviderStep == ProviderInv /\ [ProviderNext]_providerVars => ProviderInv'
<1> SUFFICES ASSUME ProviderInv, [ProviderNext]_providerVars PROVE ProviderInv'
  OBVIOUS
<1>1. CASE initProvider
  <2> USE DEF ProviderInv, ProviderTypeOK
  <2>1. PICK f \in unlisted \ {Bad} :
           /\ unlisted' = unlisted \ {f}
           /\ providers' = [providers EXCEPT ![f.title] = <<directory, f>>]
    BY <1>1 DEF initProvider
  <2>2. directory \in Directory /\ UNCHANGED <<available, directory>>
    BY <1>1 DEF initProvider
  <2>3. f \in Provider /\ f.title \in ProviderTitle /\ f \in available[directory]
    BY <2>2 DEF Provider
  <2>4. <<directory, f>> \in Directory \X Provider /\ <<directory, f>> # Unknown
    BY <2>2, <2>3, ProviderAssumption
  <2>5. ProviderTypeOK'
    BY <2>1, <2>2, <2>4
  <2>6. KnownIfListed'
    <3> SUFFICES ASSUME NEW d \in Directory, Bad \notin available[d], NEW g \in Provider, Listed(d, g)'
                 PROVE  providers'[g.title] # Unknown /\ providers'[g.title][1] >= d
      BY <2>2 DEF KnownIfListed
    <3>1. d <= directory /\ g \in available[d]
      BY <2>2 DEF Listed, Directory
    <3>2. CASE g.title = f.title
      BY <2>1, <2>3, <2>4, <3>1, <3>2 DEF Directory
    <3>3. CASE g.title # f.title
      <4>1. Listed(d, g)
        BY <2>1, <2>2, <3>3 DEF Listed
      <4>2. g.title \in ProviderTitle /\ providers'[g.title] = providers[g.title]
        BY <2>1, <3>3 DEF Provider
      <4> QED
        BY <4>1, <4>2 DEF KnownIfListed
    <3> QED
      BY <3>2, <3>3
  <2>7. KnownWasFound'
    BY <2>1, <2>2, <2>3, <2>4 DEF KnownWasFound, Directory
  <2> QED
    BY <2>1, <2>2, <2>5, <2>6, <2>7
<1>2. CASE BadProvider
  BY <1>2, EnterStep DEF BadProvider, afterBad
<1>3. CASE NextDirectory
  BY <1>3, EnterStep DEF NextDirectory
<1>4. CASE UNCHANGED providerVars
  BY <1>4 DEF providerVars, ProviderInv, ProviderTypeOK, KnownIfListed, KnownWasFound, Listed
<1> QED
  BY <1>1, <1>2, <1>3, <1>4 DEF ProviderNext

LEMMA ProviderInvariant == ProviderSpec => []ProviderInv
BY ProviderInitially, ProviderStep, PTL DEF ProviderSpec

(* Every variable of the provider search stays within its type. *)
THEOREM ProviderTypeCorrect == ProviderSpec => []ProviderTypeOK
<1>1. ProviderInv => ProviderTypeOK
  BY DEF ProviderInv
<1> QED
  BY <1>1, ProviderInvariant, PTL

(* For any providers, variants and sizes of the directories: a bad file    *)
(* hides nothing of another directory, the later directory wins, and what  *)
(* is known has a file (ProviderHandler::init, initProvider).              *)
THEOREM ProvidersArePreceded == ProviderSpec => []ProviderPrecedence
<1>1. ASSUME ProviderInv, directory = 4,
             NEW t \in ProviderTitle, NEW d \in Directory, Bad \notin available[d],
             NEW f \in available[d], f.title = t
      PROVE  providers[t] # Unknown /\ providers[t][1] >= d
  <2>1. f \in Provider
    BY <1>1 DEF ProviderInv, ProviderTypeOK
  <2>2. Listed(d, f)
    BY <1>1 DEF Listed, Directory
  <2> QED
    BY <1>1, <2>1, <2>2 DEF ProviderInv, KnownIfListed
<1>2. ProviderInv => ProviderPrecedence
  BY <1>1 DEF ProviderInv, KnownWasFound, ProviderPrecedence
<1> QED
  BY <1>2, ProviderInvariant, PTL
-----------------------------------------------------------------------------
(* Plugins. *)

(* What the constructor has seen of the paths, and kept of each name: the  *)
(* information file of the last path that has one of that name.            *)
Seen(p, f) ==
    f \in infoFiles[p] \ {Unreadable} /\ (p < path \/ (p = path /\ f \notin unread))

KeptIsLast ==
    \A n \in Name :
        /\ kept[n] = Missing => \A p \in PluginPath, f \in Info : Seen(p, f) => f.name # n
        /\ kept[n] # Missing =>
              /\ kept[n].name = n
              /\ \E p \in PluginPath : /\ Seen(p, kept[n])
                                       /\ \A q \in PluginPath, f \in Info : Seen(q, f) /\ f.name = n => q <= p

AllSeen ==
    /\ unread \subseteq infoFiles[path]
    /\ stage # "read" => unread = {} /\ \A p \in PluginPath : p <= path
    /\ stage = "read" =>
          /\ uninited = {} /\ \A t \in Title : loaded[t] = 0
          /\ \A m \in Module : imported[m] = Missing

(* initPlugins has visited the names in order, and has imported, under     *)
(* each module name, the first plugin of that module that can be imported. *)
Visited(n) == stage # "read" /\ kept[n] # Missing /\ n \notin uninited

Brings(k, n) ==
    /\ kept[k] # Missing /\ kept[k].type = "python" /\ kept[k].state = "ok"
    /\ package2module[k] = package2module[n]

InOrder ==
    /\ \A n \in uninited : kept[n] # Missing
    /\ \A n \in Name, m \in uninited : Visited(n) => n < m
    /\ stage = "done" => uninited = {}

ImportedIsFirst ==
    \A n \in Name :
        LET m == package2module[n] IN
            /\ imported[m] = Missing => \A k \in Name : ~(Visited(k) /\ Brings(k, n))
            /\ imported[m] # Missing =>
                  \E k \in Name : /\ Visited(k) /\ Brings(k, n) /\ imported[m] = kept[k]
                                  /\ \A j \in Name : Visited(j) /\ Brings(j, n) => k <= j

(* kept[n] runs as f, which is its own or that of the first name that      *)
(* brings its module.                                                      *)
RunsAs(n, f) ==
    \/ /\ kept[n].type = "cpp" \/ \A k \in Name : ~(Brings(k, n) /\ k <= n)
       /\ f = kept[n]
    \/ /\ kept[n].type = "python"
       /\ \E k \in Name : /\ Brings(k, n) /\ k <= n /\ f = kept[k]
                          /\ \A j \in Name : Brings(j, n) => k <= j

Serves(n, t) == \E f \in Info : RunsAs(n, f) /\ f.state = "ok" /\ f.title = t

LoadedIsLast ==
    /\ \A t \in Title :
          /\ \A n \in Name : Visited(n) /\ Serves(n, t) => loaded[t] # 0 /\ n <= loaded[t]
          /\ loaded[t] # 0 => Visited(loaded[t]) /\ Serves(loaded[t], t)
    /\ stage = "dead" => \E n \in Name, f \in Info : kept[n] # Missing /\ RunsAs(n, f) /\ f.state = "fatal"

LoadingInv ==
    LoadingTypeOK /\ KeptIsLast /\ AllSeen /\ InOrder /\ ImportedIsFirst /\ LoadedIsLast
LEMMA InfoType ==
    \A f \in Info : /\ f.name \in Name /\ f.title \in Title
                    /\ f.type \in {"python", "cpp"} /\ f.state \in {"ok", "broken", "fatal"}
BY LoadingAssumption

LEMMA ModuleOf == \A n \in Name : package2module[n] \in Module
BY DEF Module

LEMMA LoadingInitially == LoadingInit => LoadingInv
<1> SUFFICES ASSUME LoadingInit PROVE LoadingInv
  OBVIOUS
<1>1. infoFiles \in [PluginPath -> SUBSET (Info \cup {Unreadable})]
  <2>1. PathContents \subseteq SUBSET (Info \cup {Unreadable})
    <3> SUFFICES ASSUME NEW f \in [1 .. MaxFiles -> Info \cup {Unreadable}]
                 PROVE  {f[i] : i \in 1 .. MaxFiles} \subseteq Info \cup {Unreadable}
      BY DEF PathContents
    <3>1. \A i \in 1 .. MaxFiles : f[i] \in Info \cup {Unreadable}
      OBVIOUS
    <3> QED
      BY <3>1
  <2> QED
    BY <2>1 DEF LoadingInit
<1>2. LoadingTypeOK
  BY <1>1 DEF LoadingInit, LoadingTypeOK
<1>3. KeptIsLast
  <2> SUFFICES ASSUME NEW p \in PluginPath, NEW f \in Info, Seen(p, f) PROVE FALSE
    BY DEF LoadingInit, KeptIsLast
  <2>1. p < path \/ (p = path /\ f \notin unread)
    BY DEF Seen
  <2>2. path <= p /\ unread = infoFiles[path] /\ path \in Nat /\ p \in Nat
    BY LoadingAssumption DEF LoadingInit
  <2> QED
    BY <2>1, <2>2 DEF Seen
<1>4. AllSeen /\ InOrder /\ ImportedIsFirst /\ LoadedIsLast
  BY ModuleOf DEF LoadingInit, AllSeen, InOrder, ImportedIsFirst, LoadedIsLast, Visited
<1> QED
  BY <1>2, <1>3, <1>4 DEF LoadingInv

(* The file read last replaces what was kept of its name. *)
LEMMA ReadStep == ASSUME LoadingInv, ReadFile PROVE LoadingInv'
<1> USE DEF LoadingInv, LoadingTypeOK
<1>1. PICK f \in unread : unread' = unread \ {f} /\ kept' = IF f = Unreadable THEN kept ELSE keep(f)
  BY DEF ReadFile
<1>2. stage = "read" /\ UNCHANGED <<infoFiles, path, stage, uninited, imported, loaded>>
  BY DEF ReadFile
<1>3. f \in infoFiles[path] /\ (f # Unreadable => f \in Info /\ f.name \in Name)
  BY InfoType DEF AllSeen
<1>4. LoadingTypeOK'
  BY <1>1, <1>2, <1>3 DEF keep
<1>5. \A p \in PluginPath, g \in Info : Seen(p, g)' <=> Seen(p, g) \/ (p = path /\ g = f /\ f # Unreadable)
  BY <1>1, <1>2, <1>3, LoadingAssumption DEF Seen
<1>6. KeptIsLast'
  <2> SUFFICES ASSUME NEW n \in Name
               PROVE  /\ kept'[n] = Missing => \A p \in PluginPath, g \in Info : Seen(p, g)' => g.name # n
                      /\ kept'[n] # Missing =>
                            /\ kept'[n].name = n
                            /\ \E p \in PluginPath :
                                  /\ Seen(p, kept[n])'
                                  /\ \A q \in PluginPath, g \in Info : Seen(q, g)' /\ g.name = n => q <= p
    BY DEF KeptIsLast
  <2>1. CASE f # Unreadable /\ n = f.name
    <3>1. kept'[n] = f /\ f # Missing
      BY <1>1, <1>3, <2>1, LoadingAssumption DEF keep
    <3>2. Seen(path, f)'
      BY <1>1, <1>2, <1>3, <2>1 DEF Seen
    <3>3. \A q \in PluginPath, g \in Info : Seen(q, g)' => q <= path
      BY <1>2, LoadingAssumption DEF Seen
    <3>4. Seen(path, kept[n])'
      BY <1>2, <3>1, <3>2 DEF Seen
    <3> QED
      BY <1>2, <2>1, <3>1, <3>3, <3>4
  <2>2. CASE ~(f # Unreadable /\ n = f.name)
    <3>1. kept'[n] = kept[n]
      BY <1>1, <1>3, <2>2 DEF keep
    <3>2. \A p \in PluginPath, g \in Info : g.name = n => (Seen(p, g)' <=> Seen(p, g))
      BY <1>5, <2>2
    <3>3. CASE kept[n] = Missing
      BY <3>1, <3>2, <3>3 DEF KeptIsLast
    <3>4. CASE kept[n] # Missing
      <4>1. PICK p \in PluginPath :
               /\ Seen(p, kept[n])
               /\ \A q \in PluginPath, g \in Info : Seen(q, g) /\ g.name = n => q <= p
        BY <3>4 DEF KeptIsLast
      <4>2. kept[n] \in Info /\ kept[n].name = n
        BY <3>4 DEF KeptIsLast
      <4>3. Seen(p, kept[n])'
        BY <3>1, <3>2, <4>1, <4>2
      <4> QED
        BY <3>1, <3>2, <3>4, <4>1, <4>2, <4>3
    <3> QED
      BY <3>3, <3>4
  <2> QED
    BY <2>1, <2>2
<1>7. AllSeen' /\ InOrder' /\ ImportedIsFirst' /\ LoadedIsLast'
  BY <1>1, <1>2, ModuleOf DEF AllSeen, InOrder, ImportedIsFirst, LoadedIsLast, Visited
<1> QED
  BY <1>4, <1>6, <1>7

(* Nothing is seen by going on to the next path. *)
LEMMA PathStep == ASSUME LoadingInv, NextPath PROVE LoadingInv'
<1> USE DEF LoadingInv, LoadingTypeOK
<1>1. PICK p \in PluginPath :
         /\ p > path /\ \A q \in PluginPath : q > path => p <= q
         /\ path' = p /\ unread' = infoFiles[p]
  BY DEF NextPath
<1>2. stage = "read" /\ unread = {} /\ UNCHANGED <<infoFiles, kept, stage, uninited, imported, loaded>>
  BY DEF NextPath
<1>3. \A q \in PluginPath, f \in Info : Seen(q, f)' <=> Seen(q, f)
  BY <1>1, <1>2, LoadingAssumption DEF Seen
<1>4. KeptIsLast'
  <2>1. \A q \in PluginPath, n \in Name : kept[n] # Missing => (Seen(q, kept[n])' <=> Seen(q, kept[n]))
    BY <1>2, <1>3 DEF Seen
  <2> QED
    BY <1>2, <1>3, <2>1 DEF KeptIsLast
<1> QED
  BY <1>1, <1>2, <1>4, ModuleOf DEF AllSeen, InOrder, ImportedIsFirst, LoadedIsLast, Visited

LEMMA AllReadStep == ASSUME LoadingInv, AllRead PROVE LoadingInv'
<1> USE DEF LoadingInv, LoadingTypeOK
<1>1. KeptIsLast'
  BY DEF AllRead, KeptIsLast, Seen
<1>2. AllSeen' /\ InOrder'
  BY DEF AllRead, AllSeen, InOrder, Visited
<1>3. ImportedIsFirst' /\ LoadedIsLast'
  BY ModuleOf DEF AllRead, AllSeen, ImportedIsFirst, LoadedIsLast, Visited
<1> QED
  BY <1>1, <1>2, <1>3 DEF AllRead
-----------------------------------------------------------------------------
(* A container runs as one file only. *)
LEMMA RunsAsOne ==
    ASSUME LoadingTypeOK, NEW n \in Name, kept[n] # Missing, NEW f, NEW g, RunsAs(n, f), RunsAs(n, g)
    PROVE  f = g
<1>1. kept[n].type \in {"python", "cpp"} /\ kept[n].type = kept[n].type
  BY InfoType DEF LoadingTypeOK
<1>2. Name \subseteq Nat
  BY LoadingAssumption
<1>3. CASE kept[n].type = "cpp" \/ \A k \in Name : ~(Brings(k, n) /\ k <= n)
  BY <1>1, <1>3 DEF RunsAs
<1>4. CASE ~(kept[n].type = "cpp" \/ \A k \in Name : ~(Brings(k, n) /\ k <= n))
  <2>1. PICK k \in Name : Brings(k, n) /\ f = kept[k] /\ \A j \in Name : Brings(j, n) => k <= j
    BY <1>4 DEF RunsAs
  <2>2. PICK l \in Name : Brings(l, n) /\ g = kept[l] /\ \A j \in Name : Brings(j, n) => l <= j
    BY <1>4 DEF RunsAs
  <2>3. k <= l /\ l <= k
    BY <2>1, <2>2
  <2> QED
    BY <1>2, <2>1, <2>2, <2>3
<1> QED
  BY <1>3, <1>4

(* What initPlugins runs for the next name is what the name runs as. *)
LEMMA EffectiveRuns ==
    ASSUME LoadingInv, stage = "init", NEW n \in Name, IsNext(n)
    PROVE  /\ kept[n] \in Info /\ effective(kept[n]) \in Info /\ RunsAs(n, effective(kept[n]))
           /\ ~Visited(n) /\ \A k \in Name : kept[k] # Missing => (Visited(k) <=> k < n)
<1> USE DEF LoadingInv, LoadingTypeOK
<1>1. kept[n] \in Info /\ kept[n].name = n /\ kept[n].type \in {"python", "cpp"}
  BY InfoType DEF IsNext, InOrder, KeptIsLast
<1>2. ~Visited(n) /\ \A k \in Name : kept[k] # Missing => (Visited(k) <=> k < n)
  BY LoadingAssumption DEF IsNext, InOrder, Visited
<1> DEFINE m == package2module[n]
<1>3. m \in Module
  BY ModuleOf
<1>4. CASE kept[n].type = "cpp"
  BY <1>1, <1>2, <1>4 DEF effective, RunsAs
<1>5. CASE kept[n].type = "python" /\ imported[m] # Missing
  <2>1. effective(kept[n]) = imported[m] /\ imported[m] \in Info
    BY <1>1, <1>3, <1>5 DEF effective
  <2>2. PICK k \in Name : /\ Visited(k) /\ Brings(k, n) /\ imported[m] = kept[k]
                          /\ \A j \in Name : Visited(j) /\ Brings(j, n) => k <= j
    BY <1>5 DEF ImportedIsFirst
  <2>3. k < n
    BY <1>2, <2>2 DEF Brings
  <2>4. \A j \in Name : Brings(j, n) => k <= j
    BY <1>2, <2>2, <2>3, LoadingAssumption DEF Brings
  <2>5. k <= n
    BY <2>3, LoadingAssumption
  <2> QED
    BY <1>1, <1>2, <1>5, <2>1, <2>2, <2>4, <2>5 DEF RunsAs
<1>6. CASE kept[n].type = "python" /\ imported[m] = Missing
  <2>1. effective(kept[n]) = kept[n]
    BY <1>1, <1>6 DEF effective
  <2>2. \A k \in Name : Brings(k, n) => ~(k < n)
    BY <1>2, <1>6 DEF ImportedIsFirst, Brings
  <2>3. CASE Brings(n, n)
    <3>1. \A j \in Name : Brings(j, n) => n <= j
      BY <2>2, LoadingAssumption
    <3>2. n <= n
      BY LoadingAssumption
    <3> QED
      BY <1>1, <1>2, <1>6, <2>1, <2>3, <3>1, <3>2 DEF RunsAs
  <2>4. CASE ~Brings(n, n)
    <3>1. \A k \in Name : ~(Brings(k, n) /\ k <= n)
      <4> SUFFICES ASSUME NEW k \in Name, Brings(k, n), k <= n PROVE FALSE
        OBVIOUS
      <4>1. k \in Nat /\ n \in Nat
        BY LoadingAssumption
      <4>2. k = n
        BY <2>2, <4>1
      <4> QED
        BY <2>4, <4>2
    <3> QED
      BY <1>1, <1>2, <2>1, <3>1 DEF RunsAs
  <2> QED
    BY <2>3, <2>4
<1> QED
  BY <1>1, <1>4, <1>5, <1>6

(* What initPlugins leaves as it was. *)
LEMMA KeptStays ==
    ASSUME LoadingInv, stage = "init", stage' \in {"init", "done", "dead"},
           UNCHANGED <<infoFiles, path, unread, kept>>
    PROVE  /\ KeptIsLast' /\ AllSeen'
           /\ \A k, n : Brings(k, n)' <=> Brings(k, n)
           /\ \A n, f : RunsAs(n, f)' <=> RunsAs(n, f)
           /\ \A n, t : Serves(n, t)' <=> Serves(n, t)
<1>1. KeptIsLast' /\ AllSeen'
  BY DEF LoadingInv, KeptIsLast, AllSeen, Seen
<1>2. \A k, n : Brings(k, n)' <=> Brings(k, n)
  BY DEF Brings
<1>3. \A n, f : RunsAs(n, f)' <=> RunsAs(n, f)
  BY <1>2 DEF RunsAs
<1>4. \A n, t : Serves(n, t)' <=> Serves(n, t)
  BY <1>3 DEF Serves
<1> QED
  BY <1>1, <1>2, <1>3, <1>4

(* Visiting a name. *)
LEMMA VisitedAfter ==
    ASSUME LoadingInv, stage = "init", UNCHANGED <<stage, kept>>, NEW n \in Name, IsNext(n),
           uninited' = uninited \ {n}
    PROVE  InOrder' /\ \A k \in Name : Visited(k)' <=> Visited(k) \/ k = n
<1>1. \A k \in Name : Visited(k)' <=> Visited(k) \/ k = n
  BY DEF Visited, IsNext, InOrder, LoadingInv
<1>2. InOrder'
  <2>1. \A k \in uninited' : kept'[k] # Missing
    BY DEF InOrder, LoadingInv
  <2>2. \A k \in Name, m \in uninited' : Visited(k)' => k < m
    BY <1>1, LoadingAssumption DEF InOrder, LoadingInv, LoadingTypeOK, IsNext
  <2> QED
    BY <2>1, <2>2 DEF InOrder
<1> QED
  BY <1>1, <1>2

LEMMA FailStep == ASSUME LoadingInv, InitFails PROVE LoadingInv'
<1> USE DEF LoadingInv
<1>1. PICK n \in Name : IsNext(n) /\ effective(kept[n]).state = "broken" /\ uninited' = uninited \ {n}
  BY DEF InitFails
<1>2. stage = "init" /\ UNCHANGED <<infoFiles, path, unread, kept, stage, imported, loaded>>
  BY DEF InitFails
<1>3. LoadingTypeOK'
  BY <1>1, <1>2 DEF LoadingTypeOK
<1>4. KeptIsLast' /\ AllSeen' /\ InOrder'
  BY <1>1, <1>2, KeptStays, VisitedAfter
<1>5. RunsAs(n, effective(kept[n])) /\ kept[n] # Missing
  BY <1>1, <1>2, EffectiveRuns, LoadingAssumption
<1>6. \A k \in Name : Visited(k)' <=> Visited(k) \/ k = n
  BY <1>1, <1>2, VisitedAfter
<1>7. ImportedIsFirst'
  <2>1. \A k \in Name : Brings(n, k) => imported[package2module[k]] # Missing
    <3> SUFFICES ASSUME NEW k \in Name, Brings(n, k), imported[package2module[k]] = Missing PROVE FALSE
      OBVIOUS
    <3>1. effective(kept[n]) = kept[n]
      BY <1>1, <1>5 DEF Brings, effective, KeptIsLast
    <3> QED
      BY <1>1, <3>1 DEF Brings
  <2>2. \A k \in Name : Brings(n, k) =>
           \A j \in Name : Visited(j) => j < n
    BY <1>1, <1>2 DEF InOrder, IsNext
  <2>3. \A k, j : Brings(j, k)' <=> Brings(j, k)
    BY <1>2, KeptStays
  <2> QED
    BY <1>2, <1>6, <2>1, <2>2, <2>3, LoadingAssumption DEF ImportedIsFirst
<1>8. LoadedIsLast'
  <2>1. \A t \in Title : ~Serves(n, t)
    BY <1>1, <1>5, RunsAsOne DEF Serves
  <2>2. \A k, t : Serves(k, t)' <=> Serves(k, t)
    BY <1>2, KeptStays
  <2> QED
    BY <1>2, <1>6, <2>1, <2>2 DEF LoadedIsLast, LoadingTypeOK
<1> QED
  BY <1>3, <1>4, <1>7, <1>8

LEMMA WorkStep == ASSUME LoadingInv, InitWorks PROVE LoadingInv'
<1> USE DEF LoadingInv
<1>1. PICK n \in Name :
         /\ IsNext(n) /\ effective(kept[n]).state = "ok"
         /\ uninited' = uninited \ {n}
         /\ imported' = import(kept[n])
         /\ loaded' = [loaded EXCEPT ![effective(kept[n]).title] = n]
  BY DEF InitWorks
<1>2. stage = "init" /\ UNCHANGED <<infoFiles, path, unread, kept, stage>>
  BY DEF InitWorks
<1> DEFINE f == effective(kept[n])
           m == package2module[n]
<1>3. /\ kept[n] \in Info /\ f \in Info /\ RunsAs(n, f) /\ kept[n] # Missing /\ ~Visited(n)
      /\ \A k \in Name : kept[k] # Missing => (Visited(k) <=> k < n)
  BY <1>1, <1>2, EffectiveRuns, LoadingAssumption
<1>4. kept[n].name = n /\ m \in Module /\ f.title \in Title /\ kept[n].type \in {"python", "cpp"}
  BY <1>3, ModuleOf, InfoType DEF KeptIsLast
<1>5. LoadingTypeOK'
  <2>1. imported' \in [Module -> Info \cup {Missing}]
    BY <1>1, <1>3, <1>4 DEF import, LoadingTypeOK
  <2>2. loaded' \in [Title -> Name \cup {0}]
    BY <1>1, <1>4 DEF LoadingTypeOK
  <2> QED
    BY <1>1, <1>2, <2>1, <2>2 DEF LoadingTypeOK
<1>6. KeptIsLast' /\ AllSeen' /\ InOrder'
  BY <1>1, <1>2, KeptStays, VisitedAfter
<1>7. \A k \in Name : Visited(k)' <=> Visited(k) \/ k = n
  BY <1>1, <1>2, VisitedAfter
<1>8. ImportedIsFirst'
  <2>1. \A k, j : Brings(j, k)' <=> Brings(j, k)
    BY <1>2, KeptStays
  <2>2. \A k \in Module : imported'[k] = IF k = m /\ kept[n].type = "python" THEN f ELSE imported[k]
    BY <1>1, <1>3, <1>4 DEF import, LoadingTypeOK
  <2> SUFFICES ASSUME NEW k \in Name
               PROVE  LET i == package2module[k] IN
                        /\ imported'[i] = Missing => \A j \in Name : ~(Visited(j)' /\ Brings(j, k))
                        /\ imported'[i] # Missing =>
                              \E j \in Name : /\ Visited(j)' /\ Brings(j, k) /\ imported'[i] = kept[j]
                                              /\ \A h \in Name : Visited(h)' /\ Brings(h, k) => j <= h
    BY <1>2, <2>1 DEF ImportedIsFirst
  <2> DEFINE i == package2module[k]
  <2>3. i \in Module
    BY ModuleOf
  <2>4. CASE i # m \/ kept[n].type # "python"
    <3>1. imported'[i] = imported[i] /\ ~Brings(n, k)
      BY <2>2, <2>3, <2>4 DEF Brings
    <3> QED
      BY <1>7, <3>1 DEF ImportedIsFirst
  <2>5. CASE i = m /\ kept[n].type = "python" /\ imported[i] = Missing
    <3>1. f = kept[n] /\ imported'[i] = kept[n]
      BY <1>4, <2>2, <2>3, <2>5 DEF effective
    <3>2. Brings(n, k) /\ \A h \in Name : Visited(h)' /\ Brings(h, k) => h = n
      BY <1>1, <1>3, <1>7, <2>5, <3>1 DEF ImportedIsFirst, Brings
    <3>3. n <= n
      BY LoadingAssumption
    <3> QED
      BY <1>3, <1>7, <3>1, <3>2, <3>3
  <2>6. CASE i = m /\ kept[n].type = "python" /\ imported[i] # Missing
    <3>1. f = imported[i] /\ imported'[i] = imported[i]
      BY <1>4, <2>2, <2>3, <2>6 DEF effective
    <3>2. PICK j \in Name : /\ Visited(j) /\ Brings(j, k) /\ imported[i] = kept[j]
                            /\ \A h \in Name : Visited(h) /\ Brings(h, k) => j <= h
      BY <2>6 DEF ImportedIsFirst
    <3>3. j <= n
      BY <1>3, <3>2, LoadingAssumption DEF Brings
    <3>4. \A h \in Name : Visited(h)' /\ Brings(h, k) => j <= h
      BY <1>7, <3>2, <3>3
    <3> QED
      BY <1>7, <2>6, <3>1, <3>2, <3>4
  <2> QED
    BY <2>4, <2>5, <2>6
<1>9. LoadedIsLast'
  <2>1. \A t \in Title : Serves(n, t) <=> t = f.title
    BY <1>1, <1>3, <1>4, RunsAsOne DEF Serves
  <2>2. \A k, t : Serves(k, t)' <=> Serves(k, t)
    BY <1>2, KeptStays
  <2>3. \A t \in Title : loaded'[t] = IF t = f.title THEN n ELSE loaded[t]
    BY <1>1, <1>4 DEF LoadingTypeOK
  <2>4. n # 0 /\ n <= n /\ \A k \in Name : Visited(k) => k <= n
    BY <1>3, LoadingAssumption DEF Visited
  <2>5. \A t \in Title : loaded[t] # 0 => loaded[t] \in Name
    BY DEF LoadingTypeOK
  <2> SUFFICES ASSUME NEW t \in Title
               PROVE  /\ \A k \in Name : Visited(k)' /\ Serves(k, t) => loaded'[t] # 0 /\ k <= loaded'[t]
                      /\ \A k \in Name : k = loaded'[t] => Visited(k)' /\ Serves(k, t)
    <3>1. \A t \in Title : loaded'[t] # 0 => loaded'[t] \in Name
      BY <2>3, <2>5
    <3> QED
      BY <1>2, <2>2, <3>1 DEF LoadedIsLast
  <2>6. CASE t = f.title
    BY <1>7, <2>1, <2>3, <2>4, <2>6
  <2>7. CASE t # f.title
    <3>1. loaded'[t] = loaded[t] /\ ~Serves(n, t)
      BY <2>1, <2>3, <2>7
    <3>2. \A k \in Name : k = loaded[t] => k # 0 /\ Visited(k) /\ Serves(k, t)
      BY LoadingAssumption DEF LoadedIsLast
    <3>3. \A k \in Name : Visited(k) /\ Serves(k, t) => loaded[t] # 0 /\ k <= loaded[t]
      BY DEF LoadedIsLast
    <3> QED
      BY <1>7, <3>1, <3>2, <3>3
  <2> QED
    BY <2>6, <2>7
<1> QED
  BY <1>5, <1>6, <1>8, <1>9

LEMMA DeadStep == ASSUME LoadingInv, TitleFails PROVE LoadingInv'
<1> USE DEF LoadingInv
<1>1. PICK n \in Name : IsNext(n) /\ effective(kept[n]).state = "fatal"
  BY DEF TitleFails
<1>2. stage = "init" /\ stage' = "dead" /\ UNCHANGED <<infoFiles, path, unread, kept, uninited, imported, loaded>>
  BY DEF TitleFails
<1>3. effective(kept[n]) \in Info /\ RunsAs(n, effective(kept[n])) /\ kept[n] # Missing
  BY <1>1, <1>2, EffectiveRuns, LoadingAssumption
<1>4. \A k : Visited(k)' <=> Visited(k)
  BY <1>2 DEF Visited
<1>5. KeptIsLast' /\ AllSeen'
  BY <1>2, KeptStays
<1>6. InOrder' /\ LoadingTypeOK'
  BY <1>2, <1>4 DEF InOrder, LoadingTypeOK
<1>7. ImportedIsFirst'
  BY <1>2, <1>4, KeptStays DEF ImportedIsFirst
<1>8. LoadedIsLast'
  <2>1. \A k, t : Serves(k, t)' <=> Serves(k, t)
    BY <1>2, KeptStays
  <2>2. \E k \in Name, f \in Info : kept'[k] # Missing /\ RunsAs(k, f)' /\ f.state = "fatal"
    BY <1>1, <1>2, <1>3, KeptStays
  <2> QED
    BY <1>2, <1>4, <2>1, <2>2 DEF LoadedIsLast
<1> QED
  BY <1>5, <1>6, <1>7, <1>8

LEMMA DoneStep == ASSUME LoadingInv, AllInited PROVE LoadingInv'
<1> USE DEF LoadingInv
<1>1. /\ stage = "init" /\ stage' = "done" /\ uninited = {}
      /\ UNCHANGED <<infoFiles, path, unread, kept, uninited, imported, loaded>>
  BY DEF AllInited
<1>2. \A k : Visited(k)' <=> Visited(k)
  BY <1>1 DEF Visited
<1>3. KeptIsLast' /\ AllSeen'
  BY <1>1, KeptStays
<1>4. InOrder' /\ LoadingTypeOK'
  BY <1>1, <1>2 DEF InOrder, LoadingTypeOK
<1>5. ImportedIsFirst' /\ LoadedIsLast'
  BY <1>1, <1>2, KeptStays DEF ImportedIsFirst, LoadedIsLast
<1> QED
  BY <1>3, <1>4, <1>5

LEMMA LoadingInvariant == LoadingSpec => []LoadingInv
<1>1. LoadingInv /\ UNCHANGED loadingVars => LoadingInv'
  BY DEF loadingVars, LoadingInv, LoadingTypeOK, KeptIsLast, AllSeen, InOrder, ImportedIsFirst, LoadedIsLast,
         Seen, Visited, Brings, RunsAs, Serves
<1>2. LoadingInv /\ [LoadingNext]_loadingVars => LoadingInv'
  BY <1>1, ReadStep, PathStep, AllReadStep, FailStep, WorkStep, DeadStep, DoneStep DEF LoadingNext
<1> QED
  BY LoadingInitially, <1>2, PTL DEF LoadingSpec

(* Every variable of the plugin loader stays within its type. *)
THEOREM LoadingTypeCorrect == LoadingSpec => []LoadingTypeOK
<1>1. LoadingInv => LoadingTypeOK
  BY DEF LoadingInv
<1> QED
  BY <1>1, LoadingInvariant, PTL
(* Once the paths are read, what was kept of a name is what counts for it, *)
(* if no path has two files of one name.                                   *)
LEMMA FoundAsKept ==
    ASSUME LoadingInv, UniqueNames, stage # "read", NEW n \in Name
    PROVE  \A f : f \in infos(n) <=> kept[n] # Missing /\ f = kept[n]
<1> USE DEF LoadingInv, LoadingTypeOK
<1>1. \A p \in PluginPath : \A f \in infoFiles[p] \ {Unreadable} : f \in Info /\ Seen(p, f)
  BY LoadingAssumption DEF AllSeen, Seen
<1>2. CASE kept[n] = Missing
  <2>1. having(n) = {}
    BY <1>1, <1>2 DEF having, KeptIsLast
  <2> QED
    BY <1>2, <2>1 DEF infos, IsMax
<1>3. CASE kept[n] # Missing
  <2>1. PICK p \in PluginPath :
           /\ Seen(p, kept[n])
           /\ \A q \in PluginPath, f \in Info : Seen(q, f) /\ f.name = n => q <= p
    BY <1>3 DEF KeptIsLast
  <2>2. kept[n] \in Info /\ kept[n].name = n /\ kept[n] \in infoFiles[p] \ {Unreadable}
    BY <1>3, <2>1 DEF KeptIsLast, Seen
  <2>3. IsMax(p, having(n))
    BY <1>1, <2>1, <2>2 DEF having, IsMax
  <2>4. kept[n] \in infos(n)
    BY <2>2, <2>3 DEF infos
  <2>5. ASSUME NEW f \in infos(n) PROVE f = kept[n]
    <3>1. PICK q \in PluginPath : IsMax(q, having(n)) /\ f \in infoFiles[q]
      BY DEF infos
    <3>2. f \in Info /\ f.name = n
      BY DEF infos
    <3>3. q = p
      BY <2>3, <3>1, LoadingAssumption DEF IsMax, having
    <3> QED
      BY <2>2, <3>1, <3>2, <3>3, LoadingAssumption DEF UniqueNames
  <2> QED
    BY <1>3, <2>4, <2>5
<1> QED
  BY <1>2, <1>3

(* The file that source names is the one the container runs as. *)
LEMMA SourceRuns ==
    ASSUME LoadingInv, UniqueNames, stage # "read", NEW n \in Name, kept[n] # Missing
    PROVE  source(kept[n]) \in Info /\ RunsAs(n, source(kept[n]))
<1> USE DEF LoadingInv, LoadingTypeOK
<1>1. kept[n] \in Info /\ kept[n].name = n /\ kept[n].type \in {"python", "cpp"}
  BY InfoType DEF KeptIsLast
<1>2. CASE kept[n].type = "cpp"
  BY <1>1, <1>2 DEF source, RunsAs
<1>3. CASE kept[n].type = "python"
  <2> DEFINE same == {g \in UNION {infos(k) : k \in Name} :
                        /\ g.type = "python" /\ g.state = "ok" /\ g.name <= n
                        /\ package2module[g.name] = package2module[n]}
             c == CHOOSE g \in same : \A h \in same : g.name <= h.name
  <2>1. source(kept[n]) = IF same = {} THEN kept[n] ELSE c
    BY <1>1, <1>3 DEF source
  <2>2. \A g \in UNION {infos(k) : k \in Name} : g.name \in Name /\ kept[g.name] = g /\ g # Missing
    <3> SUFFICES ASSUME NEW k \in Name, NEW g \in infos(k)
                 PROVE  g.name \in Name /\ kept[g.name] = g /\ g # Missing
      OBVIOUS
    <3>1. kept[k] # Missing /\ g = kept[k]
      BY FoundAsKept
    <3> QED
      BY <3>1 DEF KeptIsLast
  <2>3. \A g \in same : g.name \in Name /\ kept[g.name] = g /\ Brings(g.name, n) /\ g.name <= n
    BY <2>2 DEF Brings
  <2>4. ASSUME NEW k \in Name, Brings(k, n), k <= n PROVE kept[k] \in same /\ kept[k].name = k
    <3>1. kept[k] \in infos(k) /\ kept[k].name = k
      BY <2>4, FoundAsKept DEF Brings, KeptIsLast
    <3> QED
      BY <2>4, <3>1 DEF Brings
  <2> HIDE DEF same
  <2>5. CASE same = {}
    BY <1>1, <1>3, <2>1, <2>4, <2>5 DEF RunsAs
  <2>6. CASE same # {}
    <3>1. \E g \in same : \A h \in same : g.name <= h.name
      <4> DEFINE T == {g.name : g \in same}
      <4>0. \A g \in same : g.name \in Nat
        BY <2>3, LoadingAssumption
      <4>1. T \subseteq Nat /\ T # {}
        BY <2>6, <4>0
      <4>2. \A g \in same : g.name \in T
        OBVIOUS
      <4>3. \A i \in T : \E g \in same : g.name = i
        OBVIOUS
      <4> HIDE DEF T
      <4>4. PICK i \in T : \A j \in T : i <= j
        BY <4>1, LeastNumber
      <4> QED
        BY <4>2, <4>3, <4>4
    <3>2. c \in same /\ \A h \in same : c.name <= h.name
      BY <3>1
    <3> HIDE DEF c
    <3>3. c.name \in Name /\ kept[c.name] = c /\ Brings(c.name, n) /\ c.name <= n
      BY <2>3, <3>2
    <3>4. ASSUME NEW j \in Name, Brings(j, n) PROVE c.name <= j
      <4>1. CASE j <= n
        BY <2>4, <3>2, <3>4, <4>1
      <4>2. CASE ~(j <= n)
        <5>1. c.name \in Nat /\ n \in Nat /\ j \in Nat
          BY <3>3, LoadingAssumption
        <5> QED
          BY <3>3, <4>2, <5>1
      <4> QED
        BY <4>1, <4>2
    <3>5. c \in Info
      BY <3>3 DEF Brings
    <3> QED
      BY <1>3, <2>1, <2>6, <3>3, <3>4, <3>5 DEF RunsAs
  <2> QED
    BY <2>5, <2>6
<1> QED
  BY <1>1, <1>2, <1>3

(* For any plugins and paths, and any order in which the file system lists *)
(* them: a title is served by the last name whose plugin runs and has it,  *)
(* whichever path the module it runs was imported from, and only a plugin  *)
(* that counts ends the process (PluginManager's constructor,              *)
(* initPlugins).                                                           *)
THEOREM LoadedByContents == LoadingSpec => []LoadedAsFound
<1>1. ASSUME LoadingInv, UniqueNames, stage \in {"done", "dead"}, NEW n \in Name, NEW t \in Title
      PROVE  n \in serving(t) <=> kept[n] # Missing /\ Serves(n, t)
  <2>1. stage # "read" /\ LoadingTypeOK
    BY <1>1 DEF LoadingInv
  <2>2. n \in serving(t) <=> /\ kept[n] # Missing
                             /\ source(kept[n]).state = "ok" /\ source(kept[n]).title = t
    BY <1>1, <2>1, FoundAsKept DEF serving
  <2>3. kept[n] # Missing => source(kept[n]) \in Info /\ RunsAs(n, source(kept[n]))
    BY <1>1, <2>1, SourceRuns
  <2> QED
    BY <2>1, <2>2, <2>3, RunsAsOne DEF Serves
<1>2. ASSUME LoadingInv, UniqueNames, stage = "done", NEW t \in Title
      PROVE  IF serving(t) = {} THEN loaded[t] = 0 ELSE IsMax(loaded[t], serving(t))
  <2>1. \A n \in Name : kept[n] # Missing <=> Visited(n)
    BY <1>2 DEF LoadingInv, InOrder, Visited
  <2>2. \A n \in Name : n \in serving(t) <=> Visited(n) /\ Serves(n, t)
    BY <1>1, <1>2, <2>1
  <2>3. /\ \A n \in Name : Visited(n) /\ Serves(n, t) => loaded[t] # 0 /\ n <= loaded[t]
        /\ loaded[t] # 0 => Visited(loaded[t]) /\ Serves(loaded[t], t)
        /\ loaded[t] \in Name \cup {0}
    BY <1>2 DEF LoadingInv, LoadedIsLast, LoadingTypeOK
  <2>4. serving(t) \subseteq Name
    BY DEF serving
  <2>5. CASE loaded[t] = 0
    BY <2>2, <2>3, <2>4, <2>5
  <2>6. CASE loaded[t] # 0
    BY <2>2, <2>3, <2>4, <2>6 DEF IsMax
  <2> QED
    BY <2>5, <2>6
<1>3. ASSUME LoadingInv, UniqueNames, stage = "dead"
      PROVE  \E n \in Name : \E f \in infos(n) : source(f).state = "fatal"
  <2>1. PICK n \in Name, f \in Info : kept[n] # Missing /\ RunsAs(n, f) /\ f.state = "fatal"
    BY <1>3 DEF LoadingInv, LoadedIsLast
  <2>2. source(kept[n]) = f
    BY <1>3, <2>1, SourceRuns, RunsAsOne DEF LoadingInv
  <2>3. kept[n] \in infos(n)
    BY <1>3, <2>1, FoundAsKept
  <2> QED
    BY <2>1, <2>2, <2>3
<1>4. LoadingInv => LoadedAsFound
  BY <1>2, <1>3 DEF LoadedAsFound
<1> QED
  BY <1>4, LoadingInvariant, PTL
=============================================================================
