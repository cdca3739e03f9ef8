--------------------------- MODULE AccountParser ---------------------------
(***************************************************************************)
(* The account directories and the parsers over them                       *)
(* (Accounts/AccountParser.cpp, and the part of AccountManager that looks  *)
(* for the parser of an account).  A file is identified by its name, the   *)
(* account id, and is abstracted to the services and plugin ids it holds.  *)
(***************************************************************************)
EXTENDS PluginManager

CONSTANTS
    UserDirs, ReadonlyDirs,     \* how many directories of each kind
    Provisioned                 \* ids that may have a file before the first start

ASSUME DirAssumption ==
    /\ UserDirs \in Nat /\ ReadonlyDirs \in Nat
    /\ Provisioned \subseteq AccountId /\ IsFiniteSet(Provisioned)

VARIABLE files      \* files[p][id]: the file of account id in directory p

(* m_parsers: user directories come before read-only ones. *)
Parser == 1 .. UserDirs + ReadonlyDirs
isReadonly(p) == p > UserDirs

NoFile      == [kind |-> "none",    refs |-> NoServices]
EmptyFile   == [kind |-> "empty",   refs |-> NoServices]   \* truncated, not yet written
GarbageFile == [kind |-> "garbage", refs |-> NoServices]   \* cut off where it cannot be parsed
AccountFile(r) == [kind |-> "account", refs |-> r]

File == {NoFile, EmptyFile, GarbageFile} \cup {AccountFile(r) : r \in ServiceRefs}

FilesTypeOK == files \in [Parser -> [Key -> File]]

(* The directories as the process may first find them: an id that was      *)
(* provisioned, by the administrator or by an earlier configuration, has a *)
(* well-formed file in one of them.                                        *)
ProvisionedFile == {NoFile} \cup {AccountFile(r) : r \in [Service -> {NoPid, Absent}]}

FilesInit ==
    \E home \in [Provisioned -> Parser], file \in [Provisioned -> ProvisionedFile] :
        files = [p \in Parser |-> [k \in Key |->
                    IF k \in Provisioned /\ home[k] = p THEN file[k] ELSE NoFile]]

hasAccount(p, id) == files[p][id].kind # "none"

(* AccountParser::read succeeds: an empty file parses as a document        *)
(* without an `account` key; a service without plugin fails the read.      *)
parserRead(p, id) ==
    \/ files[p][id].kind = "empty"
    \/ files[p][id].kind = "account" /\ services(files[p][id].refs) \subseteq plugins

(* The id of the AccountObject that AccountParser::read filled in. *)
readId(p, id) == IF files[p][id].kind = "empty" THEN NullId ELSE id

(* The parsers AccountManager::findParser may return, and its answer, as   *)
(* the set with at most one element.                                       *)
MutantAnyParser(id, onlyWritables) == {p \in Parser : hasAccount(p, id) \/ id = NullId}
candidates(id, onlyWritables) ==
    {p \in Parser : (onlyWritables => ~isReadonly(p)) /\ (hasAccount(p, id) \/ id = NullId)}
findParser(id, onlyWritables) == {p \in Parser : IsFirst(p, candidates(id, onlyWritables))}

(* AccountManager::readAccount succeeds through this parser. *)
MutantReadWritable(id) == {p \in findParser(id, TRUE) : parserRead(p, id)}
readAccount(id) == {p \in findParser(id, FALSE) : parserRead(p, id)}

(* AccountManager::listAccounts, as where each account listed is stored;   *)
(* without a filter it lists all.                                          *)
servicesIn(l) == services(files[l[1]][l[2]].refs)

listAccounts(serviceFilter) ==
    {l \in Parser \X Key : /\ parserRead(l[1], l[2])
                           /\ serviceFilter = {} \/ servicesIn(l) \cap serviceFilter # {}}

(* How many listed accounts have service s. *)
instances(s) == Cardinality({l \in listAccounts({}) : s \in servicesIn(l)})

(* No file carries the id: a new uuid. *)
unusedId(id) == \A p \in Parser : files[p][id] = NoFile

pidsOnDisk == {files[p][k].refs[s] : p \in Parser, k \in Key, s \in Service}

(* AccountParser::write refuses, then FILE::write: the ofstream truncates  *)
(* when it is opened and writes when it is closed.  A failed write leaves  *)
(* the file empty or cut off, and is not reported.  One that is cut off    *)
(* between two lines still parses, as an account with the services that    *)
(* come first, the last of them perhaps without its parameters.            *)
writeRefused(p, id) == id = NullId \/ isReadonly(p)

truncateFile(p, id) == files' = [files EXCEPT ![p][id] = EmptyFile]

cutOff(r) ==
    {GarbageFile} \cup
    {AccountFile([s \in Service |-> IF s < last THEN r[s]
                                    ELSE IF s = last /\ bare /\ r[s] # Absent THEN NoPid
                                    ELSE Absent]) : last \in Service, bare \in BOOLEAN}

flushFile(p, id, refs) ==
    \/ files' = [files EXCEPT ![p][id] = AccountFile(refs)]
    \/ "disk" \in Faults /\ files' = files
    \/ "disk" \in Faults /\ \E f \in cutOff(refs) : files' = [files EXCEPT ![p][id] = f]

removeRefused(p, id) == isReadonly(p) \/ ~hasAccount(p, id)

MutantUnlinkNothing(p, id) == UNCHANGED files
unlinkFile(p, id) == files' = [files EXCEPT ![p][id] = NoFile]
=============================================================================
