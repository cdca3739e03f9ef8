--------------------------- MODULE ProviderHandler ---------------------------
(***************************************************************************)
(* How ProviderHandler's constructor finds the providers that accounts may *)
(* name: it loads the YAML files of three directories, in the order in     *)
(* which the file system lists them, and gives up a directory at the first *)
(* file it cannot load.                                                    *)
(***************************************************************************)
EXTENDS Naturals

CONSTANTS
    ProviderTitle,
    Variant,        \* files that define a provider of the same title
    Bad,            \* a file that is not there, or does not parse
    Unknown,        \* the entry of a title no provider has
    MaxProviders    \* a bound: files per directory

(* The system's directory, the application's and the user's. *)
Directory == 1 .. 3

Provider == [title : ProviderTitle, variant : Variant]

ASSUME ProviderAssumption ==
    /\ MaxProviders \in Nat \ {0}
    /\ Unknown \notin Directory \X Provider

VARIABLES
    available,      \* the files of each directory
    directory,      \* the directory init is reading; 4 when it has read all
    unlisted,       \* its files that init has yet to load
    providers       \* _providers, with the directory each came from

providerVars == <<available, directory, unlisted, providers>>

ProviderTypeOK ==
    /\ available \in [Directory -> SUBSET (Provider \cup {Bad})]
    /\ directory \in 1 .. 4
    /\ unlisted \subseteq Provider \cup {Bad}
    /\ providers \in [ProviderTitle -> (Directory \X Provider) \cup {Unknown}]

DirectoryContents ==
    {{}} \cup {{f[i] : i \in 1 .. MaxProviders} : f \in [1 .. MaxProviders -> Provider \cup {Bad}]}

ProviderInit ==
    /\ available \in [Directory -> DirectoryContents]
    /\ directory = 1 /\ unlisted = available[1]
    /\ providers = [t \in ProviderTitle |-> Unknown]

(* initProvider of a file that loads. *)
initProvider ==
    /\ directory \in Directory
    /\ \E f \in unlisted \ {Bad} :
          /\ unlisted' = unlisted \ {f}
          /\ providers' = [providers EXCEPT ![f.title] = <<directory, f>>]
    /\ UNCHANGED <<available, directory>>

enter(d) == directory' = d /\ unlisted' = IF d \in Directory THEN available[d] ELSE {}

(* initProvider of one that does not: init returns false, at which the     *)
(* constructor does not look.                                              *)
MutantGiveUp == 4
afterBad == directory + 1

BadProvider ==
    /\ directory \in Directory /\ Bad \in unlisted
    /\ enter(afterBad)
    /\ UNCHANGED <<available, providers>>

NextDirectory ==
    /\ directory \in Directory /\ unlisted = {}
    /\ enter(directory + 1)
    /\ UNCHANGED <<available, providers>>

ProviderNext == initProvider \/ BadProvider \/ NextDirectory

ProviderSpec == ProviderInit /\ [][ProviderNext]_providerVars
-----------------------------------------------------------------------------
(* A bad file costs no more than other files of its own directory: every   *)
(* provider of a directory without bad files is known afterwards, from     *)
(* that directory or a later one, and no provider is known that no file    *)
(* defines (ProviderHandler::init, initProvider).                          *)
ProviderPrecedence ==
    directory = 4 =>
        \A t \in ProviderTitle :
            /\ \A d \in Directory : Bad \notin available[d] /\ (\E f \in available[d] : f.title = t)
                  => providers[t] # Unknown /\ providers[t][1] >= d
            /\ providers[t] # Unknown => providers[t][2] \in available[providers[t][1]]
=============================================================================
