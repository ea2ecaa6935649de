------------------------------ MODULE Registry ------------------------------
(***************************************************************************)
(* manifest.Store: every process reads the manifest directory file by      *)
(* file, takes what it read if all of it is valid, and goes on reading it  *)
(* at an interval.  Files change under a reader, so what it read may be a  *)
(* mixture that was never deployed.                                        *)
(***************************************************************************)
EXTENDS Naturals, Sequences

CONSTANTS
    Processes,
    Files,      \* the manifests, in name order
    Contents,   \* what a file may hold
    Valid,      \* the contents document.validate accepts
    Deployed    \* what every file holds at first

ASSUME RegistryAssumption == Files \in Nat \ {0} /\ Valid \subseteq Contents /\ Deployed \in Valid

VARIABLES
    dir,        \* the directory
    seen,       \* seen[p]: the files p has read in the Load under way
    current     \* current[p]: the snapshot p serves; empty before the first

registryVars == <<dir, seen, current>>

Snapshots == [1 .. Files -> Valid]

RegistryTypeOK ==
    /\ dir \in [1 .. Files -> Contents]
    /\ seen \in [Processes -> UNION {[1 .. n -> Contents] : n \in 0 .. Files}]
    /\ current \in [Processes -> Snapshots \cup {<<>>}]

RegistryInit ==
    /\ dir = [f \in 1 .. Files |-> Deployed]
    /\ seen = [p \in Processes |-> <<>>]
    /\ current = [p \in Processes |-> <<>>]

-----------------------------------------------------------------------------
\* A deployment changes one file or several at once.
Edit(new) ==
    /\ dir # new
    /\ dir' = new
    /\ UNCHANGED <<seen, current>>

\* Load reads the next file.
ReadFile(p) ==
    /\ Len(seen[p]) < Files
    /\ seen' = [seen EXCEPT ![p] = Append(@, dir[Len(@) + 1])]
    /\ UNCHANGED <<dir, current>>

LoadedAll(p) == Len(seen[p]) = Files

\* Load without its validation.
AcceptedUnread(p) == LoadedAll(p)

\* Load accepts: no file had a problem.
Accepted(p) == LoadedAll(p) /\ seen[p] \in Snapshots

\* A hash over the names of the files alone.
SameVersionByName(p) == current[p] # <<>>

\* The content hash of what was read against that of what is served.
SameVersion(p) == seen[p] = current[p]

Forget(p) == seen' = [seen EXCEPT ![p] = <<>>]

\* NewStore, or reload with a new version: the pointer is swapped.
Activate(p) ==
    /\ Accepted(p) /\ ~ SameVersion(p)
    /\ current' = [current EXCEPT ![p] = seen[p]]
    /\ Forget(p)
    /\ UNCHANGED dir

\* errUnchanged, or a file that has a problem: the served snapshot stays.
KeepServing(p) ==
    /\ LoadedAll(p)
    /\ ~ Accepted(p) \/ SameVersion(p)
    /\ Forget(p)
    /\ UNCHANGED <<dir, current>>

\* The process is gone, and its snapshot with it.
Discard(p) ==
    /\ Forget(p)
    /\ current' = [current EXCEPT ![p] = <<>>]
    /\ UNCHANGED dir
=============================================================================
