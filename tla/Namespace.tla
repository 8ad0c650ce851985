------------------------------ MODULE Namespace ------------------------------
(***************************************************************************)
(* The namespaces of soute: the directory .soute_<name> beside each target *)
(* that holds all that soute keeps of it (internal/config), made by init   *)
(* (internal/cli/init.go) and found again from the path of the target or   *)
(* from the directory a command is run in (internal/cli/resolve.go).       *)
(*                                                                         *)
(* A target is a directory and a name; Sanitize is what sanitizeName makes *)
(* of a name, and may be the same for two.  Of config.json only the target *)
(* path is modelled: the other settings are init's, which are valid.       *)
(***************************************************************************)
EXTENDS Integers, FiniteSets

CONSTANTS
  Dirs,      \* directories
  Files,     \* the names of targets
  Sanitize,  \* the name of the namespace of each
  None,      \* no config
  MaxChanges \* bound: runs of init and watch, and copies

Targets == Dirs \X Files

ASSUME NoneAssumption == None \notin Targets
ASSUME ChangesBound == MaxChanges \in Nat

VARIABLES
  spaces,  \* the namespaces there are
  config,  \* the target_path of each, or None
  clash,   \* history: two targets had one namespace, or one was copied
  changes  \* how many

nvars == <<spaces, config, clash, changes>>

Change == changes < MaxChanges /\ changes' = changes + 1

\* ResolvePaths: where the files of a target are.
Space(t) == <<t[1], Sanitize[t[2]]>>
Spaces == {Space(t) : t \in Targets}

NamespaceInit ==
  /\ spaces = {}
  /\ config = [s \in Spaces |-> None]
  /\ clash = FALSE /\ changes = 0

\* init, which writes over the config that is there.
InitTarget(t) ==
  /\ Change
  /\ spaces' = spaces \cup {Space(t)}
  /\ config' = [config EXCEPT ![Space(t)] = t]
  /\ clash' = (clash \/ config[Space(t)] \notin {None, t})

\* init fails between Ensure and Save.
InitUnsaved(t) ==
  /\ Change
  /\ spaces' = spaces \cup {Space(t)}
  /\ UNCHANGED <<config, clash>>

\* The user copies a directory, with its namespaces.
CopyDir(d, e) ==
  /\ Change
  /\ ~\E s \in spaces : s[1] = e
  /\ \E s \in spaces : s[1] = d
  /\ spaces' = spaces \cup {s \in Spaces : s[1] = e /\ <<d, s[2]>> \in spaces}
  /\ config' = [s \in Spaces |-> IF s[1] = e THEN config[<<d, s[2]>>] ELSE config[s]]
  /\ clash' = TRUE

NamespaceNext ==
  \/ \E t \in Targets : InitTarget(t) \/ InitUnsaved(t)
  \/ \E d, e \in Dirs : CopyDir(d, e)

\* Variant: a lone namespace is found from anywhere.
Detected_Anywhere(d) ==
  IF Cardinality(spaces) = 1 THEN {config[s] : s \in spaces} \ {None} ELSE {}

\* autoDetect: the target that the lone namespace of a directory was made for,
\* in a set; none if there is no namespace, or several, or no config.
Detected(d) ==
  LET found == {s \in spaces : s[1] = d}
  IN IF Cardinality(found) = 1 THEN {config[s] : s \in found} \ {None} ELSE {}
=============================================================================
