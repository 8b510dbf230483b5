---------------------------- MODULE MCOmniModules ----------------------------
(***************************************************************************)
(* The backends that load modules, and small instances of OmniModules for   *)
(* TLC.                                                                     *)
(***************************************************************************)
EXTENDS TLC

CONSTANTS
  LoadingBackends, Extensions, NoFun, Versions, Installed, SqlInit, MaxChanges, MaxFailures

VARIABLES
  pg18, pg_extension, changes, pc, block, ext, load, backend_force_reload, backend_modules,
  omni_loaded, oneshot, queued, invalidated, inits, raised, failed, overtaken, unseen, bounds

L == INSTANCE OmniModules WITH
       Backends <- LoadingBackends, initialized_modules <- backend_modules

ASSUME LoadAssumption == L!ConstantsOK

Symmetry == Permutations(LoadingBackends)

\* The extension without functions can be upgraded.
MCVersions == [e \in Extensions |-> IF e \in NoFun THEN 2 ELSE 1]

LoadSpec == L!Spec

\* A backend with nothing left to notice has the modules of the extensions it sees.
ModulesMatch == L!ModulesMatch

\* A backend with nothing left to notice has the modules of all extensions.
ChangesNoticed == L!ChangesNoticed

\* _Omni_init and _Omni_deinit of a module alternate.
InitializedOnce == L!InitializedOnce
==============================================================================
