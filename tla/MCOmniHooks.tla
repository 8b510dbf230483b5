---------------------------- MODULE MCOmniHooks ----------------------------
(***************************************************************************)
(* The modules that register hooks in a backend: omni with its wrapping     *)
(* hook, two more modules on process_utility and one on a type without a    *)
(* default.  MCOmniSession has the run.                                      *)
(***************************************************************************)
CONSTANTS
  HookModules, HookType, Wrapping, Types, DefaultTypes, Self, Default, Null, Garbage,
  MaxDepth, MaxLoads

VARIABLES
  hook_entry_points, hook_modules, stack, hook_initializing, purging, since, exposed, loads

H == INSTANCE OmniHooks WITH
       Modules <- HookModules, initialized_modules <- hook_modules,
       initializing <- hook_initializing

hookVars ==
  <<hook_entry_points, hook_modules, stack, hook_initializing, purging, since, exposed,
    loads>>

ASSUME HooksAssumption == H!ConstantsOK

MCHookType ==
  [m \in HookModules |-> IF m = "other" THEN "xact_callback" ELSE "process_utility"]

\* A dispatch that is left alone runs its hooks in the intended order, and hands a
\* wrapping hook the context it left.
HooksRunInOrder == H!HooksRunInOrder

\* extension_upgrade_hook runs first without and then with its context, also when
\* plain modules are unloaded in the middle of the dispatch.
UpgradeHookRunsTwice == H!UpgradeHookRunsTwice
============================================================================
