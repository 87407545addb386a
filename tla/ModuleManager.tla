---------------------------- MODULE ModuleManager ----------------------------
(***************************************************************************)
(* Loadable modules and the symbols the kernel exports to them,            *)
(* src/src/module/manager.rs.                                              *)
(*                                                                         *)
(* load_module gives every module no dependencies and no init or cleanup   *)
(* function (both addresses are 0), so init_module has nothing to wait for *)
(* or to call, and the states Stopped and Error are never entered.         *)
(***************************************************************************)
EXTENDS Integers

CONSTANTS
  ModuleNames,
  MaxModules    \* bound: modules ever loaded

ASSUME ModuleConstants == MaxModules \in Nat

FIRST_MODULE == 1
ModuleIds == FIRST_MODULE .. FIRST_MODULE + MaxModules

VARIABLES modules,         \* [name, state] of each module in the table
          NEXT_MODULE_ID

mod_vars == <<modules, NEXT_MODULE_ID>>

\* ModuleManager::new.
ModInit ==
  /\ modules = [id \in {} |-> id]
  /\ NEXT_MODULE_ID = FIRST_MODULE

NewModule(name) == [name |-> name, state |-> "Loaded"]
Insert(id, info) == [k \in DOMAIN modules \cup {id} |-> IF k = id THEN info ELSE modules[k]]

\* Fault: only running modules are compared with the name.
load_moduleRunningOnly(name) ==
  /\ \/ /\ \E id \in DOMAIN modules : modules[id].name = name /\ modules[id].state = "Running"
        /\ UNCHANGED <<modules, NEXT_MODULE_ID>>
     \/ /\ \A id \in DOMAIN modules : ~(modules[id].name = name /\ modules[id].state = "Running")
        /\ NEXT_MODULE_ID < FIRST_MODULE + MaxModules
        /\ modules' = Insert(NEXT_MODULE_ID, NewModule(name))
        /\ NEXT_MODULE_ID' = NEXT_MODULE_ID + 1

\* Fault: the id is the number of modules in the table, plus one.
load_moduleCounts(name) ==
  /\ \/ /\ \E id \in DOMAIN modules : modules[id].name = name
        /\ UNCHANGED <<modules, NEXT_MODULE_ID>>
     \/ /\ \A id \in DOMAIN modules : modules[id].name # name
        /\ NEXT_MODULE_ID < FIRST_MODULE + MaxModules
        /\ \E id \in ModuleIds \ DOMAIN modules :
             /\ \A k \in ModuleIds \ DOMAIN modules : id <= k
             /\ modules' = Insert(id, NewModule(name))
        /\ NEXT_MODULE_ID' = NEXT_MODULE_ID + 1

load_module(name) ==
  /\ \/ /\ \E id \in DOMAIN modules : modules[id].name = name
        /\ UNCHANGED <<modules, NEXT_MODULE_ID>>
     \/ /\ \A id \in DOMAIN modules : modules[id].name # name
        /\ NEXT_MODULE_ID < FIRST_MODULE + MaxModules
        /\ modules' = Insert(NEXT_MODULE_ID, NewModule(name))
        /\ NEXT_MODULE_ID' = NEXT_MODULE_ID + 1

\* A call that a module in the table in one of the given states accepts.
Accepts(id, states) ==
  /\ id \in DOMAIN modules
  /\ modules[id].state \in states

Refuses(id, states) ==
  /\ ~Accepts(id, states)
  /\ UNCHANGED <<modules, NEXT_MODULE_ID>>

init_module(id) ==
  \/ Refuses(id, {"Loaded"})
  \/ /\ Accepts(id, {"Loaded"})
     /\ modules' = [modules EXCEPT ![id].state = "Running"]
     /\ UNCHANGED NEXT_MODULE_ID

unload_module(id) ==
  \/ Refuses(id, {"Running", "Stopped"})
  \/ /\ Accepts(id, {"Running", "Stopped"})
     /\ modules' = [k \in DOMAIN modules \ {id} |-> modules[k]]
     /\ UNCHANGED NEXT_MODULE_ID

ModNext ==
  \/ \E name \in ModuleNames : load_module(name)
  \/ \E id \in ModuleIds : init_module(id) \/ unload_module(id)

-----------------------------------------------------------------------------
(* Properties *)

ModuleHandles ==
  INSTANCE HandleTable WITH
    Handles <- ModuleIds,
    Objects <- ModuleNames,
    bound   <- [id \in DOMAIN modules |-> modules[id].name],
    issued  <- FIRST_MODULE .. NEXT_MODULE_ID - 1

\* A module id means the module of one name until it is unloaded and nothing
\* afterwards, however modules are loaded and unloaded in between
\* (manager.rs 132-209).
ModulesAreHandles == ModuleHandles!Spec

\* No two modules in the table have the same name, running or not: what
\* resolves a dependency by name resolves it to one (manager.rs 132-155).
OneModulePerName ==
  \A i, j \in DOMAIN modules : modules[i].name = modules[j].name => i = j
=============================================================================
