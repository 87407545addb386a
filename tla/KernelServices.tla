---------------------------- MODULE KernelServices ----------------------------
(***************************************************************************)
(* The two tables KERNEL_STATE keeps besides memory: the virtual file      *)
(* system and the module manager (src/src/lib.rs, kernel_main).  Each call *)
(* is made with interrupts that touch neither, so calls do not overlap.    *)
(***************************************************************************)
EXTENDS Vfs, ModuleManager

ServicesInit == VfsInit /\ ModInit

ServicesNext ==
  \/ VfsNext /\ UNCHANGED mod_vars
  \/ ModNext /\ UNCHANGED vfs_vars

ServicesSpec == ServicesInit /\ [][ServicesNext]_<<vfs_vars, mod_vars>>
=============================================================================
