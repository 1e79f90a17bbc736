------------------------------ MODULE Toolchain ------------------------------
(***************************************************************************)
(* tya build: a program is loaded (Loader), and what has been merged is    *)
(* built, beside builds of other programs of the project (Builds).         *)
(***************************************************************************)
EXTENDS Loader, Builds

CONSTANT BuiltPrograms    \* the programs that are built once they are loaded

ToolInit == LoadInit /\ BuildInit

Load == LoadNext /\ UNCHANGED buildVars

(* compileToCWithCoverNative has ended without an error.                   *)
BuildLoaded ==
  /\ ending = "ok" /\ imports \in BuiltPrograms
  /\ BuildNext
  /\ UNCHANGED loadVars

ToolSpec == ToolInit /\ [][Load \/ BuildLoaded]_<<loadVars, buildVars>>
=============================================================================
