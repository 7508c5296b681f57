----------------------- MODULE MCExecutePluginRefinement -----------------------
(***************************************************************************)
(* The refinement of ScheduledRun on the settings of MCExecutePlugin.      *)
(***************************************************************************)
EXTENDS MCExecutePlugin, ExecutePluginRefinement

AcyclicSettings == NestedSettings \cup TargetSettings

=============================================================================
