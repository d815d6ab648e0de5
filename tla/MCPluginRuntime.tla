--------------------------- MODULE MCPluginRuntime ---------------------------
(* Instances of PluginRuntime for TLC: the handles are model values.       *)
EXTENDS PluginRuntime
=============================================================================
