-------------------------- MODULE MC_WindowsLibrary --------------------------
(* Instances of WindowsLibrary: one plug-in, which brings another module.   *)
EXTENDS WindowsLibrary

MC_Deps == [p \in Plugins |-> {"dep"}]
==============================================================================
