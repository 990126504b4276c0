------------------------------- MODULE Assets -------------------------------
(***************************************************************************)
(* The files of an application, static ones and templates, over one disk   *)
(* that changes under both.                                                *)
(***************************************************************************)
EXTENDS StaticFiles, Templates

vars == <<diskVars, staticVars, templateVars>>

Init == DiskInit /\ StaticInit /\ TemplatesInit

Next ==
    \/ Edit /\ UNCHANGED templateVars
    \/ StaticNext /\ UNCHANGED <<diskVars, templateVars>>
    \/ TemplatesNext /\ UNCHANGED <<diskVars, staticVars>>

Spec == Init /\ [][Next]_vars
=============================================================================
