-------------------------- MODULE MCSettingsObserver ---------------------------
(***************************************************************************)
(* Small instances of SettingsObserver for TLC.  The groups of settings    *)
(* share the loaders and nothing else, so each is checked on its own.      *)
(***************************************************************************)
EXTENDS SettingsObserver

OneGroupBuilds == {{g} : g \in Groups}
================================================================================
