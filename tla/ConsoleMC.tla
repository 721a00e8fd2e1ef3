------------------------------- MODULE ConsoleMC -------------------------------
(* A small screen and keyboard, with commands that one key can spell.         *)
EXTENDS Console

MCHelp == <<97>>
MCClear == <<97, 97>>
MCExec == <<97, 97, 97>>
MCPrompt == <<SP>>
MCMessage == <<NL>>
================================================================================
