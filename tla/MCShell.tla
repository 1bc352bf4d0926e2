------------------------------ MODULE MCShell ------------------------------
(***************************************************************************)
(* Module Shell on a screen of two lines of two characters, with names of  *)
(* one to five characters 1, each the beginning of the next.               *)
(***************************************************************************)
EXTENDS Shell

Named(s, h) == [exe |-> s, do |-> h]
MCCommands == <<Named(<<49, 49>>, "help"), Named(<<49>>, "hexdump"),
                Named(<<49, 49, 49>>, "exit"), Named(<<49, 49, 49, 49>>, "print"),
                Named(<<49, 49, 49, 49, 49>>, "reboot")>>
MCPrompt == <<36>>
MCMotd == <<NL>>
MCOutput == <<TAB, 36, NL>>
MCMemory == [a \in 0..600 |-> (a * 7) % 256]
=============================================================================
