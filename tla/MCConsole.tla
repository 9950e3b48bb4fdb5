------------------------------ MODULE MCConsole -------------------------------
EXTENDS Console

\* One letter key and the space bar.
MCPlain == (31 :> "s") @@ (57 :> " ")
MCShifted == (31 :> "S") @@ (57 :> " ")

\* A word of one or two letters for each kind of command ("S" is run).
MCCommands == (<<"s">> :> "setup") @@ (<<"s", "s">> :> "clear") @@ (<<"s", "S">> :> "reboot")
              @@ (<<"S", "S">> :> "help")
==============================================================================
