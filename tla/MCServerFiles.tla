---------------------------- MODULE MCServerFiles ----------------------------
(* A Server's data directory, in scenarios that keep its parts apart.        *)
EXTENDS ServerFiles

Config(mode, host) == [mode |-> mode, host |-> host]

Scenario(configs, ops, ids, ticks, kills, faults, unlocked, starts, commands, backups) ==
    [configs |-> configs, ops |-> ops, ids |-> ids, ticks |-> ticks, kills |-> kills,
     faults |-> faults, unlocked |-> unlocked, starts |-> starts, commands |-> commands,
     backups |-> backups]

\* Managed CA: commands that fail or are killed, and one that overlaps a status.
Managed ==
    {Scenario({Config("managed", "h1"), Config("managed", "h2")}, {"init", "restoreca"},
              7, 0, 1, 2, 0, 1, 3, 0),
     Scenario({Config("managed", "h1"), Config("managed", "h2")}, {"init", "renew"},
              7, 1, 1, 0, 1, 1, 2, 0)}

\* The operator's own certificate, ACME, and the database with the set-up page.
Others ==
    {Scenario({Config("external", "h1")}, {"init", "renew", "external"}, 3, 2, 0, 0, 1, 1, 2, 0),
     Scenario({Config("acme", "h1")}, {"init", "renew"}, 5, 2, 1, 1, 1, 2, 2, 0),
     Scenario({Config("local", "h1")}, {"init", "setup", "restoredb", "write"}, 4, 0, 2, 0, 0, 3, 3, 2)}

AllScenarios == Managed \cup Others
=============================================================================
