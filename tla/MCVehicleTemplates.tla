------------------------- MODULE MCVehicleTemplates -------------------------
\* A template, the next version of it with new PIDs and a new DBC file, and
\* one that has no DBC file.
EXTENDS VehicleTemplates

Template(pids, settings, dbc) ==
    [p \in Parts |-> CASE p = "pids" -> pids
                       [] p = "settings" -> settings
                       [] p = "dbc" -> dbc]

MCConfigs == {Template("u1", "u1", "u1"), Template("u2", "u1", "u2"),
              Template("u2", "u2", "none")}
=============================================================================
