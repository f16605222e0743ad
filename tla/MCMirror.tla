------------------------------ MODULE MCMirror ------------------------------
(* Two panels, two groups, two entries for clients and three connections.  *)
EXTENDS Mirror

Command(type, address, enabled) == [type |-> type, client |-> 0, address |-> address, enabled |-> enabled]

MCCommands == {Command("SET_MIRROR", 0, TRUE), Command("SET_MIRROR", 0, FALSE),
               Command("SET_COLOR", 1, FALSE), Command("TRIGGER", 0, FALSE)}

Job(kind, group, on) == [kind |-> kind, group |-> group, on |-> on]

MCWorks == {Job("play", 1, {1, 2}), Job("play", 2, {2}), Job("stop layer", 1, {1}), Job("stop", 0, {}),
            Job("off", 0, {}), Job("on", 0, {})}
=============================================================================
