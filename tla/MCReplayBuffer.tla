--------------------------- MODULE MCReplayBuffer ---------------------------
(* Small instances of ReplayBuffer for TLC.                                *)
EXTENDS ReplayBuffer

SmallScenarios ==
    {{"again", "stop"}, {"again", "heal"}, {"again", "blips"},
     {"again", "sweep", "hookLost"}, {"again", "crash"},
     {"orphans", "stop", "stopFails", "fails"}}
=============================================================================
