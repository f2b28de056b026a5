-------------------------- MODULE MCVoicePresence --------------------------
(* Small instances of VoicePresence for TLC.                               *)
EXTENDS VoicePresence

(* Revocations against joins, with everything that may fail or with a      *)
(* death; and the records against everything that writes them.             *)
SmallScenarios ==
    {{"user", "tick"}, {"user", "revokeFails"},
     {"session", "checkFails", "removeFails", "revokeFails", "hookLost"},
     {"session", "dies"}, {"rest", "read", "hookLost"}, {"rest", "flag"},
     {"again", "flag"}}
=============================================================================
