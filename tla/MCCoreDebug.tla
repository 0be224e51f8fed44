------------------------------ MODULE MCCoreDebug ------------------------------
EXTENDS CoreDebug

MCUsed == {"ctrl", "stat", "gspr_index", "gspr_data", "log_addr", "log_data"}

\* Commands alone and in the combinations in which one bit overrides another.
MCCommands == {{"stop"}, {"start"}, {"step"}, {"reset", "stop"}, {"stop", "start", "icreset"}}
=============================================================================
