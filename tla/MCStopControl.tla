----------------------------- MODULE MCStopControl -----------------------------
EXTENDS StopControl

MCUsed == {"ctrl", "stat"}
MCCommands == {{"stop"}, {"start"}, {"step"}, {"reset", "stop"}}
=============================================================================
