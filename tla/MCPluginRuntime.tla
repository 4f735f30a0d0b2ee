-------------------------- MODULE MCPluginRuntime --------------------------
EXTENDS PluginRuntime

CONSTANTS w1, w2

MCWorkers == {w1, w2}
MCPids    == 1..4
MCPythons == {"3.11", "3.12"}
=============================================================================
