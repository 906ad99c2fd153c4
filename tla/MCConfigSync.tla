---------------------------- MODULE MCConfigSync ---------------------------
(* Instances of ConfigSync for TLC: one server with a config dir, a file in *)
(* it, and one outside or one whose path only begins with the dir's name.   *)
EXTENDS ConfigSync

lobbyFile    == <<"configs/lobby", "/", "a.yml">>
lobbyTwin    == <<"configs/lobby", "2", "/", "a.yml">>
lobbyBeside  == <<"configs/lobby", ".yml">>
survivalFile == <<"configs/survival", "/", "a.yml">>

MCPaths == {lobbyFile, survivalFile}
LookalikePaths == {lobbyFile, lobbyTwin, lobbyBeside}
MCConfigDir == [s \in Servers |-> <<"configs/lobby">>]
=============================================================================
