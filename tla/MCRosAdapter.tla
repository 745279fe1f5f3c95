---------------------------- MODULE MCRosAdapter ----------------------------
(* A navigation, a stop and an initial pose.                               *)
EXTENDS RosAdapter
CONSTANTS go, stop, pose, status
MCCalls == {go, stop, pose}
MCNavigations == {go}
MCPosts == {pose}
MCTopics == {status}
=============================================================================
