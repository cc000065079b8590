---------------------------- MODULE MCRTSPServer ----------------------------
(***************************************************************************)
(* Two connections and two sessions, each two alike.                       *)
(***************************************************************************)
EXTENDS RTSPServer, TLC

CONSTANTS s1, s2, id1, id2

Alike == Permutations({s1, s2}) \union Permutations({id1, id2})
=============================================================================
