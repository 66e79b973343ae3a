--------------------------- MODULE MCRemoteConfig ---------------------------
(***************************************************************************)
(* Two client machines; the server has one cache file for its keys.        *)
(***************************************************************************)
EXTENDS RemoteConfig

CONSTANT remote

TheCaches == [c \in Issuers |-> remote]
=============================================================================
