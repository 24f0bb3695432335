---------------------------- MODULE MCRestServer ----------------------------
(* An instance of RestServer for TLC: a Spotify-like application that        *)
(* matches a second name by its prefix, and that second name, which is an    *)
(* alias until the host registers it too.                                    *)
EXTENDS RestServer

MCPrefixed == [a \in AppName |-> IF a = "spotify" THEN {"spotify-kids"} ELSE {}]
MCSpotify == <<"spotify">>
MCVersions == {<<2, 0, 9>>, <<2, 1, 0>>}
MCReports == {<<"spotify", "running">>, <<"spotify", "suspended">>,
              <<"spotify-kids", "running">>}
MCLists == {<<"spotify-kids">>, <<"spotify", "spotify-kids">>}
=============================================================================
