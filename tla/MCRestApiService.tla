-------------------------- MODULE MCRestApiService --------------------------
EXTENDS RestApiService, TLC
CONSTANTS r1, r2, r3, r4, start, stop

\* Three requests of one command and one of another.
SharedCommands == r1 :> start @@ r2 :> start @@ r3 :> stop @@ r4 :> start
=============================================================================
