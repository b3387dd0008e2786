------------------------------- MODULE Clients -------------------------------
(* The processes in which handlers of the job-search system run: commands   *)
(* of the CLI and the HTTP server, which is itself single-threaded.  They    *)
(* share nothing but the database and the files.                            *)
CONSTANT Client
=============================================================================
