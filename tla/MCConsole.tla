----------------------------- MODULE MCConsole -----------------------------
(* Instances of ConsoleSession: an administrator and a read-only user.      *)
EXTENDS ConsoleSession

OneUser == {"root"}
TwoUsers == {"root", "guest"}
MCRole == [u \in Users |-> IF u = "root" THEN Admin ELSE ReadOnly]

ThreePages == {"status", "users", "collections"}
OnePage == {"status"}
=============================================================================
