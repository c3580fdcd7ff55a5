----------------------------- MODULE MasqueServe ----------------------------
(***************************************************************************)
(* The serving side: the life cycle of the server a program owns           *)
(* (MasqueServer), and what the command does with the connections that     *)
(* come in through it (TailcatServe).  The command starts its server once, *)
(* before it serves, and exits without closing it, so the two share no     *)
(* state and a behaviour is one of the side chosen at the start.           *)
(***************************************************************************)
EXTENDS MasqueServer, TailcatServe

VARIABLE side    \* "library" or "command"

serverSideVars == <<side, vars, serveVars>>

SideInit ==
  /\ side \in {"library", "command"} /\ Init /\ ServeInit
  /\ IF side = "library" THEN spec = {} /\ ~legacy ELSE allowed = {}

Library(A) == side = "library" /\ A /\ UNCHANGED <<side, serveVars>>
Command(A) == side = "command" /\ A /\ UNCHANGED <<side, vars>>

SideNext == Library(Next) \/ Command(ServeNext)

\* Fairness of MasqueServer and ServeFairness of TailcatServe.
SideSpec == SideInit /\ [][SideNext]_serverSideVars /\ Fairness /\ ServeFairness
=============================================================================
