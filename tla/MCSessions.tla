------------------------------- MODULE MCSessions -------------------------------
(***************************************************************************)
(* The session manager: the session cache and the endpoint index built     *)
(* from it.  A session is one key's end height in the one and an entry in  *)
(* the other; each is explored with the other at rest.                     *)
(***************************************************************************)
EXTENDS Sessions, TLC

CONSTANTS Parts, a1, a2, s1, s2, s3, s4

VARIABLE part

\* Two applications of a service: s3 and s4 end together.
MCEndOf == (s1 :> 1) @@ (s2 :> 2) @@ (s3 :> 3) @@ (s4 :> 3)

\* a2's supplier skips the second session.
MCAddrsOf == (s1 :> {a1, a2}) @@ (s2 :> {a1}) @@ (s3 :> {a1}) @@ (s4 :> {a2})

mcVars == <<part, sessionVars, indexVars>>

MCInit ==
    /\ part \in Parts /\ SessionInit /\ IndexInit
    /\ part # "sessions" => latest = 0

MCNext ==
    \/ part = "sessions" /\ SessionNext /\ UNCHANGED <<part, indexVars>>
    \/ part = "index" /\ IndexNext /\ UNCHANGED <<part, sessionVars>>

MCSpec == MCInit /\ [][MCNext]_mcVars
=============================================================================
