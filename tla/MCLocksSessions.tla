-------------------------- MODULE MCLocksSessions --------------------------
(***************************************************************************)
(* One TLC instance for two small parts of the server that no request      *)
(* changes together: the mutexes of two keys, one that is in use and one   *)
(* that is new, and the sessions.  A behaviour is one of a single part,    *)
(* chosen at first; the variables of the other keep their first values.    *)
(***************************************************************************)
EXTENDS KeyRWMutex, Sessions

CONSTANT Parts

VARIABLE part

partVars == <<part, vars, sessionVars>>

PartInit ==
  /\ part \in Parts
  /\ Init /\ SessionsInit
  /\ part # "mutexes" => /\ key = [t \in Threads |-> CHOOSE k \in Keys : TRUE]
                         /\ made \subseteq {CHOOSE m \in Mutexes : TRUE}

PartNext ==
  /\ UNCHANGED part
  /\ \/ part = "mutexes" /\ Next /\ UNCHANGED sessionVars
     \/ part = "sessions" /\ SessionsNext /\ UNCHANGED vars

PartSpec == PartInit /\ [][PartNext]_partVars /\ Fairness /\ SessionsFairness

\* The variables of both parts keep their types.
PartTypeOK == TypeOK /\ SessionsTypeOK
=============================================================================
