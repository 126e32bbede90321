------------------------------- MODULE Access -------------------------------
(***************************************************************************)
(* The guard in front of the endpoints, for the modules in which roles do  *)
(* not change: who is behind a request and what the guard lets through.    *)
(***************************************************************************)
EXTENDS Rights

CONSTANTS
    Person,     \* people and machines with access to the company
    Machine,    \* those that came in as an integration
    RolesOf,    \* the roles each of them holds
    Nobody      \* where a row names no person

ASSUME AccessAssumption ==
    /\ Machine \subseteq Person
    /\ RolesOf \in [Person -> SUBSET Role]
    /\ Nobody \notin Person

\* The subscription of the company is in order.
Granted == [p \in Person |-> {r \in Right : Has(RolesOf[p], {}, p \in Machine, r)}]
Allowed(p, right) == right \in Granted[p]

=============================================================================
