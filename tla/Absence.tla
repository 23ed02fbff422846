------------------------------- MODULE Absence -------------------------------
(***************************************************************************)
(* The requests of the credential services, and the value that stands for  *)
(* what is absent: a lock nobody holds, a grant that is not there.         *)
(***************************************************************************)
EXTENDS Integers

CONSTANTS Requests,   \* slots for requests in progress
          None

ASSUME NoneIsNoRequest == None \notin Requests

\* What the vault keeps of a SuperGrok grant.
Grants == [tokens : Nat, generation : Nat, expires : Nat]

ASSUME NoneIsNoGrant == None \notin Grants
=============================================================================
