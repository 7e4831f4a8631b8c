----------------------------- MODULE Endpoints -----------------------------
(***************************************************************************)
(* The HTTP controllers as tables.  Each of them looks at its request, at  *)
(* the session, at the role of the account and at the body, in the order   *)
(* of the fields below, before it runs a handler or a repository; what it  *)
(* makes of the outcome is in "on" and in "errors".                        *)
(*                                                                         *)
(*   before   what must be well-formed before the session is looked at,    *)
(*            400 otherwise: path identifiers, the key header, the body    *)
(*   session  "required" (401 without one, 503 if it cannot be checked),   *)
(*            "optional" or "none"                                         *)
(*   roles    who is let in, 403 for the others                            *)
(*   after    what must be well-formed once the caller is let in           *)
(*   on       the status of every outcome                                  *)
(*   errors   the statuses of an error of the database                     *)
(***************************************************************************)
EXTENDS Integers

\* has_admin_role(), and has_approver_role() which lists the same.
AdminRoles == {"APPROVER", "RESOURCE_ADMIN", "ORG_ADMIN", "SYSTEM_ADMIN"}
Roles == AdminRoles \cup {"MEMBER"}

-----------------------------------------------------------------------------
(* Accounts and sessions.  AccountStatus is authentication_error().        *)

AccountStatus ==
  [invalid_input |-> 400, account_not_found |-> 404, account_exists |-> 409,
   invalid_credentials |-> 401, invalid_session |-> 401, persistence |-> 503]

SignUpEndpoint ==
  [before |-> {"body"}, session |-> "none", roles |-> Roles, after |-> {},
   on |-> [done |-> 201, taken |-> AccountStatus.account_exists],
   errors |-> {AccountStatus.persistence}]

LogInEndpoint ==
  [before |-> {"body"}, session |-> "none", roles |-> Roles, after |-> {},
   on |-> [done |-> 200, absent |-> AccountStatus.account_not_found,
           wrong |-> AccountStatus.invalid_credentials],
   errors |-> {AccountStatus.persistence}]

SessionEndpoint ==
  [before |-> {}, session |-> "required", roles |-> Roles, after |-> {},
   on |-> [done |-> 200], errors |-> {AccountStatus.persistence}]

\* The session is not checked, only removed, and no error is told.
LogOutEndpoint ==
  [SessionEndpoint EXCEPT !.on = [done |-> 204], !.errors = {204}]

-----------------------------------------------------------------------------
(* The catalog.  The four controllers of administrators answer a            *)
(* RepositoryError with 503 and any other exception with 500.               *)

CreateResourceEndpoint ==
  [before |-> {}, session |-> "required", roles |-> AdminRoles, after |-> {"body"},
   on |-> [done |-> 201, exists |-> 409], errors |-> {500, 503}]

\* An error of a row is counted, not answered; a row that is no object makes
\* the JSON library throw.
BulkCreateEndpoint ==
  [before |-> {}, session |-> "required", roles |-> AdminRoles, after |-> {"body"},
   on |-> [done |-> 200, thrown |-> 500], errors |-> {200}]

UpdateResourceEndpoint ==
  [before |-> {"identifier"}, session |-> "required", roles |-> AdminRoles,
   after |-> {"body"}, on |-> [done |-> 200, absent |-> 404],
   errors |-> {500, 503}]

DeleteResourceEndpoint ==
  [before |-> {"identifier"}, session |-> "required", roles |-> AdminRoles,
   after |-> {}, on |-> [done |-> 204, absent |-> 204],
   errors |-> {500, 503}]

ListResourcesEndpoint ==
  [before |-> {}, session |-> "required", roles |-> AdminRoles, after |-> {},
   on |-> [done |-> 200], errors |-> {500, 503}]

\* An error is unavailable(): 503 if the database timed out or turned the
\* service away, and otherwise 500.
SearchEndpoint ==
  [before |-> {}, session |-> "optional", roles |-> Roles, after |-> {"body"},
   on |-> [done |-> 200], errors |-> {500, 503}]

GetResourceEndpoint ==
  [before |-> {"identifier"}, session |-> "none", roles |-> Roles, after |-> {},
   on |-> [done |-> 200, absent |-> 404], errors |-> {500}]

ListOrganizationsEndpoint ==
  [before |-> {}, session |-> "none", roles |-> Roles, after |-> {},
   on |-> [done |-> 200], errors |-> {500, 503}]

-----------------------------------------------------------------------------
(* Reservations.                                                           *)

CreationStatuses ==
  [CREATED_CONFIRMED |-> 201, CREATED_PENDING_APPROVAL |-> 201,
   RESOURCE_NOT_FOUND |-> 404, RESOURCE_INACTIVE |-> 422,
   SCHEDULE_CONFLICT |-> 409, POLICY_REJECTED |-> 422,
   IDEMPOTENCY_CONFLICT |-> 409, IDEMPOTENCY_IN_PROGRESS |-> 409]

CreateReservationEndpoint ==
  [before |-> {"key"}, session |-> "required", roles |-> Roles, after |-> {"body"},
   on |-> CreationStatuses, errors |-> {500, 503}]

\* Mutant: a decision that lost a race is told so as a 409.
ApproveEndpointTellsConflicts ==
  [before |-> {"identifier"}, session |-> "required", roles |-> AdminRoles,
   after |-> {},
   on |-> [OK |-> 200, RESERVATION_NOT_FOUND |-> 404, INVALID_STATE |-> 409,
           SCHEDULE_CONFLICT |-> 409],
   errors |-> {409}]

\* An error of the repository, and its CAS mismatch, are an exception like any.
ApproveEndpoint ==
  [before |-> {"identifier"}, session |-> "required", roles |-> AdminRoles,
   after |-> {},
   on |-> [OK |-> 200, RESERVATION_NOT_FOUND |-> 404, INVALID_STATE |-> 409,
           SCHEDULE_CONFLICT |-> 409],
   errors |-> {500}]

RejectEndpoint ==
  [before |-> {"identifier"}, session |-> "required", roles |-> AdminRoles,
   after |-> {},
   on |-> [OK |-> 200, RESERVATION_NOT_FOUND |-> 404, INVALID_STATE |-> 409],
   errors |-> {500}]

\* The only route to a cancellation: it bypasses the owner check.
AdminCancelEndpoint ==
  [before |-> {"identifier"}, session |-> "required", roles |-> AdminRoles,
   after |-> {},
   on |-> [OK |-> 200, RESERVATION_NOT_FOUND |-> 404,
           CALLER_NOT_AUTHORIZED |-> 403, INVALID_STATE |-> 409],
   errors |-> {500}]

\* A reservation of somebody else is as good as absent.
GetReservationEndpoint ==
  [before |-> {"identifier"}, session |-> "required", roles |-> Roles,
   after |-> {}, on |-> [done |-> 200, absent |-> 404, foreign |-> 404],
   errors |-> {500}]

ListMineEndpoint ==
  [before |-> {}, session |-> "required", roles |-> Roles, after |-> {},
   on |-> [done |-> 200], errors |-> {500, 503}]

ListPendingEndpoint ==
  [before |-> {}, session |-> "required", roles |-> AdminRoles, after |-> {},
   on |-> [done |-> 200], errors |-> {500, 503}]

ListDecidedEndpoint ==
  [before |-> {}, session |-> "required", roles |-> AdminRoles, after |-> {},
   on |-> [done |-> 200], errors |-> {500, 503}]

ListAllEndpoint ==
  [before |-> {}, session |-> "required", roles |-> AdminRoles, after |-> {},
   on |-> [done |-> 200], errors |-> {500, 503}]

=============================================================================
