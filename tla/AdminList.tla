----------------------------- MODULE AdminList -----------------------------
(***************************************************************************)
(* The canister's admin list: a vector of principals that a controller     *)
(* bootstraps once and that the admins then edit.  reply is the outcome    *)
(* the last call returned to its caller.                                   *)
(***************************************************************************)
EXTENDS Naturals, Sequences, FiniteSets

CONSTANTS
  Principals,   \* everybody who may call
  Controllers   \* those the subnet reports as controllers of the canister

ASSUME ControllersAssumption == Controllers \subseteq Principals

VARIABLES admins, reply

adminVars == <<admins, reply>>

is_admin(p) == \E i \in 1..Len(admins) : admins[i] = p

Replied(method, caller, ok) ==
  reply' = [method |-> method, caller |-> caller, ok |-> ok]

AdminInit ==
  /\ admins = <<>>
  /\ reply = [method |-> "init", caller |-> "none", ok |-> TRUE]

BootstrapAdmin(caller, real_admin) ==
  \/ /\ caller \in Controllers
     /\ admins = <<>>
     /\ admins' = Append(admins, real_admin)
     /\ Replied("bootstrap_admin", caller, TRUE)
  \/ /\ caller \notin Controllers \/ admins # <<>>
     /\ UNCHANGED admins
     /\ Replied("bootstrap_admin", caller, FALSE)

\* Faulty variant: an admin can be listed twice.
WithAdminAgain(p) == Append(admins, p)

WithAdmin(p) ==
  IF \E i \in 1..Len(admins) : admins[i] = p THEN admins ELSE Append(admins, p)

AddAdmin(caller, new_admin) ==
  /\ admins' = IF is_admin(caller) THEN WithAdmin(new_admin) ELSE admins
  /\ Replied("add_admin", caller, is_admin(caller))

\* The length is looked at before the vector is searched: removing somebody
\* who is not an admin succeeds and changes nothing, unless one admin is left.
MayRemove(caller) == is_admin(caller) /\ Len(admins) > 1

\* retain: kept[i] is what is left of the first i entries.
WithoutAdmin(p) ==
  LET kept[i \in 0..Len(admins)] ==
        IF i = 0 THEN <<>>
        ELSE IF admins[i] = p THEN kept[i - 1] ELSE Append(kept[i - 1], admins[i])
  IN  kept[Len(admins)]

RemoveAdmin(caller, old_admin) ==
  /\ admins' = IF MayRemove(caller) THEN WithoutAdmin(old_admin) ELSE admins
  /\ Replied("remove_admin", caller, MayRemove(caller))

AdminNext ==
  \E caller, other \in Principals :
    \/ BootstrapAdmin(caller, other)
    \/ AddAdmin(caller, other)
    \/ RemoveAdmin(caller, other)

AdminSpec == AdminInit /\ [][AdminNext]_adminVars

-----------------------------------------------------------------------------
(* Properties *)

\* Once bootstrapped the list is never empty again, whatever the admins do to
\* each other: no sequence of calls reopens bootstrap_admin or leaves nobody
\* to call submit_record (remove_admin_impl counts entries, so this also needs
\* add_admin_impl to keep them distinct).
NeverLockedOut == [][admins # <<>> => admins' # <<>>]_adminVars

\* What the README's interface table says of bootstrap_admin, "public, once
\* only ... succeeds only while the canister has zero admins": a bootstrap
\* call fails only if somebody is admin already.
BootstrapIsPublic ==
  reply.method = "bootstrap_admin" /\ ~reply.ok => admins # <<>>
=============================================================================
